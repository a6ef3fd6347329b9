----------------------------- MODULE MC_MacKdf -----------------------------
(***************************************************************************)
(* Model-checking instance of MacKdf.                                      *)
(***************************************************************************)
EXTENDS MacKdf

\* Every algorithm of the table.
MCNames == DOMAIN MacTable

\* The kex hashes of the SSH key exchanges: SHA-1 (20 bytes, which divides
\* no block size), SHA-256 and SHA-512 (larger than some MAC digests).
MCKexDigests == {"sha1", "sha256", "sha512"}

=============================================================================
