---------------------------- MODULE MC_MacRekey ----------------------------
(***************************************************************************)
(* Model-checking instances of MacRekey.                                   *)
(***************************************************************************)
EXTENDS MacRekey

\* One HMAC with a full tag, one truncated HMAC, one UMAC and "none": every
\* slot type, two tag lengths on the same digest, and a return to no MAC.
MCAlgos == {"none", "hmac-sha1", "hmac-sha1-96", "umac-64@openssh.com"}

\* As above, plus a name the digest table does not know.
MCAlgosUnknown == MCAlgos \cup {"hmac-unknown"}

=============================================================================
