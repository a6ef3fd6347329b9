----------------------------- MODULE MacCatalog -----------------------------
(***************************************************************************)
(* The data this MAC layer consumes from its collaborators, none of which *)
(* lives in mac.c: the properties of the OpenSSL message digests          *)
(* (EVP_MD_size, EVP_MD_block_size), the algorithm table behind           *)
(* proxy_ssh_crypto_get_digest() (crypto.c), and the tag a correct SSH    *)
(* peer puts on a packet (RFC 4253 section 6.4, spec section 4.4).        *)
(* Everything here is modelled from the spec, not from src/.              *)
(***************************************************************************)
EXTENDS Naturals, TLC

\* The NULL of a pointer or of a string in mac.c.
NULL == "NULL"

\* EVP_MD_size and EVP_MD_block_size of the digests the table refers to.
DigestSize  == [md_null |-> 0, md5 |-> 16, sha1 |-> 20, sha256 |-> 32, sha512 |-> 64]
DigestBlock == [md_null |-> 0, md5 |-> 64, sha1 |-> 64, sha256 |-> 64, sha512 |-> 128]

(***************************************************************************)
(* proxy_ssh_crypto_get_digest(name, &mac_len): the digest an algorithm   *)
(* name is built on and the truncated tag length it imposes (0 when the   *)
(* full digest is the tag).  The UMAC entries carry a placeholder digest  *)
(* whose block size sizes the derived key; their tag lengths are fixed.   *)
(***************************************************************************)
MacTable ==
     ("none"                 :> [digest |-> "md_null", macLen |-> 0])
  @@ ("hmac-sha1"            :> [digest |-> "sha1",    macLen |-> 0])
  @@ ("hmac-sha1-96"         :> [digest |-> "sha1",    macLen |-> 12])
  @@ ("hmac-md5"             :> [digest |-> "md5",     macLen |-> 0])
  @@ ("hmac-sha2-256"        :> [digest |-> "sha256",  macLen |-> 0])
  @@ ("hmac-sha2-512"        :> [digest |-> "sha512",  macLen |-> 0])
  @@ ("umac-64@openssh.com"  :> [digest |-> "md5",     macLen |-> 8])
  @@ ("umac-128@openssh.com" :> [digest |-> "md5",     macLen |-> 16])

NotFound == [digest |-> NULL, macLen |-> 0]

GetDigest(name) == IF name \in DOMAIN MacTable THEN MacTable[name] ELSE NotFound

(***************************************************************************)
(* Keys: a key is named by the key exchange (generation) it comes from   *)
(* and the letter of RFC 4253 section 7.2 it was derived with: "E" for    *)
(* the client-to-server direction, "F" for server-to-client.              *)
(***************************************************************************)
NoKey == [gen |-> 0, letter |-> "-"]
KeyOf(g, l) == [gen |-> g, letter |-> l]
RfcLetter(sender) == IF sender = "client" THEN "E" ELSE "F"

(***************************************************************************)
(* The tag a correct peer computes over a packet: the keyed primitive, the *)
(* key, the number of tag bytes on the wire, and the packet sequence      *)
(* number it covers (HMAC over seqno || packet, UMAC with seqno as its    *)
(* nonce).  "none" puts no tag on the packet.  Byte contents are          *)
(* abstracted to (primitive, key, seqno): two tags are equal exactly when *)
(* all three match.                                                        *)
(***************************************************************************)
NoTag == [prim |-> "none", key |-> NoKey, len |-> 0, seq |-> 0]

Primitive(name) ==
  CASE name = "umac-64@openssh.com"  -> "UMAC64"
    [] name = "umac-128@openssh.com" -> "UMAC128"
    [] OTHER                         -> MacTable[name].digest

TagLen(name) ==
  IF MacTable[name].macLen # 0 THEN MacTable[name].macLen
                               ELSE DigestSize[MacTable[name].digest]

TagOf(name, key, seq) ==
  IF name = "none" THEN NoTag
  ELSE [prim |-> Primitive(name), key |-> key, len |-> TagLen(name), seq |-> seq]

\* The packet layer's 32-bit sequence numbers (pkt->seqno), counted modulo
\* m (2^32 in the code): the number after s.
NextSeq(s, m) == (s + 1) % m

=============================================================================
