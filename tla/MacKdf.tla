------------------------------- MODULE MacKdf -------------------------------
(***************************************************************************)
(* The MAC key derivation of set_mac_key() (src/lib/proxy/ssh/mac.c),     *)
(* one call of it, step by step: size the key buffer, compute             *)
(* K1 = HASH(K || H || letter || session_id), then extend with            *)
(* K(n+1) = HASH(K || H || K1 || ... || Kn) until the buffer is full.     *)
(* Any digest call may fail; the buffer is then freed.                    *)
(*                                                                         *)
(* Data abstraction: the hash is injective, so the i-th hash output of    *)
(* this call is named by i and its bytes by (i, offset); a hash input is  *)
(* a sequence of atoms (K, H, letter, session id) and such bytes.  A      *)
(* buffer byte is one of those, or Uninit.  Lengths are exact bytes.      *)
(***************************************************************************)
EXTENDS Naturals, Sequences, FiniteSets, MacCatalog

CONSTANTS
  Names,        \* the MAC algorithms whose keys are derived
  KexDigests,   \* the key exchange hashes (md)
  MaxHashes     \* bound on the digest passes one call makes (K1 included)

ASSUME Names \subseteq DOMAIN MacTable
ASSUME MaxHashes \in Nat \ {0}
ASSUME KexDigests \subseteq DOMAIN DigestSize /\ \A d \in KexDigests : DigestSize[d] > 0

VARIABLES
  name,       \* the slot's algorithm (mac->algo, mac->digest, algo_type)
  md,         \* the kex hash
  interop,    \* proxy_ssh_interop_supports_feature(PROXY_SSH_FEAT_MAC_LEN)
  pc,         \* "start", "round1", "loop", "done", "none" or "failed"
  keysz,      \* key_sz
  key,        \* the malloc'ed key buffer: 0..key_sz-1 -> byte
  keyLen,     \* the local key_len: bytes of key filled so far
  inputs,     \* the inputs of the hashes computed so far, in order
  macKeyLen,  \* mac->key_len set at the end
  overrun,    \* history: a digest output was written past key + key_sz
  residue     \* derived bytes left in freed memory without pr_memscrub

vars == <<name, md, interop, pc, keysz, key, keyLen, inputs, macKeyLen,
          overrun, residue>>

Uninit == [blk |-> 0, off |-> 0]
Atom(a) == [atom |-> a]
FirstInput == <<Atom("K"), Atom("H"), Atom("letter"), Atom("id")>>
KH == <<Atom("K"), Atom("H")>>
S == DigestSize[md]
Digest == MacTable[name].digest
IsUmac == name \in {"umac-64@openssh.com", "umac-128@openssh.com"}

\* The buffer bytes holding hash output, and the first n bytes as a sequence.
Derived(buf) == {buf[k] : k \in DOMAIN buf} \ {Uninit}
Bytes(buf, n) == [k \in 1..n |-> buf[k - 1]]

\* The digest output of hash number i written at offset pos; bytes that
\* fall outside the buffer are lost (and recorded as an overrun).
WriteBlock(buf, pos, i) ==
  [k \in DOMAIN buf |-> IF pos <= k /\ k < pos + S
                          THEN [blk |-> i, off |-> k - pos] ELSE buf[k]]

TypeOK ==
  /\ name \in Names /\ md \in KexDigests /\ interop \in BOOLEAN
  /\ pc \in {"start", "round1", "loop", "done", "none", "failed"}
  /\ keysz \in Nat /\ keyLen \in Nat /\ macKeyLen \in Nat
  /\ DOMAIN key = 0..(keysz - 1)
  /\ inputs \in Seq(Seq([atom : STRING] \cup [blk : Nat, off : Nat]))
  /\ overrun \in BOOLEAN
  /\ residue \subseteq [blk : Nat, off : Nat]

Init ==
  /\ name \in Names /\ md \in KexDigests /\ interop \in BOOLEAN
  /\ pc = "start"
  /\ keysz = 0 /\ key = <<>> /\ keyLen = 0 /\ inputs = <<>>
  /\ macKeyLen = 0 /\ overrun = FALSE /\ residue = {}

RoundUp(n, m) == ((n + m - 1) \div m) * m

\* Mutation: the buffer is sized by the MAC digest's block size alone.
KeySizeNoRoundUp == DigestBlock[Digest]
\* Mutation: the buffer is sized by the kex hash output alone.
KeySizeKexOnly == S

\* key_sz = proxy_ssh_crypto_get_size(EVP_MD_block_size(mac->digest),
\*                                     EVP_MD_size(md))
KeySize == RoundUp(DigestBlock[Digest], S)

\* Mutation: the buffer is indexed from 1, one byte off its allocation.
StartOffByOne ==
  /\ pc = "start"
  /\ keysz' = KeySize
  /\ key' = [k \in 1..KeySize |-> Uninit]
  /\ pc' = IF KeySize = 0 THEN "none" ELSE "round1"
  /\ UNCHANGED <<name, md, interop, keyLen, inputs, macKeyLen, overrun, residue>>

\* key_sz 0: "none" returns 0 without a key (any other name fails; the
\* table has no other digest with a zero block size); else malloc(key_sz).
Start ==
  /\ pc = "start"
  /\ keysz' = KeySize
  /\ key' = [k \in 0..(KeySize - 1) |-> Uninit]
  /\ pc' = IF KeySize = 0 THEN "none" ELSE "round1"
  /\ UNCHANGED <<name, md, interop, keyLen, inputs, macKeyLen, overrun, residue>>

\* Freeing the buffer on an error path, with or without pr_memscrub first.
Discard(scrub) ==
  /\ pc' = "failed"
  /\ residue' = IF scrub THEN residue ELSE residue \cup Derived(key)
  /\ UNCHANGED <<name, md, interop, keysz, key, keyLen, inputs, macKeyLen, overrun>>

\* K1: DigestInit, Update(K), Update(H), Update(letter), Update(id), Final.
\* A failure before Final frees the (still empty) buffer unscrubbed; a
\* failure of Final scrubs it first.
FirstRound ==
  /\ pc = "round1"
  /\ \/ /\ key' = WriteBlock(key, 0, 1)
        /\ keyLen' = S
        /\ inputs' = <<FirstInput>>
        /\ overrun' = (overrun \/ S > keysz)
        /\ pc' = "loop"
        /\ UNCHANGED <<name, md, interop, keysz, macKeyLen, residue>>
     \/ Discard(FALSE)
     \/ Discard(TRUE)

\* Mutation: each extension hashes only the last block derived.
NextInputLastBlock(buf, n) == KH \o SubSeq(Bytes(buf, n), n - S + 1, n)

\* The input of the next extension: K || H || key[0 .. key_len).
NextInput(buf, n) == KH \o Bytes(buf, n)

\* Mutation: the pass does not advance key_len.
ExtendNoAdvance ==
  /\ pc = "loop" /\ keysz > keyLen /\ Len(inputs) < MaxHashes
  /\ key' = WriteBlock(key, keyLen, Len(inputs) + 1)
  /\ inputs' = Append(inputs, NextInput(key, keyLen))
  /\ overrun' = (overrun \/ keyLen + S > keysz)
  /\ UNCHANGED <<name, md, interop, pc, keysz, keyLen, macKeyLen, residue>>

\* One pass of "while (key_sz > key_len)": hash K, H and all bytes derived
\* so far, write the output at key + key_len.  A pass is taken only while
\* fewer than MaxHashes digests have been computed.
Extend ==
  /\ pc = "loop" /\ keysz > keyLen /\ Len(inputs) < MaxHashes
  /\ key' = WriteBlock(key, keyLen, Len(inputs) + 1)
  /\ inputs' = Append(inputs, NextInput(key, keyLen))
  /\ keyLen' = keyLen + S
  /\ overrun' = (overrun \/ keyLen + S > keysz)
  /\ UNCHANGED <<name, md, interop, pc, keysz, macKeyLen, residue>>

\* Mutation: the loop's error paths free the buffer without scrubbing it.
ExtendFailNoScrub ==
  /\ pc = "loop" /\ keysz > keyLen /\ Len(inputs) < MaxHashes
  /\ Discard(FALSE)

\* Any digest call of a pass failing: pr_memscrub, free, return -1.
ExtendFail ==
  /\ pc = "loop" /\ keysz > keyLen /\ Len(inputs) < MaxHashes
  /\ Discard(TRUE)

\* The buffer becomes mac->key; mac->key_len is the length the primitive
\* is keyed with: the digest size for HMAC, its block size for UMAC, 16
\* for peers without the MAC_LEN feature.
Finish ==
  /\ pc = "loop" /\ ~(keysz > keyLen)
  /\ macKeyLen' = IF ~interop THEN 16
                  ELSE IF IsUmac THEN DigestBlock[Digest] ELSE DigestSize[Digest]
  /\ pc' = "done"
  /\ UNCHANGED <<name, md, interop, keysz, key, keyLen, inputs, overrun, residue>>

Next == Start \/ FirstRound \/ Extend \/ ExtendFail \/ Finish

Spec == Init /\ [][Next]_vars

\* set_mac_key is one synchronous call: nothing it waits for can stop it, so
\* once called it keeps taking steps until it returns.
FairSpec == Spec /\ WF_vars(Next)

-----------------------------------------------------------------------------
(***************************************************************************)
(* The reference derivation, RFC 4253 section 7.2: the input of hash i    *)
(* and byte k of the stream K1 || K2 || ...                                *)
(***************************************************************************)
RefByte(k) == [blk |-> (k \div S) + 1, off |-> k % S]
RefInput(i) ==
  IF i = 1 THEN FirstInput
  ELSE KH \o [k \in 1..((i - 1) * S) |-> RefByte(k - 1)]

(* No digest output is ever written past the end of the key buffer, for  *)
(* any MAC digest and kex hash: key_sz is a multiple of the hash size,    *)
(* so the last pass of the loop ends exactly at key + key_sz.            *)
NoOverrun == ~overrun

(* A completed derivation holds the RFC 4253 key: every hash had the     *)
(* input the RFC prescribes, and every buffer byte is the RFC stream's.  *)
DerivesRfcKey ==
  pc = "done" =>
    /\ \A i \in 1..Len(inputs) : inputs[i] = RefInput(i)
    /\ \A k \in 0..(keysz - 1) : key[k] = RefByte(k)

(* Whatever digest call fails, no derived key byte is left in freed      *)
(* memory unscrubbed.                                                     *)
NoKeyResidue == residue = {}

(* The primitive never reads key material past the buffer: HMAC_Init_ex  *)
(* reads mac->key_len bytes and umac_init reads 16, both within key_sz.  *)
KeyLenWithinBuffer ==
  pc = "done" => macKeyLen <= keysz /\ (IsUmac => 16 <= keysz)

(* Every call returns, with a key, without one ("none") or with an error,  *)
(* after at most MaxHashes digest passes: each pass of the extension loop *)
(* advances key_len by a full hash output towards key_sz.                 *)
Termination == <>(pc \in {"done", "none", "failed"})

=============================================================================
