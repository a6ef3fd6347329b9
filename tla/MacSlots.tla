------------------------------ MODULE MacSlots ------------------------------
(***************************************************************************)
(* One direction of mod_proxy's SSH MAC layer (src/lib/proxy/ssh/mac.c):  *)
(* the two generation slots read_macs[2] (or write_macs[2]), the HMAC and *)
(* UMAC primitive contexts behind them, the active index read_mac_idx,    *)
(* and the per-slot MAC block sizes mac_blockszs[2].  Its operations are  *)
(* proxy_ssh_mac_set_read_algo, proxy_ssh_mac_set_read_key and            *)
(* proxy_ssh_mac_read_data; Dir = "write" drops what only the read side   *)
(* does (the block sizes).  The caller protocol (kex.c, packet.c) is not  *)
(* here: MacRekey composes this module with it.                            *)
(*                                                                         *)
(* Data abstraction: a key is named by the key exchange it was derived   *)
(* in and the RFC 4253 letter it was derived with (NoKey is the NULL      *)
(* key), a primitive context holds the key it was keyed with, and a tag   *)
(* is (primitive, key, length).  Lengths are kept in bytes: they decide   *)
(* framing and buffers.                                                    *)
(***************************************************************************)
EXTENDS Naturals, MacCatalog

CONSTANTS
  Dir,            \* "read" or "write"
  Role,           \* PROXY_SSH_ROLE_CLIENT or _SERVER: "client" or "server"
  KexDigest,      \* the key exchange hash md passed to set_key
  InteropMacLen   \* proxy_ssh_interop_supports_feature(PROXY_SSH_FEAT_MAC_LEN)

ASSUME Dir \in {"read", "write"} /\ Role \in {"client", "server"}
       /\ KexDigest \in DOMAIN DigestSize
       /\ DigestSize[KexDigest] > 0 /\ InteropMacLen \in BOOLEAN

VARIABLES
  macs,      \* read_macs[0..1]: struct proxy_ssh_mac, abstracted below
  hmacCtx,   \* hmac_read_ctxs[i]: the key it is keyed with, NoKey if reset
  umacCtx,   \* umac_read_ctxs[i]: allocated?, the key it is keyed with
  blocksz,   \* mac_blockszs[i]
  idx,       \* read_mac_idx
  macError   \* the error a call returned; any error ends the session

\* A NULL umac_ctx, and a freshly allocated one.
UmacNull == [alloc |-> FALSE, key |-> NoKey]
UmacNew  == [alloc |-> TRUE, key |-> NoKey]

slotVars == <<macs, hmacCtx, umacCtx, blocksz, idx, macError>>

Keys == [gen : Nat, letter : {"-", "E", "F"}]
Slots == {0, 1}
UmacTypes == {"UMAC64", "UMAC128"}
Errors == {"none", "UnknownAlgorithm", "InitFailed", "MacMismatch",
           "MacFailed", "Crash", "Desync"}

EmptyMac == [algo |-> NULL, type |-> "unset", digest |-> NULL, key |-> NoKey,
             keysz |-> 0, keyLen |-> 0, macLen |-> 0]

TypeOK ==
  /\ macs \in [Slots -> [algo : DOMAIN MacTable \cup {NULL},
                         type : {"unset", "HMAC"} \cup UmacTypes,
                         digest : DOMAIN DigestSize \cup {NULL},
                         key : Keys, keysz : Nat, keyLen : Nat, macLen : Nat]]
  /\ hmacCtx \in [Slots -> Keys]
  /\ umacCtx \in [Slots -> [alloc : BOOLEAN, key : Keys]]
  /\ blocksz \in [Slots -> Nat]
  /\ idx \in Slots
  /\ macError \in Errors

\* The static initialisers of the slot arrays and proxy_ssh_mac_init():
\* both slots keyless, HMAC contexts allocated, UMAC contexts NULL.
Init ==
  /\ macs = [i \in Slots |-> EmptyMac]
  /\ hmacCtx = [i \in Slots |-> NoKey]
  /\ umacCtx = [i \in Slots |-> UmacNull]
  /\ blocksz = [i \in Slots |-> 0]
  /\ idx = 0
  /\ macError = "none"

\* proxy_ssh_mac_init(): this direction's HMAC contexts are allocated
\* (fresh, unkeyed), its UMAC context pointers set to NULL.
MacInitSlots ==
  /\ hmacCtx' = [i \in Slots |-> NoKey]
  /\ umacCtx' = [i \in Slots |-> UmacNull]
  /\ UNCHANGED <<macs, blocksz, idx, macError>>

\* get_next_read_index()
NextIndex(i) == IF i = 1 THEN 0 ELSE 1

\* clear_mac(): scrub and free the key, forget digest and algorithm name.
ClearMac(m) ==
  [m EXCEPT !.key = NoKey,
            !.keysz = IF m.key # NoKey THEN 0 ELSE @,
            !.keyLen = IF m.key # NoKey THEN 0 ELSE @,
            !.digest = NULL, !.algo = NULL]

\* The algo_type chosen by the name comparisons of set_read_algo.
AlgoType(name) ==
  CASE name = "umac-64@openssh.com"  -> "UMAC64"
    [] name = "umac-128@openssh.com" -> "UMAC128"
    [] OTHER                         -> "HMAC"

\* The slot set_read_algo prepares: the other one if the active slot holds
\* a key (a rekey is in progress), else the active one.
AlgoSlot == IF macs[idx].key # NoKey THEN NextIndex(idx) ELSE idx

(***************************************************************************)
(* proxy_ssh_mac_set_read_algo(): prepare the active slot if it holds no  *)
(* key, the other slot otherwise (a rekey).  Delete that slot's UMAC      *)
(* context, look the name up (failing with the slot's digest NULL), then  *)
(* record name, type and truncation and allocate a UMAC context.          *)
(***************************************************************************)
SetAlgo(name) ==
  LET i == AlgoSlot
      e == GetDigest(name)
      u == IF umacCtx[i].alloc /\ macs[i].type \in UmacTypes
             THEN UmacNull ELSE umacCtx[i]
  IN /\ IF e = NotFound
          THEN /\ macs' = [macs EXCEPT ![i].digest = NULL]
               /\ umacCtx' = [umacCtx EXCEPT ![i] = u]
               /\ macError' = "UnknownAlgorithm"
          ELSE /\ macs' = [macs EXCEPT ![i] = [@ EXCEPT !.digest = e.digest,
                              !.algo = name, !.type = AlgoType(name),
                              !.macLen = e.macLen]]
               /\ umacCtx' = [umacCtx EXCEPT ![i] =
                                IF AlgoType(name) \in UmacTypes THEN UmacNew ELSE u]
               /\ macError' = macError
     /\ UNCHANGED <<hmacCtx, blocksz, idx>>

(***************************************************************************)
(* The steps of proxy_ssh_mac_set_read_key, each a function of the state  *)
(* record s = [macs, hmac, umac, blocksz, idx].                            *)
(***************************************************************************)
St == [macs |-> macs, hmac |-> hmacCtx, umac |-> umacCtx,
       blocksz |-> blocksz, idx |-> idx]

\* Mutation of switch_read_mac: the retired slot's block size is not reset.
SwitchMacKeepBlocksz(s) ==
  IF s.macs[s.idx].key = NoKey THEN s
  ELSE [s EXCEPT !.macs[s.idx] = ClearMac(@), !.hmac[s.idx] = NoKey,
                 !.idx = NextIndex(s.idx)]
\* switch_read_mac(): if the active slot holds a key, retire it (clear_mac,
\* HMAC_CTX_reset, UMAC reset, zero its block size) and flip the index.
\* The UMAC reset restarts the hash, it keeps the key schedule.
SwitchMac(s) ==
  IF s.macs[s.idx].key = NoKey THEN s
  ELSE [s EXCEPT !.macs[s.idx] = ClearMac(@),
                 !.hmac[s.idx] = NoKey,
                 !.blocksz[s.idx] = IF Dir = "read" THEN 0 ELSE @,
                 !.idx = NextIndex(s.idx)]

\* Mutation: the letters of the two directions are swapped.
LetterSwapped ==
  IF (Dir = "read") = (Role = "client") THEN "E" ELSE "F"

\* The letter set_read_key ('F' for a client, 'E' for a server) and
\* set_write_key ('E' for a client, 'F' for a server) derive with.
Letter ==
  IF Dir = "read" THEN IF Role = "client" THEN "F" ELSE "E"
                  ELSE IF Role = "client" THEN "E" ELSE "F"

RoundUp(n, m) == ((n + m - 1) \div m) * m

\* set_mac_key(): key_sz is EVP_MD_block_size(mac digest) rounded up to the
\* kex hash size; 0 means "none" (or an error nobody checks).  On success the
\* slot holds generation g; on a digest error the key is freed and the slot
\* is left without one.  Its return value is ignored by set_read_key.
SetMacKey(m, g, kdfOk) ==
  LET ksz == RoundUp(DigestBlock[m.digest], DigestSize[KexDigest])
  IN IF ksz = 0 \/ ~kdfOk THEN m
     ELSE [m EXCEPT !.key = [gen |-> g, letter |-> Letter], !.keysz = ksz,
            !.keyLen = IF ~InteropMacLen THEN 16
                       ELSE IF m.type = "HMAC" THEN DigestSize[m.digest]
                       ELSE DigestBlock[m.digest]]

\* init_mac(): nothing for "none"; otherwise reset the HMAC context and key
\* the context of the slot's type.  HMAC_Init_ex with a NULL key fails on
\* OpenSSL 1.1 and later and succeeds on 1.0 (initOk picks the build);
\* umac_init never reports an error, but derives its key schedule from the
\* key pointer, which a NULL key crashes.
InitResult(m, initOk) ==
  CASE m.algo = "none"                                   -> "none"
    [] m.type = "HMAC" /\ m.key = NoKey /\ ~initOk        -> "InitFailed"
    [] m.type \in UmacTypes /\ m.key = NoKey              -> "Crash"
    [] OTHER                                             -> "none"
\* Mutation: HMAC_Init_ex is not given the new key; the context keeps the
\* key it had.
InitHmacKeepKey(m, h) == IF m.algo = "none" \/ m.type = "HMAC" THEN h ELSE NoKey
InitHmac(m, h) ==
  IF m.algo = "none" THEN h ELSE IF m.type = "HMAC" THEN m.key ELSE NoKey
InitUmac(m, u) ==
  IF m.algo # "none" /\ m.type \in UmacTypes THEN [u EXCEPT !.key = m.key] ELSE u

\* The blocksz computed at the end of set_read_key.
BlockSize(m) == IF m.macLen = 0 THEN DigestSize[m.digest] ELSE m.macLen

\* proxy_ssh_mac_set_block_size(): the active slot's block size only grows.
SetBlockSize(b, i, n) == IF n > b[i] THEN [b EXCEPT ![i] = n] ELSE b

\* proxy_ssh_mac_get_block_size()
GetBlockSize == blocksz[idx]

\* set_key on a slot no set_algo prepared (digest and name NULL): set_mac_key
\* calls EVP_MD_block_size(NULL) and init_mac strcmp(NULL, "none"); the
\* process dies after the switch.
SetKeyUnprepared(s) ==
  /\ idx' = s.idx /\ macs' = s.macs /\ hmacCtx' = s.hmac /\ umacCtx' = s.umac
  /\ blocksz' = s.blocksz /\ macError' = "Crash"

(***************************************************************************)
(* proxy_ssh_mac_set_read_key(): switch generations, derive generation g  *)
(* into the now active slot, key its primitive, then record block size.   *)
(* kdfOk: whether the digest calls of the derivation succeed.             *)
(***************************************************************************)
SetKey(g, kdfOk, initOk) ==
  LET s == SwitchMac(St)
      i == s.idx
      m == SetMacKey(s.macs[i], g, kdfOk)
  IN IF s.macs[i].digest = NULL THEN SetKeyUnprepared(s) ELSE
     /\ idx' = i
     /\ macs' = [s.macs EXCEPT ![i] = m]
     /\ hmacCtx' = [s.hmac EXCEPT ![i] = InitHmac(m, @)]
     /\ umacCtx' = [s.umac EXCEPT ![i] = InitUmac(m, @)]
     /\ IF InitResult(m, initOk) = "none"
          THEN /\ blocksz' = IF Dir = "read"
                               THEN SetBlockSize(s.blocksz, i, BlockSize(m))
                               ELSE s.blocksz
               /\ macError' = macError
          ELSE /\ blocksz' = s.blocksz
               /\ macError' = InitResult(m, initOk)

(***************************************************************************)
(* get_mac(): the tag the slot's context computes over packet number seq *)
(* (pkt->seqno, given by the packet layer), truncated to mac_len, and the *)
(* verdict of comparing it with the received tag t.                        *)
(***************************************************************************)
RawLen(m) ==
  CASE m.type = "HMAC"    -> DigestSize[m.digest]
    [] m.type = "UMAC64"  -> 8
    [] m.type = "UMAC128" -> 16
    [] OTHER              -> 0

\* Mutation: the tag is computed over the packet alone, without its seqno.
ComputedTagNoSeq(m, h, u, seq) ==
  [prim |-> IF m.type = "HMAC" THEN m.digest ELSE m.type,
   key  |-> IF m.type = "HMAC" THEN h ELSE u.key,
   len  |-> IF m.macLen # 0 THEN m.macLen ELSE RawLen(m),
   seq  |-> 0]

\* HMAC over seqno || packet_len || padding_len || payload || padding, or
\* UMAC over the packet with the 8-byte seqno as nonce.
ComputedTag(m, h, u, seq) ==
  [prim |-> IF m.type = "HMAC" THEN m.digest ELSE m.type,
   key  |-> IF m.type = "HMAC" THEN h ELSE u.key,
   len  |-> IF m.macLen # 0 THEN m.macLen ELSE RawLen(m),
   seq  |-> seq]

\* The errors of computing the tag: HMAC_Init_ex on a reset context fails,
\* a NULL UMAC context crashes, an empty result is EIO.
MacResult(m, h, u) ==
  CASE m.type = "HMAC" /\ h = NoKey       -> "MacFailed"
    [] m.type \in UmacTypes /\ ~u.alloc  -> "Crash"
    [] RawLen(m) = 0                      -> "MacFailed"
    [] OTHER                              -> "ok"

\* Mutation: the tag is computed but never compared with the received one.
GetMacNoCompare(m, h, u, t, seq) == MacResult(m, h, u)

GetMac(m, h, u, t, seq) ==
  IF MacResult(m, h, u) # "ok" THEN MacResult(m, h, u)
  ELSE IF ComputedTag(m, h, u, seq) = t THEN "ok" ELSE "MacMismatch"

\* proxy_ssh_mac_read_data(): with no key in the active slot the packet is
\* accepted without a MAC check; otherwise get_mac decides.
ReadVerdict(t, seq) ==
  IF macs[idx].key = NoKey THEN "unchecked"
  ELSE GetMac(macs[idx], hmacCtx[idx], umacCtx[idx], t, seq)

\* Mutation: the verdict is stored as the call's result even when it is ok.
ReadDataKeepVerdict(t, seq) ==
  /\ macError' = ReadVerdict(t, seq)
  /\ UNCHANGED <<macs, hmacCtx, umacCtx, blocksz, idx>>

ReadData(t, seq) ==
  /\ macError' = IF ReadVerdict(t, seq) \in {"ok", "unchecked"} THEN macError
                                                                ELSE ReadVerdict(t, seq)
  /\ UNCHANGED <<macs, hmacCtx, umacCtx, blocksz, idx>>

\* proxy_ssh_mac_get_read_algo(): the active slot's name if it holds a key
\* or is "none", else NULL.  The test strcmp()s the name, so on a slot no
\* set_read_algo has named it dereferences NULL ("Crash").  (The write
\* side's query tests the key alone and cannot fail.)
GetReadAlgo ==
  CASE macs[idx].key # NoKey   -> macs[idx].algo
    [] macs[idx].algo = NULL   -> "Crash"
    [] macs[idx].algo = "none" -> "none"
    [] OTHER                   -> NULL

\* proxy_ssh_mac_write_data(): with no key in the active slot the packet
\* goes out without a MAC; otherwise get_mac computes the tag it carries.
WriteResult(seq) ==
  LET m == macs[idx]  h == hmacCtx[idx]  u == umacCtx[idx] IN
  IF m.key = NoKey THEN [err |-> "none", tag |-> NoTag]
  ELSE [err |-> IF MacResult(m, h, u) = "ok" THEN "none" ELSE MacResult(m, h, u),
        tag |-> ComputedTag(m, h, u, seq)]

WriteData(seq) ==
  /\ macError' = IF WriteResult(seq).err = "none" THEN macError ELSE WriteResult(seq).err
  /\ UNCHANGED <<macs, hmacCtx, umacCtx, blocksz, idx>>

=============================================================================
