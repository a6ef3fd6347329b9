----------------------------- MODULE MacSession -----------------------------
(***************************************************************************)
(* A whole SSH session as the MAC layer sees it: the read and the write   *)
(* direction of mac.c (two instances of MacSlots sharing mac_blockszs,    *)
(* which only the read side touches), proxy_ssh_mac_init at start and     *)
(* proxy_ssh_mac_free at the end, driven by the transport against a       *)
(* correct peer over two in-order streams.                                 *)
(*                                                                         *)
(*  - A key exchange negotiates one MAC per direction: our kex code calls *)
(*    set_read_algo, then (if that worked) set_write_algo.                 *)
(*  - Each side sends NEWKEYS MAC-ed under its old write key and then      *)
(*    switches its write key; on reading the other side's NEWKEYS it       *)
(*    switches its read key.  Our switches are set_write_key and           *)
(*    set_read_key.                                                        *)
(*  - Every packet we send gets its tag from write_data, every packet we   *)
(*    read is checked by read_data; the peer checks ours with RFC 4253     *)
(*    keys.  Any error, ours or the peer's, ends the session.              *)
(*  - The session may end at any time; proxy_ssh_mac_free is then called.  *)
(* The transport, kex and peer are modelled from the spec (not in src/).  *)
(***************************************************************************)
EXTENDS Naturals, Sequences, MacCatalog

CONSTANTS
  Role,           \* our role in the SSH session
  Algos,          \* the MAC names the two sides may negotiate
  MaxRounds,      \* bound on the number of key exchanges
  MaxChan,        \* bound on the packets in flight in each direction
  KexDigest, InteropMacLen,
  DigestCanFail,  \* whether the digest calls of set_mac_key may fail
  SeqWrap         \* sequence numbers are counted modulo SeqWrap (2^32 in the code)

ASSUME MaxRounds \in Nat /\ MaxChan \in Nat \ {0} /\ DigestCanFail \in BOOLEAN
       /\ Algos \subseteq DOMAIN MacTable /\ SeqWrap \in Nat \ {0}

VARIABLES
  phase,                           \* "down", "up" (after mac_init), "freed"
  rMacs, rHmac, rUmac, rIdx, rErr, \* read_macs, hmac/umac_read_ctxs, ...
  wMacs, wHmac, wUmac, wIdx, wErr, \* write_macs, hmac/umac_write_ctxs, ...
  blocksz,                         \* mac_blockszs
  kexR,              \* generation negotiated, awaiting our set_read_key
  kexW,              \* [algo, gen] negotiated, awaiting our set_write_key
  peerW, peerWNext,  \* [algo, gen] the peer MACs with, and after its NEWKEYS
  peerR, peerRNext,  \* [algo, gen] the peer verifies with, and after our NEWKEYS
  inbox, outbox,     \* packets in flight to us and to the peer
  rseq, wseq,        \* our sequence numbers for the next packet read / sent
  round,             \* key exchanges started so far
  peerRejected       \* the peer found a packet of ours with a bad MAC

rVars == <<rMacs, rHmac, rUmac, rIdx, rErr>>
wVars == <<wMacs, wHmac, wUmac, wIdx, wErr>>
peerVars == <<peerW, peerWNext, peerR, peerRNext, peerRejected>>
seqVars == <<rseq, wseq>>
vars == <<phase, rVars, wVars, blocksz, kexR, kexW, peerVars, inbox, outbox, seqVars, round>>

R == INSTANCE MacSlots WITH Dir <- "read", macs <- rMacs, hmacCtx <- rHmac,
       umacCtx <- rUmac, idx <- rIdx, macError <- rErr
W == INSTANCE MacSlots WITH Dir <- "write", macs <- wMacs, hmacCtx <- wHmac,
       umacCtx <- wUmac, idx <- wIdx, macError <- wErr

PeerRole == IF Role = "client" THEN "server" ELSE "client"
NoKex == [algo |-> NULL, gen |-> 0]
Pkt(type, t) == [type |-> type, tag |-> t]
\* The tag the peer puts on its next packet, and the one it expects on the
\* next of ours.  The streams are in order, so the peer's counters are ours
\* offset by what is in flight.
PeerTag(p) == TagOf(p.algo, KeyOf(p.gen, RfcLetter(PeerRole)), (rseq + Len(inbox)) % SeqWrap)
ExpectedTag(p) == TagOf(p.algo, KeyOf(p.gen, RfcLetter(Role)), (wseq + SeqWrap - Len(outbox)) % SeqWrap)

Live == phase = "up" /\ rErr = "none" /\ wErr = "none" /\ ~peerRejected
KdfOutcomes == IF DigestCanFail THEN BOOLEAN ELSE {TRUE}

TypeOK ==
  /\ phase \in {"down", "up", "freed"}
  /\ R!TypeOK /\ W!TypeOK
  /\ kexR \in 0..MaxRounds
  /\ kexW \in [algo : Algos, gen : 1..MaxRounds] \cup {NoKex}
  /\ {peerW, peerR} \subseteq [algo : Algos \cup {"none"}, gen : 0..MaxRounds]
  /\ {peerWNext, peerRNext} \subseteq [algo : Algos, gen : 1..MaxRounds] \cup {NoKex}
  /\ Len(inbox) <= MaxChan /\ Len(outbox) <= MaxChan
  /\ {rseq, wseq} \subseteq 0..(SeqWrap - 1)
  /\ round \in 0..MaxRounds /\ peerRejected \in BOOLEAN

Init ==
  /\ phase = "down"
  /\ R!Init /\ W!Init
  /\ kexR = 0 /\ kexW = NoKex
  /\ peerW = [algo |-> "none", gen |-> 0] /\ peerR = peerW
  /\ peerWNext = NoKex /\ peerRNext = NoKex
  /\ inbox = <<>> /\ outbox = <<>>
  /\ rseq = 0 /\ wseq = 0
  /\ round = 0 /\ peerRejected = FALSE

\* proxy_ssh_mac_init(): allocate the four HMAC contexts, NULL the UMAC ones.
MacInit ==
  /\ phase = "down"
  /\ phase' = "up"
  /\ R!MacInitSlots /\ W!MacInitSlots
  /\ UNCHANGED <<rErr, wErr, blocksz, kexR, kexW, peerVars, inbox, outbox, seqVars, round>>

\* proxy_ssh_mac_set_write_algo and proxy_ssh_mac_set_write_key: the code
\* of their read twins with the write slots, contexts and letters, and no
\* block size.
SetWriteAlgo(aw) == W!SetAlgo(aw)
SetWriteKey(g, kdfOk, initOk) == W!SetKey(g, kdfOk, initOk)

\* A key exchange: set_read_algo(ar), then set_write_algo(aw) unless the
\* first failed.  The peer takes aw for reading and ar for writing.
Negotiate(ar, aw) ==
  /\ Live /\ kexR = 0 /\ kexW = NoKex /\ peerWNext = NoKex /\ peerRNext = NoKex
  /\ round < MaxRounds
  /\ R!SetAlgo(ar)
  /\ IF GetDigest(ar) = NotFound THEN UNCHANGED wVars ELSE SetWriteAlgo(aw)
  /\ round' = round + 1
  /\ kexR' = round + 1 /\ kexW' = [algo |-> aw, gen |-> round + 1]
  /\ peerWNext' = [algo |-> ar, gen |-> round + 1]
  /\ peerRNext' = [algo |-> aw, gen |-> round + 1]
  /\ UNCHANGED <<phase, peerW, peerR, peerRejected, inbox, outbox, seqVars>>

\* The peer sends a packet, or its NEWKEYS followed by its write switch.
PeerSend(type) ==
  /\ Live /\ Len(inbox) < MaxChan
  /\ type = "newkeys" => peerWNext # NoKex
  /\ inbox' = Append(inbox, Pkt(type, PeerTag(peerW)))
  /\ IF type = "newkeys" THEN peerW' = peerWNext /\ peerWNext' = NoKex
                         ELSE UNCHANGED <<peerW, peerWNext>>
  /\ UNCHANGED <<phase, rVars, wVars, blocksz, kexR, kexW, peerR, peerRNext,
                 peerRejected, outbox, seqVars, round>>

\* The peer reads our next packet: a tag other than the one its read key
\* gives is fatal; our NEWKEYS switches its read key.
PeerRecv ==
  /\ Live /\ outbox # <<>>
  /\ LET p == Head(outbox) IN
       IF p.tag # ExpectedTag(peerR)
         THEN peerRejected' = TRUE /\ UNCHANGED <<peerR, peerRNext>>
         ELSE /\ peerRejected' = peerRejected
              /\ IF p.type = "newkeys"
                   THEN peerR' = peerRNext /\ peerRNext' = NoKex
                   ELSE UNCHANGED <<peerR, peerRNext>>
  /\ outbox' = Tail(outbox)
  /\ UNCHANGED <<phase, rVars, wVars, blocksz, kexR, kexW, peerW, peerWNext,
                 inbox, seqVars, round>>

\* We read the next packet: framed by get_block_size(), checked by
\* read_data; an error ends the session, the peer's NEWKEYS is followed
\* by set_read_key.
Recv ==
  /\ Live /\ inbox # <<>>
  /\ LET p == Head(inbox) IN
       CASE R!GetBlockSize # p.tag.len ->
              rErr' = "Desync" /\ UNCHANGED <<rMacs, rHmac, rUmac, rIdx, blocksz, kexR>>
         [] R!ReadVerdict(p.tag, rseq) \notin {"ok", "unchecked"} \/ p.type = "data" ->
              R!ReadData(p.tag, rseq) /\ UNCHANGED kexR
         [] OTHER ->
              /\ \E kdfOk \in KdfOutcomes, initOk \in BOOLEAN :
                   R!SetKey(kexR, kdfOk, initOk)
              /\ kexR' = 0
  /\ inbox' = Tail(inbox)
  /\ rseq' = NextSeq(rseq, SeqWrap)
  /\ UNCHANGED <<phase, wVars, kexW, peerVars, outbox, wseq, round>>

\* We send a packet: write_data computes its tag over our next sequence
\* number; on an error nothing goes out.
SendData ==
  /\ Live /\ Len(outbox) < MaxChan
  /\ W!WriteData(wseq)
  /\ IF W!WriteResult(wseq).err = "none"
       THEN /\ outbox' = Append(outbox, Pkt("data", W!WriteResult(wseq).tag))
            /\ wseq' = NextSeq(wseq, SeqWrap)
       ELSE UNCHANGED <<outbox, wseq>>
  /\ UNCHANGED <<phase, rVars, blocksz, kexR, kexW, peerVars, inbox, rseq, round>>

\* We send NEWKEYS (MAC-ed by write_data under the old key), then call
\* set_write_key with the exchange's key material.
SendNewKeys ==
  /\ Live /\ kexW # NoKex /\ Len(outbox) < MaxChan
  /\ IF W!WriteResult(wseq).err # "none"
       THEN W!WriteData(wseq) /\ UNCHANGED <<outbox, kexW, wseq>>
       ELSE /\ outbox' = Append(outbox, Pkt("newkeys", W!WriteResult(wseq).tag))
            /\ wseq' = NextSeq(wseq, SeqWrap)
            /\ \E kdfOk \in KdfOutcomes, initOk \in BOOLEAN :
                 SetWriteKey(kexW.gen, kdfOk, initOk)
            /\ kexW' = NoKex
  /\ UNCHANGED <<phase, rVars, kexR, peerVars, inbox, rseq, round>>

\* proxy_ssh_mac_free() at the end of the session: the four HMAC contexts
\* are freed; nothing else is touched.
MacFree ==
  /\ phase = "up"
  /\ phase' = "freed"
  /\ UNCHANGED <<rVars, wVars, blocksz, kexR, kexW, peerVars, inbox, outbox, seqVars, round>>

Next ==
  \/ MacInit
  \/ \E ar, aw \in Algos : Negotiate(ar, aw)
  \/ \E type \in {"data", "newkeys"} : PeerSend(type)
  \/ PeerRecv
  \/ Recv
  \/ SendData
  \/ SendNewKeys
  \/ MacFree

Spec == Init /\ [][Next]_vars

-----------------------------------------------------------------------------
(***************************************************************************)
(* Properties.                                                             *)
(***************************************************************************)

(* Both directions, together: across any interleaving of the two sides'   *)
(* NEWKEYS, data in flight both ways and any number of rekeys, neither    *)
(* read_data nor write_data fails and the peer accepts every tag we       *)
(* send, so set_write_algo/set_write_key switch exactly at our NEWKEYS    *)
(* and derive the key the peer derives.                                    *)
NoSpuriousFailure == rErr = "none" /\ wErr = "none" /\ ~peerRejected

(* Teardown leaves no key material behind: once proxy_ssh_mac_free has    *)
(* run, no slot of either direction still holds a key buffer (spec 4.5).  *)
KeysScrubbedAtTeardown ==
  phase = "freed" =>
    \A i \in R!Slots : rMacs[i].key = NoKey /\ wMacs[i].key = NoKey

(* The write direction keeps the promise of MacWriteGenerations: the tags *)
(* write_data puts on our packets are those of one generation, switched   *)
(* by set_write_key exactly after our NEWKEYS went out, and derived with  *)
(* the negotiated algorithm; any failure of set_write_algo or             *)
(* set_write_key ends the session.  The refinement mapping reads the      *)
(* active write slot (no key: "none", as write_data sends no MAC).        *)
WActiveGen ==
  IF wMacs[wIdx].key = NoKey THEN [algo |-> "none", key |-> NoKey]
  ELSE [algo |-> wMacs[wIdx].algo, key |-> wMacs[wIdx].key]
WGen == INSTANCE MacWriteGenerations WITH active <- WActiveGen,
          pending <- kexW, out <- outbox, seq <- wseq, err <- wErr,
          SenderLetter <- RfcLetter(Role)
WriteGenerationsRefined == WGen!Spec

(* The key exchange may ask for the active read algorithm at any time     *)
(* while the session is up; spec 6 says the query answers "none" or empty *)
(* when no key is installed.  proxy_ssh_mac_get_read_algo must therefore  *)
(* never dereference a NULL name.                                          *)
AlgoQueryDefined == phase = "up" => R!GetReadAlgo # "Crash"

=============================================================================
