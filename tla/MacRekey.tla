------------------------------ MODULE MacRekey ------------------------------
(***************************************************************************)
(* The read direction of the MAC layer (MacSlots) driven the way the SSH  *)
(* transport drives it, against a correct peer.                          *)
(*                                                                         *)
(*  - A key exchange negotiates a MAC algorithm: our kex code calls       *)
(*    proxy_ssh_mac_set_read_algo and the peer notes the new algorithm.   *)
(*  - The peer keeps MAC-ing packets under its current key until it      *)
(*    sends NEWKEYS (itself MAC-ed under that key), and switches right    *)
(*    after sending it.                                                    *)
(*  - We read packets in order: each is framed with                       *)
(*    proxy_ssh_mac_get_block_size() bytes of MAC and checked by          *)
(*    proxy_ssh_mac_read_data; on NEWKEYS our kex code then calls         *)
(*    proxy_ssh_mac_set_read_key with the exchange's key material.        *)
(*  - Both ends count packets (pkt->seqno); the tag covers the count.     *)
(*  - An attacker on the path may alter a MAC-carrying packet in flight   *)
(*    (it cannot compute a MAC under the session's keys, so the altered   *)
(*    packet's tag is one no key of the session produces), and may drop,  *)
(*    duplicate or reorder packets.                                        *)
(*  - Any error returned by the MAC layer ends the session.               *)
(* The transport and kex code (packet.c, kex.c) are not in src/: these    *)
(* environment actions are modelled from the spec.                        *)
(***************************************************************************)
EXTENDS Naturals, SequencesExt, MacCatalog

CONSTANTS
  Role,           \* our role in the SSH session
  Algos,          \* the MAC names the two sides may negotiate
  MaxRounds,      \* bound on the number of key exchanges
  MaxChan,        \* bound on the packets in flight from the peer
  KexDigest, InteropMacLen,
  DigestCanFail,  \* whether the digest calls of set_mac_key may fail
  Attacker,       \* whether packets may be altered, dropped, duplicated, reordered
  SeqWrap          \* sequence numbers are counted modulo SeqWrap (2^32 in the code)

\* SeqWrap > MaxChan: a packet displaced within the stream never lands on a
\* position with its own sequence number (a 2^32-packet replay is out of reach).
ASSUME MaxRounds \in Nat /\ MaxChan \in Nat \ {0} /\ DigestCanFail \in BOOLEAN
       /\ Attacker \in BOOLEAN /\ SeqWrap \in Nat /\ SeqWrap > MaxChan

VARIABLES
  macs, hmacCtx, umacCtx, blocksz, idx, macError,
  peerMac,       \* [algo, gen] the peer MACs its packets with
  peerNext,      \* [algo, gen] negotiated, used by the peer after NEWKEYS
  kex,           \* [algo, gen] negotiated, awaiting the peer's NEWKEYS
  chan,          \* packets from the peer not yet read
  pseq,          \* the peer's sequence number for its next packet
  rseq,          \* ours for the next packet read (pkt->seqno in read_data)
  round,         \* key exchanges started so far
  forgedAccepted \* history: an altered or displaced packet passed read_data

vars == <<macs, hmacCtx, umacCtx, blocksz, idx, macError,
          peerMac, peerNext, kex, chan, pseq, rseq, round, forgedAccepted>>

Mac == INSTANCE MacSlots WITH Dir <- "read"

PeerRole == IF Role = "client" THEN "server" ELSE "client"
PeerKey(g) == KeyOf(g, RfcLetter(PeerRole))

NoKex == [algo |-> NULL, gen |-> 0]
ForgedKey == KeyOf(0, "X")
Forge(t) == [t EXCEPT !.key = ForgedKey]
\* A packet: its type, its tag, and (history) the peer's number for it.
Pkt(type, t, n) == [type |-> type, tag |-> t, sent |-> n]
Seqs == 0..(SeqWrap - 1)
Tags == {NoTag} \cup [prim : {"UMAC64", "UMAC128"} \cup DOMAIN DigestSize,
                      key : Mac!Keys \cup {ForgedKey}, len : Nat, seq : Seqs]
Wire == [type : {"data", "newkeys"}, tag : Tags, sent : Seqs]
Live == macError = "none"

TypeOK ==
  /\ Mac!TypeOK
  /\ peerMac \in [algo : Algos \cup {"none"}, gen : 0..MaxRounds]
  /\ {peerNext, kex} \subseteq [algo : Algos, gen : 1..MaxRounds] \cup {NoKex}
  /\ chan \in Seq(Wire) /\ Len(chan) <= MaxChan
  /\ pseq \in Seqs /\ rseq \in Seqs
  /\ round \in 0..MaxRounds
  /\ forgedAccepted \in BOOLEAN

\* The transport starts with no MAC in either direction.
Init ==
  /\ Mac!Init
  /\ peerMac = [algo |-> "none", gen |-> 0]
  /\ peerNext = NoKex
  /\ kex = NoKex
  /\ chan = <<>>
  /\ pseq = 0 /\ rseq = 0
  /\ round = 0
  /\ forgedAccepted = FALSE

\* Algorithm negotiation of a (re)key: set_read_algo on our side.
Negotiate(a) ==
  /\ Live /\ kex = NoKex /\ peerNext = NoKex /\ round < MaxRounds
  /\ Mac!SetAlgo(a)
  /\ round' = round + 1
  /\ kex' = [algo |-> a, gen |-> round + 1]
  /\ peerNext' = kex'
  /\ UNCHANGED <<peerMac, chan, pseq, rseq, forgedAccepted>>

\* The peer sends a packet (any message but NEWKEYS) under its current MAC.
PeerSendData ==
  /\ Live /\ Len(chan) < MaxChan
  /\ chan' = Append(chan, Pkt("data", TagOf(peerMac.algo, PeerKey(peerMac.gen), pseq), pseq))
  /\ pseq' = NextSeq(pseq, SeqWrap)
  /\ UNCHANGED <<macs, hmacCtx, umacCtx, blocksz, idx, macError,
                 peerMac, peerNext, kex, rseq, round, forgedAccepted>>

\* The peer sends NEWKEYS and MACs everything after it with the new key.
PeerSendNewKeys ==
  /\ Live /\ peerNext # NoKex /\ Len(chan) < MaxChan
  /\ chan' = Append(chan, Pkt("newkeys", TagOf(peerMac.algo, PeerKey(peerMac.gen), pseq), pseq))
  /\ pseq' = NextSeq(pseq, SeqWrap)
  /\ peerMac' = peerNext
  /\ peerNext' = NoKex
  /\ UNCHANGED <<macs, hmacCtx, umacCtx, blocksz, idx, macError,
                 kex, rseq, round, forgedAccepted>>

KdfOutcomes == IF DigestCanFail THEN BOOLEAN ELSE {TRUE}

\* We read the next packet: the framing takes get_block_size() bytes of MAC,
\* so a tag of another length desynchronises the stream; otherwise
\* read_data checks it, and an error ends the session.
RecvBadMac ==
  /\ Live /\ chan # <<>>
  /\ LET t == Head(chan).tag IN
       IF Mac!GetBlockSize # t.len
         THEN /\ macError' = "Desync"
              /\ UNCHANGED <<macs, hmacCtx, umacCtx, blocksz, idx>>
         ELSE /\ Mac!ReadVerdict(t, rseq) \notin {"ok", "unchecked"}
              /\ Mac!ReadData(t, rseq)
  /\ chan' = Tail(chan)
  /\ rseq' = NextSeq(rseq, SeqWrap)
  /\ UNCHANGED <<peerMac, peerNext, kex, pseq, round, forgedAccepted>>

\* The next packet passed read_data; it was forged if it carries a MAC and
\* was altered, or is not the packet the peer sent with this number.
Accepted(p) ==
  /\ Mac!GetBlockSize = p.tag.len /\ Mac!ReadVerdict(p.tag, rseq) \in {"ok", "unchecked"}
  /\ forgedAccepted' = (forgedAccepted \/
                          (p.tag.len > 0 /\ (p.tag.key = ForgedKey \/ p.sent # rseq)))
  /\ chan' = Tail(chan)
  /\ rseq' = NextSeq(rseq, SeqWrap)

\* A data packet that passed read_data.
RecvData ==
  /\ Live /\ chan # <<>> /\ Head(chan).type = "data"
  /\ Accepted(Head(chan))
  /\ Mac!ReadData(Head(chan).tag, rseq)
  /\ UNCHANGED <<peerMac, peerNext, kex, pseq, round>>

\* The peer's NEWKEYS passed read_data: set_read_key with this exchange's keys.
RecvNewKeys ==
  /\ Live /\ chan # <<>> /\ Head(chan).type = "newkeys"
  /\ Accepted(Head(chan))
  /\ \E kdfOk \in KdfOutcomes, initOk \in BOOLEAN :
       Mac!SetKey(kex.gen, kdfOk, initOk)
  /\ kex' = NoKex
  /\ UNCHANGED <<peerMac, peerNext, pseq, round>>

\* What the network leaves alone.
netFixed == <<macs, hmacCtx, umacCtx, blocksz, idx, macError,
              peerMac, peerNext, kex, pseq, rseq, round, forgedAccepted>>

\* The attacker alters a MAC-carrying packet in flight.
Tamper ==
  /\ Attacker /\ Live
  /\ \E i \in DOMAIN chan :
       /\ chan[i].tag.len > 0 /\ chan[i].tag.key # ForgedKey
       /\ chan' = [chan EXCEPT ![i].tag = Forge(@)]
  /\ UNCHANGED netFixed

\* The network drops a packet, duplicates one, or swaps two adjacent ones.
Drop ==
  /\ Attacker /\ Live
  /\ \E i \in DOMAIN chan : chan' = RemoveAt(chan, i)
  /\ UNCHANGED netFixed
Replay ==
  /\ Attacker /\ Live /\ Len(chan) < MaxChan
  /\ \E i \in DOMAIN chan, j \in 1..(Len(chan) + 1) : chan' = InsertAt(chan, j, chan[i])
  /\ UNCHANGED netFixed
Reorder ==
  /\ Attacker /\ Live
  /\ \E i \in 1..(Len(chan) - 1) :
       chan' = [chan EXCEPT ![i] = chan[i + 1], ![i + 1] = chan[i]]
  /\ UNCHANGED netFixed

Next ==
  \/ \E a \in Algos : Negotiate(a)
  \/ PeerSendData
  \/ PeerSendNewKeys
  \/ RecvBadMac
  \/ RecvData
  \/ RecvNewKeys
  \/ Tamper
  \/ Drop
  \/ Replay
  \/ Reorder

Spec == Init /\ [][Next]_vars

-----------------------------------------------------------------------------
(***************************************************************************)
(* Properties.                                                             *)
(***************************************************************************)

(* Rekey in flight: every packet a correct peer sends is framed with the  *)
(* right MAC length and verifies, across any number of rekeys, whichever  *)
(* algorithms they switch between and however many old-key packets are   *)
(* still in flight when set_read_algo prepares the next slot.  Breaks if  *)
(* set_read_algo touches the slot in use, set_read_key switches the wrong *)
(* way, or a stale mac_blockszs entry frames the MAC with a wrong length. *)
NoSpuriousMismatch == macError = "none"

(* Integrity: a MAC-carrying packet that was altered in flight, or that  *)
(* the network dropped a predecessor of, duplicated or reordered, is      *)
(* never accepted, across rekeys: get_mac must cover the sequence number  *)
(* and compare the tag, and read_data's "no key, no check" path must only *)
(* be reachable while "none" is in force.                                 *)
NoForgeryAccepted == ~forgedAccepted

(* A failure of set_read_key is returned to the caller, never a crash:    *)
(* spec section 7 says a DigestError is reported and ends the session.    *)
(* After a digest error swallowed by set_read_key, init_mac hands the     *)
(* NULL key to umac_init, which derives its key schedule from it.         *)
NoCrash == macError # "Crash"

(* Key hygiene (spec 4.3): once switch_read_mac has retired a           *)
(* generation, no keyed state of it is left in the other slot: its key    *)
(* buffer is scrubbed (clear_mac), its HMAC context reset, and its UMAC   *)
(* context holds no key schedule.  umac_reset (mac.c:121-125) restarts    *)
(* the hash and keeps the schedule until set_read_algo next deletes it.   *)
RetiredKeysScrubbed ==
  LET old == Mac!NextIndex(idx) IN
  /\ macs[old].key = NoKey
  /\ hmacCtx[old] = NoKey
  /\ umacCtx[old].key = NoKey

(***************************************************************************)
(* Refinement: the two slots, their contexts and the block sizes          *)
(* implement one atomically switching generation (MacGenerations).  The   *)
(* active generation is the active slot's algorithm and key, or "none"    *)
(* when that slot holds no key (read_data's no-check path).               *)
(***************************************************************************)
ActiveGen ==
  IF macs[idx].key = NoKey THEN [algo |-> "none", key |-> NoKey]
  ELSE [algo |-> macs[idx].algo, key |-> macs[idx].key]

Gen == INSTANCE MacGenerations
         WITH active <- ActiveGen, pending <- kex, err <- macError, seq <- rseq,
              SenderLetter <- RfcLetter(PeerRole)

(* The read direction of mac.c, under the packets the peer and the        *)
(* network deliver, behaves as a single generation that packets are       *)
(* verified against and that the peer's NEWKEYS switches in one step.     *)
GenerationsRefined == Gen!Spec

(* Spec 4.3: the read block size proxy_ssh_mac_get_block_size() reports  *)
(* is monotonic non-decreasing within a session, only ever raised by       *)
(* proxy_ssh_mac_set_block_size.                                           *)
(* Spec 4.3: the read block size proxy_ssh_mac_get_block_size() reports  *)
(* is monotonic non-decreasing within a session, only ever raised by       *)
(* proxy_ssh_mac_set_block_size.                                           *)
(* Progress of a rekey: once set_read_algo has prepared a generation,   *)
(* that generation is eventually the one read_data checks packets       *)
(* against: the peer's NEWKEYS gets through the old key's check and     *)
(* set_read_key switches to exactly the negotiated algorithm and key,   *)
(* without a fatal error, however the peer interleaves other packets.   *)
RekeyTakesEffect ==
  \A k \in [algo : Algos, gen : 1..MaxRounds] :
    kex = k ~> ActiveGen = Gen!GenOf(k)

BlockSizeMonotonic == [][(Mac!GetBlockSize)' >= Mac!GetBlockSize]_vars

=============================================================================
