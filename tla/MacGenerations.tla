--------------------------- MODULE MacGenerations ---------------------------
(***************************************************************************)
(* What the read direction of the MAC layer promises (spec 4.3 and 4.4),  *)
(* with no slots: one generation is active at a time; a packet is          *)
(* accepted exactly when its tag is the one the active generation          *)
(* produces; the peer's NEWKEYS, once accepted, makes the negotiated       *)
(* generation active in one step; set_algorithm changes nothing that is    *)
(* observable.  Any failure other than a rejected tag is fatal and          *)
(* unconstrained.  A tag covers the packet's sequence number, counted by  *)
(* the packet layer for every packet read.  The packets arriving (chan)   *)
(* are the network's: it may add, alter, drop, duplicate or reorder them. *)
(***************************************************************************)
EXTENDS Naturals, Sequences, MacCatalog

CONSTANTS
  Algos,        \* the MAC names that may be negotiated
  SenderLetter, \* the RFC 4253 letter of the direction we read
  MaxChan,      \* bound on the packets in flight
  SeqWrap        \* sequence numbers are counted modulo SeqWrap

VARIABLES
  active,   \* [algo, key]: the generation packets are verified against
  pending,  \* [algo, gen]: negotiated, to become active at NEWKEYS
  chan,     \* packets in flight to us
  seq,      \* the sequence number of the next packet read
  err       \* "none", or why the session ended

NoKex == [algo |-> NULL, gen |-> 0]
NoneGen == [algo |-> "none", key |-> NoKey]
GenOf(p) == IF p.algo = "none" THEN NoneGen
            ELSE [algo |-> p.algo, key |-> KeyOf(p.gen, SenderLetter)]
Expected == TagOf(active.algo, active.key, seq)
Rejections == {"MacMismatch", "Desync"}
\* The errors of set_algorithm (unknown name) and set_key (primitive init).
Fatal == {"UnknownAlgorithm", "InitFailed", "Crash"}

Init ==
  /\ active = NoneGen /\ pending = NoKex /\ chan = <<>> /\ seq = 0 /\ err = "none"

\* A key exchange negotiates an algorithm and a fresh generation.
Negotiate ==
  /\ err = "none" /\ pending = NoKex
  /\ pending'.algo \in Algos /\ pending'.gen \in Nat
  /\ pending'.gen > active.key.gen
  /\ UNCHANGED <<active, chan, seq, err>>

\* The next packet is read: accepted iff it carries the expected tag for
\* its sequence number; an accepted NEWKEYS switches to the negotiated
\* generation.
Receive ==
  /\ err = "none" /\ chan # <<>> /\ chan' = Tail(chan)
  /\ seq' = NextSeq(seq, SeqWrap)
  /\ IF Head(chan).tag = Expected
       THEN /\ err' = err
            /\ IF Head(chan).type = "newkeys" /\ pending # NoKex
                 THEN active' = GenOf(pending) /\ pending' = NoKex
                 ELSE UNCHANGED <<active, pending>>
       ELSE err' \in Rejections /\ UNCHANGED <<active, pending>>

\* The peer adds a packet, or the network changes what is in flight.
Deliver ==
  /\ err = "none" /\ Len(chan') <= MaxChan
  /\ UNCHANGED <<active, pending, seq, err>>

\* A fatal error of set_algorithm or set_key ends the session, whatever
\* state it leaves behind.  Computing a tag never fails.
Fail ==
  /\ err = "none" /\ err' \in Fatal
  /\ \/ chan' = chan /\ seq' = seq
     \/ chan' = Tail(chan) /\ seq' = NextSeq(seq, SeqWrap)

Next == Negotiate \/ Receive \/ Deliver \/ Fail

Spec == Init /\ [][Next]_<<active, pending, chan, seq, err>>

=============================================================================
