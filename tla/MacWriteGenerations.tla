------------------------- MODULE MacWriteGenerations -------------------------
(***************************************************************************)
(* What the write direction of the MAC layer promises (spec 4.3, 4.4 and  *)
(* section 7), with no slots: every packet we send carries the tag of one *)
(* active generation over the packet's sequence number; the NEWKEYS we    *)
(* send still carries the old generation's tag, and every packet after it *)
(* the negotiated one's.                                                   *)
(* Computing a tag never fails; the errors of set_algorithm and set_key   *)
(* (a DigestError among them) are fatal and end the session.  The peer    *)
(* takes packets off the stream in order.                                  *)
(***************************************************************************)
EXTENDS Naturals, Sequences, MacCatalog

CONSTANTS
  Algos,          \* the MAC names that may be negotiated
  SenderLetter,   \* the RFC 4253 letter of the direction we write
  SeqWrap          \* sequence numbers are counted modulo SeqWrap

VARIABLES
  active,   \* [algo, key]: the generation our tags are computed under
  pending,  \* [algo, gen]: negotiated, to become active after our NEWKEYS
  out,      \* packets sent and not yet read by the peer
  seq,      \* the sequence number of the next packet sent
  err       \* "none", or why the session ended

NoKex == [algo |-> NULL, gen |-> 0]
NoneGen == [algo |-> "none", key |-> NoKey]
GenOf(p) == IF p.algo = "none" THEN NoneGen
            ELSE [algo |-> p.algo, key |-> KeyOf(p.gen, SenderLetter)]
CurrentTag == TagOf(active.algo, active.key, seq)
Fatal == {"UnknownAlgorithm", "InitFailed", "Crash"}

Init ==
  /\ active = NoneGen /\ pending = NoKex /\ out = <<>> /\ seq = 0 /\ err = "none"

\* A key exchange negotiates an algorithm and a fresh generation.
Negotiate ==
  /\ err = "none" /\ pending = NoKex
  /\ pending'.algo \in Algos /\ pending'.gen \in Nat
  /\ pending'.gen > active.key.gen
  /\ UNCHANGED <<active, out, seq, err>>

\* A packet goes out under the active generation; our NEWKEYS, once sent,
\* makes the negotiated generation active for everything after it.
Send(type) ==
  /\ err = "none"
  /\ out' = Append(out, [type |-> type, tag |-> CurrentTag])
  /\ seq' = NextSeq(seq, SeqWrap)
  /\ IF type = "newkeys" /\ pending # NoKex
       THEN active' = GenOf(pending) /\ pending' = NoKex
       ELSE UNCHANGED <<active, pending>>
  /\ UNCHANGED err

\* The peer reads the oldest packet.
Consume ==
  /\ out # <<>> /\ out' = Tail(out)
  /\ UNCHANGED <<active, pending, seq, err>>

\* A fatal error of set_algorithm or set_key ends the session, whatever
\* state it leaves behind; at NEWKEYS the packet may already be out.
Fail ==
  /\ err = "none" /\ err' \in Fatal
  /\ \/ out' = out /\ seq' = seq
     \/ /\ out' = Append(out, [type |-> "newkeys", tag |-> CurrentTag])
        /\ seq' = NextSeq(seq, SeqWrap)

Next == Negotiate \/ (\E t \in {"data", "newkeys"} : Send(t)) \/ Consume \/ Fail

Spec == Init /\ [][Next]_<<active, pending, out, seq, err>>

=============================================================================
