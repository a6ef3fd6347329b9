----------------------------- MODULE MacCompare -----------------------------
(***************************************************************************)
(* The tag comparison of get_mac on the read side (mac.c:344-381):        *)
(*   memcmp(mac_data, pkt->mac, mac_len) != 0  =>  EINVAL, return -1.    *)
(* A tag is a sequence of MacLen bytes.  memcmp reads the two buffers     *)
(* byte by byte and returns at the first byte that differs, so the time   *)
(* of a rejection is the number of bytes it read.  The equal-time         *)
(* requirement of spec 4.4 relates two runs: the same expected tag        *)
(* compared with two forged tags of the peer's choice (self-composition). *)
(***************************************************************************)
EXTENDS Naturals

CONSTANTS
  Bytes,   \* the byte values a tag is made of
  MacLen   \* mac_len: the bytes compared

ASSUME MacLen \in Nat \ {0}

Runs == {1, 2}
Tags == [1..MacLen -> Bytes]

VARIABLES
  expected, \* mac_data: the tag get_mac computed
  forged,   \* [Runs -> Tags]: pkt->mac, the tag received in each run
  time      \* [Runs -> Nat]: bytes memcmp read in each run, 0 before it ran

vars == <<expected, forged, time>>

TypeOK ==
  /\ expected \in Tags /\ forged \in [Runs -> Tags]
  /\ time \in [Runs -> 0..MacLen]

\* memcmp(): reads byte i of both buffers and stops at the first that
\* differs or at the last; the result is the number of bytes read.
RECURSIVE BytesRead(_, _, _)
BytesRead(a, b, i) ==
  IF i = MacLen \/ a[i] # b[i] THEN i ELSE BytesRead(a, b, i + 1)

Init ==
  /\ expected \in Tags /\ forged \in [Runs -> Tags]
  /\ time = [r \in Runs |-> 0]

\* get_mac with PROXY_SSH_MAC_FL_READ_MAC, in run r: compare, and on a
\* difference log it and fail with EINVAL (the verdict is not needed here).
Compare(r) ==
  /\ time[r] = 0
  /\ time' = [time EXCEPT ![r] = BytesRead(expected, forged[r], 1)]
  /\ UNCHANGED <<expected, forged>>

Next == \E r \in Runs : Compare(r)

Spec == Init /\ [][Next]_vars

(* Spec 4.4: the comparison is full-length and takes the same time       *)
(* wherever a forged tag first differs, so that rejecting two forged     *)
(* tags for the same expected tag can never take different times.        *)
(* memcmp in get_mac stops at the first differing byte.                  *)
TimeIndependentOfTag ==
  (\A r \in Runs : time[r] # 0 /\ forged[r] # expected) => time[1] = time[2]

=============================================================================
