------------------------------- MODULE MCRelay -------------------------------
(***************************************************************************)
(* A relay between A and B, all on channel 1.  p1 travels from A to B, p2  *)
(* from B to A, so the relay can code them together; A acknowledges.       *)
(* The uninitialized id of a hello may be that of a packet.                *)
(***************************************************************************)
EXTENDS MCBase

CONSTANTS relay, A, B, p1, p2

MCNode == {relay, A, B}

MCRadiosOf ==
  relay :> <<Radio(11, 1, 1)>> @@
  A :> <<Radio(21, 3, 1)>> @@
  B :> <<Radio(31, 5, 1)>>

MCIPSends ==
  {[id |-> p1, dest |-> 5, iface |-> 1], [id |-> p2, dest |-> 3, iface |-> 1]}

MCAnswers == MCIPSends \union {NoSend}

\* A acknowledges p1 to the node it had it from (41), and p2 to the relay.
MCHeard ==
  {On(1, Hello(A, 1)),
   On(1, Data(A, 1, 1, {To(1, p1)}, {}, <<AckOf(41, p1)>>)),
   On(1, Data(A, 1, 1, {To(1, p1)}, {}, <<AckOf(11, p2)>>)),
   On(1, Data(B, 1, 1, {To(1, p2)}, {}, <<>>))}

\* Some theorems about one node ask for this.
ASSUME ConfiguredAssumption == Configured /\ HonestFrames /\ OneChannel
===============================================================================
