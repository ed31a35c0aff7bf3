----------------------------- MODULE MCMultiRadio -----------------------------
(***************************************************************************)
(* A relay and a neighbour A with two radios each, on channels 1 and 2,    *)
(* and a neighbour B on channel 2.  IP sends to both radios of A before    *)
(* anything tells that they are one node, so that records are merged while *)
(* packets wait in their virtual queues.  Besides it sends p4 to everybody *)
(* on channel 2, which no code may contain.                                *)
(***************************************************************************)
EXTENDS MCBase

CONSTANTS relay, A, B, p1, p2, p3, p4

MCNode == {relay, A, B}

MCRadiosOf ==
  relay :> <<Radio(11, 1, 1), Radio(12, 2, 2)>> @@
  A :> <<Radio(21, 4, 1), Radio(22, 3, 2)>> @@
  B :> <<Radio(31, 5, 2)>>

MCIPSends ==
  {[id |-> p1, dest |-> 4, iface |-> 1], [id |-> p2, dest |-> 3, iface |-> 2],
   [id |-> p3, dest |-> 5, iface |-> 2], [id |-> p4, dest |-> Broadcast, iface |-> 2]}

MCAnswers == {NoSend}

\* A hello of A; a broadcast p4, sent by each radio of A, once reporting p3,
\* and by B, reporting p1.
MCHeard ==
  {On(1, Hello(A, 1)),
   On(1, Data(A, 1, Broadcast, {To(Broadcast, p4)}, {}, <<>>)),
   On(2, Data(A, 2, Broadcast, {To(Broadcast, p4)}, {p3}, <<>>)),
   On(2, Data(B, 1, Broadcast, {To(Broadcast, p4)}, {p1}, <<>>))}

\* Some theorems about one node ask for this.
ASSUME ConfiguredAssumption == Configured /\ HonestFrames
===============================================================================
