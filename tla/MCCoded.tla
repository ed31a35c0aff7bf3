------------------------------- MODULE MCCoded -------------------------------
(***************************************************************************)
(* A node B that receives coded frames.  It sends p2 and p4 to the relay   *)
(* and gets p1 and p3 back in frames coded with p2; it overhears what A    *)
(* sends, p1 alone or coded with p3 for other nodes.                       *)
(***************************************************************************)
EXTENDS MCBase

CONSTANTS B, A, relay, C, p1, p2, p3, p4

MCNode == {B, A, relay, C}

MCRadiosOf ==
  relay :> <<Radio(11, 1, 1)>> @@
  A :> <<Radio(21, 3, 1)>> @@
  B :> <<Radio(31, 5, 1)>> @@
  C :> <<Radio(41, 7, 1)>>

MCIPSends ==
  {[id |-> p2, dest |-> 1, iface |-> 1], [id |-> p4, dest |-> 1, iface |-> 1]}

MCAnswers == {[id |-> p4, dest |-> 1, iface |-> 1], NoSend}

\* Coded for this node and A, to the MAC of either; coded for the relay and
\* C; p1 on its way to the relay.
MCHeard ==
  {On(1, Data(relay, 1, 5, {To(5, p1), To(3, p2)}, {p2}, <<>>)),
   On(1, Data(relay, 1, 3, {To(5, p3), To(3, p2)}, {}, <<AckOf(31, p2)>>)),
   On(1, Data(A, 1, 1, {To(1, p1), To(7, p3)}, {}, <<AckOf(11, p4)>>)),
   On(1, Data(A, 1, 1, {To(1, p1)}, {p2}, <<>>))}

\* Some theorems about one node ask for this.
ASSUME ConfiguredAssumption == Configured /\ HonestFrames /\ OneChannel
===============================================================================
