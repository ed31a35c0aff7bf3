----------------------------- MODULE MCTwoRadios -----------------------------
(***************************************************************************)
(* A relay and a neighbour A with two radios each, on channels 1 and 2,    *)
(* and a neighbour B on channel 2.  A packet or a hello at the head of the *)
(* output queue may be for a radio that is busy while the other one is     *)
(* free, and p1 and p2 can be coded together on channel 2.                 *)
(***************************************************************************)
EXTENDS MCBase

CONSTANTS relay, A, B, p1, p2

MCNode == {relay, A, B}

MCRadiosOf ==
  relay :> <<Radio(11, 1, 1), Radio(12, 2, 2)>> @@
  A :> <<Radio(21, 4, 1), Radio(22, 3, 2)>> @@
  B :> <<Radio(31, 5, 2)>>

MCIPSends ==
  {[id |-> p1, dest |-> 4, iface |-> 1], [id |-> p2, dest |-> 5, iface |-> 2]}

MCAnswers == {NoSend}

\* A reports p2 after a hello that lists both its radios, and acknowledges
\* p1; B reports p1.
MCHeard ==
  {On(1, Hello(A, 1)),
   On(2, Data(A, 2, 2, {To(2, p2)}, {p2}, <<>>)),
   On(2, Data(A, 2, 2, {To(2, p2)}, {}, <<AckOf(11, p1)>>)),
   On(2, Data(B, 1, 2, {To(2, p1)}, {p1}, <<>>))}
===============================================================================
