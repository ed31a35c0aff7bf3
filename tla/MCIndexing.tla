------------------------------ MODULE MCIndexing ------------------------------
(***************************************************************************)
(* A relay with radios on channels 1 and 2 between A, which only has a     *)
(* radio on channel 1, and B, which only has one on channel 2.             *)
(***************************************************************************)
EXTENDS MCBase

CONSTANTS relay, A, B, p1, p2

MCNode == {relay, A, B}

MCRadiosOf ==
  relay :> <<Radio(11, 1, 1), Radio(12, 2, 2)>> @@
  A :> <<Radio(21, 3, 1)>> @@
  B :> <<Radio(31, 5, 2)>>

MCIPSends ==
  {[id |-> p1, dest |-> 5, iface |-> 2], [id |-> p2, dest |-> 3, iface |-> 1]}

MCAnswers == {NoSend}

\* p1 travels from A to B, p2 from B to A.
MCHeard ==
  {On(1, Data(A, 1, 1, {To(1, p1)}, {}, <<>>)),
   On(2, Data(B, 1, 2, {To(2, p2)}, {}, <<>>))}
===============================================================================
