------------------------------ MODULE MCThreeWay ------------------------------
(***************************************************************************)
(* A relay among A, B and C, all on channel 1.  p1 travels from A to B, p2 *)
(* from B to C and p3 from C to A; each of them overhears and reports the  *)
(* one packet it neither sends nor wants, so that the relay can code all   *)
(* three together.                                                         *)
(***************************************************************************)
EXTENDS MCBase

CONSTANTS relay, A, B, C, p1, p2, p3

MCNode == {relay, A, B, C}

MCRadiosOf ==
  relay :> <<Radio(11, 1, 1)>> @@
  A :> <<Radio(21, 3, 1)>> @@
  B :> <<Radio(31, 5, 1)>> @@
  C :> <<Radio(41, 7, 1)>>

MCIPSends ==
  {[id |-> p1, dest |-> 5, iface |-> 1], [id |-> p2, dest |-> 7, iface |-> 1],
   [id |-> p3, dest |-> 3, iface |-> 1]}

MCAnswers == {NoSend}

MCHeard ==
  {On(1, Data(A, 1, 1, {To(1, p1)}, {p2}, <<>>)),
   On(1, Data(B, 1, 1, {To(1, p2)}, {p3}, <<>>)),
   On(1, Data(C, 1, 1, {To(1, p3)}, {p1}, <<>>))}
===============================================================================
