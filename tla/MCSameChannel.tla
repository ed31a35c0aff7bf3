---------------------------- MODULE MCSameChannel ----------------------------
(***************************************************************************)
(* A neighbour A with two radios on one channel.                           *)
(***************************************************************************)
EXTENDS MCBase

CONSTANTS relay, A, p1, p2

MCNode == {relay, A}

MCRadiosOf ==
  relay :> <<Radio(11, 1, 1)>> @@
  A :> <<Radio(21, 3, 1), Radio(22, 4, 1)>>

MCIPSends ==
  {[id |-> p1, dest |-> 3, iface |-> 1], [id |-> p2, dest |-> 4, iface |-> 1]}

MCAnswers == {NoSend}

MCHeard == {On(1, Hello(A, 1)), On(1, Hello(A, 2))}
===============================================================================
