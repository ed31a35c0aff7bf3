------------------------------ MODULE MCNetwork ------------------------------
(***************************************************************************)
(* A line A, relay, B on one channel; A and B do not hear each other.  p1  *)
(* travels from A to B and p2 from B to A.  Nobody has data left to carry  *)
(* acknowledgments, as if all of them were lost.  The id of the relay's    *)
(* hellos may be that of p1.                                               *)
(***************************************************************************)
EXTENDS IPCopeNetwork

CONSTANTS relay, A, B, p1, p2

Nodes == {relay, A, B}

Radio(ip, mac) == <<[ip |-> ip, mac |-> mac, channel |-> 1]>>

Radios == relay :> Radio(11, 1) @@ A :> Radio(21, 3) @@ B :> Radio(31, 5)

Links == {<<A, relay>>, <<relay, A>>, <<B, relay>>, <<relay, B>>}

Flows == {[node |-> A, pid |-> p1], [node |-> B, pid |-> p2]}

Forward(pid, mac) == [id |-> pid, dest |-> mac, iface |-> 1]

Routes ==
  relay :> [pid \in Pid |-> CASE pid = p1 -> Forward(p1, 5)
                              [] pid = p2 -> Forward(p2, 3)
                              [] OTHER -> NoSend] @@
  A :> [pid \in Pid |-> IF pid = p1 THEN Forward(p1, 1) ELSE NoSend] @@
  B :> [pid \in Pid |-> IF pid = p2 THEN Forward(p2, 1) ELSE NoSend]

\* TLC evaluates what a constant is replaced by at every use of the constant,
\* but the definitions that refers to only once.
MCRadiosOf == Radios
MCNear == Links
MCFlow == Flows
MCRoute == Routes
MCNode == Nodes

ASSUME ConfiguredAssumption ==
  WellConfigured /\ OneChannel /\ TwoHops /\ Routed /\ OnePath /\ CodedOnce
===============================================================================
