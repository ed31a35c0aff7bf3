----------------------------- MODULE MCOverhear -----------------------------
(***************************************************************************)
(* A relay among A, B and C on one channel; C hears B besides.             *)
(* p1 travels from A to C and p2 from B to A, so that the relay can code   *)
(* them once it learns that C overheard p2.  p3, for the relay itself,     *)
(* lets C say so.                                                          *)
(***************************************************************************)
EXTENDS IPCopeNetwork

CONSTANTS relay, A, B, C, p1, p2, p3

Nodes == {relay, A, B, C}

Radio(ip, mac) == <<[ip |-> ip, mac |-> mac, channel |-> 1]>>

Radios ==
  relay :> Radio(11, 1) @@ A :> Radio(21, 3) @@ B :> Radio(31, 5) @@ C :> Radio(41, 7)

Links ==
  {<<relay, n>> : n \in {A, B, C}} \union {<<n, relay>> : n \in {A, B, C}} \union
  {<<B, C>>}

Flows == {[node |-> A, pid |-> p1], [node |-> B, pid |-> p2], [node |-> C, pid |-> p3]}

Forward(pid, mac) == [id |-> pid, dest |-> mac, iface |-> 1]

Routes ==
  relay :> [pid \in Pid |-> CASE pid = p1 -> Forward(p1, 7)
                              [] pid = p2 -> Forward(p2, 3)
                              [] OTHER -> NoSend] @@
  A :> [pid \in Pid |-> IF pid = p1 THEN Forward(p1, 1) ELSE NoSend] @@
  B :> [pid \in Pid |-> IF pid = p2 THEN Forward(p2, 1) ELSE NoSend] @@
  C :> [pid \in Pid |-> IF pid = p3 THEN Forward(p3, 1) ELSE NoSend]

\* TLC evaluates what a constant is replaced by at every use of the constant,
\* but the definitions that refers to only once.
MCRadiosOf == Radios
MCNear == Links
MCFlow == Flows
MCRoute == Routes
MCNode == Nodes

ASSUME ConfiguredAssumption ==
  /\ WellConfigured /\ OneChannel /\ TwoHops /\ Routed /\ OnePath /\ Direct /\ HelloIdsApart
  /\ ReliableMac /\ MaxMissed <= MaxRetry /\ Cardinality(Pid) <= QueueMax
===============================================================================
