--------------------------- MODULE IPCopeKnowledge ---------------------------
(***************************************************************************)
(* What the nodes of a network promise each other, without queues, frames, *)
(* timers or headers: packets spread from nodes that hold them to nodes    *)
(* that hear them, and a node takes another to hold a packet only when it  *)
(* does.  Nothing is ever forgotten.                                       *)
(***************************************************************************)
CONSTANTS
  Node,
  Pid,
  Names        \* Names[n]: the addresses that stand for node n

VARIABLES
  holds,       \* holds[n]: the packets node n can decode with
  believes     \* believes[m]: <<p, a>> when m takes the node called a to hold p

vars == <<holds, believes>>

Init ==
  /\ holds = [n \in Node |-> {}]
  /\ believes = [n \in Node |-> {}]

\* The nodes hear a frame of n, or miss it: it may bring them packets of n
\* and tell them about packets of n.
Hear(n) ==
  /\ holds' \in [Node -> SUBSET Pid]
  /\ \A m \in Node :
       /\ holds[m] \subseteq holds'[m]
       /\ holds'[m] \subseteq holds[m] \union holds[n]
       /\ believes[m] \subseteq believes'[m]
       /\ \A b \in believes'[m] \ believes[m] : b \in holds[n] \X Names[n]

\* The application at n sends p.
Originate(n, p) ==
  /\ holds' = [holds EXCEPT ![n] = @ \union {p}]
  /\ UNCHANGED believes

Next ==
  \/ \E n \in Node : Hear(n)
  \/ \E n \in Node, p \in Pid : Originate(n, p)

Spec == Init /\ [][Next]_vars

-------------------------------------------------------------------------------

\* What a node believes of another is true.
BeliefsTrue ==
  \A m, n \in Node : \A b \in believes[m] : b[2] \in Names[n] => b[1] \in holds[n]
===============================================================================
