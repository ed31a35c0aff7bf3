------------------------ MODULE IPCopeKnowledge_proofs ------------------------
(***************************************************************************)
(* What spreads as IPCopeKnowledge says is true for good.                  *)
(***************************************************************************)
EXTENDS IPCopeKnowledge, TLAPS

\* An address stands for one node.
NamesDisjoint == \A m, n \in Node : m # n => Names[m] \intersect Names[n] = {}

\* Holdings have their type, and beliefs are true.
Truth ==
  /\ holds \in [Node -> SUBSET Pid]
  /\ BeliefsTrue

LEMMA TruthInit == Init => Truth
BY DEF Init, Truth, BeliefsTrue

\* What a node hears is true of its sender, and what was true remains so.
LEMMA TruthHear ==
  ASSUME NamesDisjoint, Truth, NEW n \in Node, Hear(n)
  PROVE  Truth'
<1>1. holds' \in [Node -> SUBSET Pid]
  BY DEF Hear
<1>2. ASSUME NEW m \in Node, NEW k \in Node, NEW b \in believes'[m], b[2] \in Names[k]
      PROVE  b[1] \in holds'[k]
  <2>1. holds[k] \subseteq holds'[k]
    BY DEF Hear
  <2>2. CASE b \in believes[m]
    BY <1>2, <2>1, <2>2 DEF Truth, BeliefsTrue
  <2>3. CASE b \notin believes[m]
    <3>1. b[1] \in holds[n] /\ b[2] \in Names[n]
      BY <2>3 DEF Hear
    <3>2. k = n
      BY <1>2, <3>1 DEF NamesDisjoint
    <3> QED BY <2>1, <3>1, <3>2
  <2> QED BY <2>2, <2>3
<1> QED BY <1>1, <1>2 DEF Truth, BeliefsTrue

LEMMA TruthNext ==
  ASSUME NamesDisjoint, Truth, [Next]_vars
  PROVE  Truth'
<1>1. CASE \E n \in Node : Hear(n)
  BY <1>1, TruthHear
<1>2. ASSUME NEW n \in Node, NEW p \in Pid, Originate(n, p) PROVE Truth'
  <2>1. /\ holds' = [holds EXCEPT ![n] = @ \union {p}]
        /\ believes' = believes
    BY <1>2 DEF Originate
  <2>2. holds' \in [Node -> SUBSET Pid] /\ \A k \in Node : holds[k] \subseteq holds'[k]
    BY <2>1 DEF Truth
  <2> QED BY <2>1, <2>2 DEF Truth, BeliefsTrue
<1>3. CASE UNCHANGED vars
  BY <1>3 DEF vars, Truth, BeliefsTrue
<1> QED BY <1>1, <1>2, <1>3 DEF Next

\* However packets and reports spread, no node ever takes another one to
\* hold a packet it does not hold: what Encode relies on when it codes a
\* packet for neighbours that are known to have it.
THEOREM TrueBeliefs ==
  ASSUME NamesDisjoint
  PROVE  Spec => []BeliefsTrue
<1>1. Truth /\ [Next]_vars => Truth'
  BY TruthNext
<1>2. Truth => BeliefsTrue
  BY DEF Truth
<1> QED BY <1>1, <1>2, TruthInit, PTL DEF Spec
===============================================================================
