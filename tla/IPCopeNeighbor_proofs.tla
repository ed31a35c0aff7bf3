------------------------- MODULE IPCopeNeighbor_proofs -------------------------
(***************************************************************************)
(* What the operations of the queues and of the neighbour directory        *)
(* preserve.  First some facts that do not mention them, then each         *)
(* structure alone, then the two together: no two records share an         *)
(* address, every virtual queue points to packets that wait in the output  *)
(* queue, and no packet is pointed to twice.  In a well configured network *)
(* a record describes one node and no waiting packet is left out.  Data    *)
(* frames, hellos and moves of packets keep it so.                         *)
(***************************************************************************)
EXTENDS IPCopeNeighbor, SequenceTheorems, WellFoundedInduction, TLAPS

-------------------------------------------------------------------------------
(* Numbers, sequences and bounded iteration                                *)

\* Induction along a range, stated with a set so that it can be instantiated.
LEMMA RangeInduction ==
  ASSUME NEW n \in Nat, NEW T, 0 \in T,
         \A i \in 1..n : i - 1 \in T => i \in T
  PROVE  0..n \subseteq T
<1>1. SUFFICES ASSUME (0..n) \ T # {} PROVE FALSE
  OBVIOUS
<1>2. (0..n) \ T \subseteq Nat
  OBVIOUS
<1>3. PICK x \in (0..n) \ T : \A y \in (0..n) \ T : ~ (<<y, x>> \in OpToRel(<, Nat))
  <2> HIDE DEF OpToRel
  <2> QED BY <1>1, <1>2, WFMin, NatLessThanWellFounded
<1>4. x \in 1..n /\ x - 1 \in 0..n /\ x - 1 \in Nat /\ x \in Nat
  OBVIOUS
<1>5. <<x - 1, x>> \in OpToRel(<, Nat)
  BY <1>4 DEF OpToRel
<1>6. x - 1 \in T
  BY <1>3, <1>4, <1>5
<1>7. x \in T
  BY <1>4, <1>6
<1> QED BY <1>7

\* Every nonempty set of natural numbers has a smallest element.
LEMMA MinExists ==
  ASSUME NEW S \in SUBSET Nat, S # {}
  PROVE  /\ Min(S) \in S
         /\ Min(S) \in Nat
         /\ \A y \in S : Min(S) <= y
<1>1. PICK x \in S : \A y \in S : ~ (<<y, x>> \in OpToRel(<, Nat))
  <2> HIDE DEF OpToRel
  <2> QED BY WFMin, NatLessThanWellFounded
<1>2. \A y \in S : x <= y
  <2>1. SUFFICES ASSUME NEW y \in S, y < x PROVE FALSE
    OBVIOUS
  <2>2. <<y, x>> \in OpToRel(<, Nat)
    BY <2>1 DEF OpToRel
  <2> QED BY <1>1, <2>2
<1>3. \E z \in S : \A y \in S : z =< y
  BY <1>2
<1> QED BY <1>3 DEF Min

\* A nonempty bounded set of natural numbers has a largest element.
LEMMA MaxExists ==
  ASSUME NEW S \in SUBSET Nat, S # {}, NEW b \in Nat, \A x \in S : x <= b
  PROVE  Max(S) \in S
<1> DEFINE U == {k \in Nat : \A x \in S : x <= k}
<1>1. U # {} /\ U \in SUBSET Nat
  OBVIOUS
<1>2. PICK m \in U : \A k \in U : m <= k
  BY <1>1, MinExists
<1>3. m \in S
  <2>1. SUFFICES ASSUME m \notin S PROVE FALSE
    OBVIOUS
  <2>2. \A x \in S : x < m
    BY <2>1
  <2>3. m \in Nat /\ m - 1 \in Nat
    <3>1. PICK x \in S : x < m
      BY <2>2
    <3>2. x \in Nat /\ m \in Nat
      OBVIOUS
    <3> QED BY <3>1, <3>2
  <2>4. m - 1 \in U
    BY <2>2, <2>3
  <2> QED BY <1>2, <2>4
<1>4. \E z \in S : \A y \in S : z >= y
  BY <1>2, <1>3
<1> QED BY <1>4 DEF Max

\* A function on a range has a bound.
LEMMA RangeBounded ==
  ASSUME NEW n \in Nat, NEW f \in [1..n -> Nat]
  PROVE  \E b \in Nat : \A i \in 1..n : f[i] <= b
<1> DEFINE T == {k \in 0..n : \E b \in Nat : \A i \in 1..k : f[i] <= b}
<1>1. 0 \in T
  OBVIOUS
<1>2. ASSUME NEW k \in 1..n, k - 1 \in T PROVE k \in T
  <2>1. PICK b \in Nat : \A i \in 1..k - 1 : f[i] <= b
    BY <1>2
  <2>2. f[k] \in Nat
    OBVIOUS
  <2>3. b + f[k] \in Nat /\ \A i \in 1..k : f[i] <= b + f[k]
    <3>1. ASSUME NEW i \in 1..k PROVE f[i] <= b + f[k]
      <4>1. f[i] \in Nat
        OBVIOUS
      <4>2. CASE i = k
        BY <2>2, <4>2
      <4>3. CASE i # k
        <5>1. i \in 1..k - 1
          BY <4>3
        <5> QED BY <2>1, <2>2, <4>1, <5>1
      <4> QED BY <4>2, <4>3
    <3> QED BY <2>2, <3>1
  <2>4. \E c \in Nat : \A i \in 1..k : f[i] <= c
    BY <2>3
  <2> QED BY <2>4
<1> HIDE DEF T
<1>3. n \in T
  <2>1. 0..n \subseteq T
    BY <1>1, <1>2, RangeInduction
  <2> QED BY <2>1
<1> QED BY <1>3 DEF T

\* What SelectInSeq computes from the positions I that pass its test.
LEMMA FirstPosition ==
  ASSUME NEW n \in Nat, NEW I \in SUBSET (1..n)
  PROVE  /\ (IF I # {} THEN Min(I) ELSE 0) \in 0..n
         /\ (IF I # {} THEN Min(I) ELSE 0) # 0 <=> I # {}
         /\ I # {} => Min(I) \in I
<1>1. I \in SUBSET Nat
  OBVIOUS
<1>2. CASE I = {}
  BY <1>2
<1>3. CASE I # {}
  <2>1. Min(I) \in I
    BY <1>1, <1>3, MinExists
  <2>2. Min(I) \in 1..n
    BY <2>1
  <2> HIDE DEF Min
  <2> QED BY <1>3, <2>1, <2>2
<1> QED BY <1>2, <1>3

-------------------------------------------------------------------------------
(* Removing an element                                                     *)

\* The elements after the removed one move up.
LEMMA RemoveAtProperties ==
  ASSUME NEW S, NEW q \in Seq(S), NEW i \in 1..Len(q)
  PROVE  /\ RemoveAt(q, i) \in Seq(S)
         /\ Len(RemoveAt(q, i)) = Len(q) - 1
         /\ \A j \in 1..Len(q) - 1 :
              RemoveAt(q, i)[j] = IF j < i THEN q[j] ELSE q[j + 1]
<1>1. /\ SubSeq(q, 1, i - 1) \in Seq(S)
      /\ Len(SubSeq(q, 1, i - 1)) = i - 1
      /\ \A j \in 1..i - 1 : SubSeq(q, 1, i - 1)[j] = q[j]
  BY SubSeqProperties
<1>2. /\ SubSeq(q, i + 1, Len(q)) \in Seq(S)
      /\ Len(SubSeq(q, i + 1, Len(q))) = Len(q) - i
      /\ \A j \in 1..Len(q) - i : SubSeq(q, i + 1, Len(q))[j] = q[i + j]
  BY SubSeqProperties
<1> DEFINE p == SubSeq(q, 1, i - 1)  r == SubSeq(q, i + 1, Len(q))
<1> HIDE DEF p, r
<1>3. /\ p \o r \in Seq(S)
      /\ Len(p \o r) = Len(q) - 1
      /\ \A j \in 1..Len(q) - 1 : (p \o r)[j] = IF j < i THEN q[j] ELSE q[j + 1]
  <2>1. p \in Seq(S) /\ r \in Seq(S) /\ Len(p) = i - 1 /\ Len(r) = Len(q) - i
    BY <1>1, <1>2 DEF p, r
  <2>2. /\ p \o r \in Seq(S)
        /\ Len(p \o r) = Len(p) + Len(r)
        /\ \A j \in 1..Len(p) + Len(r) :
             (p \o r)[j] = IF j <= Len(p) THEN p[j] ELSE r[j - Len(p)]
    BY <2>1, ConcatProperties
  <2>3. ASSUME NEW j \in 1..Len(q) - 1
        PROVE  (p \o r)[j] = IF j < i THEN q[j] ELSE q[j + 1]
    <3>1. CASE j < i
      BY <1>1, <2>1, <2>2, <3>1 DEF p
    <3>2. CASE j >= i
      <4>1. (p \o r)[j] = r[j - (i - 1)] /\ j - (i - 1) \in 1..Len(q) - i
        BY <2>1, <2>2, <3>2
      <4>2. r[j - (i - 1)] = q[i + (j - (i - 1))]
        BY <1>2, <4>1 DEF r
      <4> QED BY <3>2, <4>1, <4>2
    <3>3. i \in Nat /\ j \in Nat
      OBVIOUS
    <3>4. j < i \/ j >= i
      BY <3>3
    <3> QED BY <3>1, <3>2, <3>4
  <2> QED BY <2>1, <2>2, <2>3
<1> QED BY <1>3 DEF RemoveAt, p, r

-------------------------------------------------------------------------------
(* Bounded iteration                                                       *)

\* g lists the results of applying step[1], step[2], ... to a, all in X.
IsIteration(g, X, a, step, n) ==
  /\ g \in [0..n -> X]
  /\ g = [i \in 0..n |-> IF i = 0 THEN a ELSE step[i][g[i - 1]]]

Iterates(g, a, step, i) == g[0] = a /\ \A j \in 1..i : g[j] = step[j][g[j - 1]]

\* Such a function exists, so a recursive definition of it has a meaning.
LEMMA IterationExists ==
  ASSUME NEW X, NEW a \in X, NEW n \in Nat, NEW step \in [1..n -> [X -> X]]
  PROVE  \E g : IsIteration(g, X, a, step, n)
<1> DEFINE T == {i \in 0..n : \E g \in [0..i -> X] : Iterates(g, a, step, i)}
<1>1. 0 \in T
  <2>1. [j \in 0..0 |-> a] \in [0..0 -> X] /\ Iterates([j \in 0..0 |-> a], a, step, 0)
    BY DEF Iterates
  <2> QED BY <2>1
<1>2. ASSUME NEW i \in 1..n, i - 1 \in T PROVE i \in T
  <2>1. PICK g \in [0..(i - 1) -> X] : Iterates(g, a, step, i - 1)
    BY <1>2
  <2> DEFINE h == [j \in 0..i |-> IF j = i THEN step[i][g[i - 1]] ELSE g[j]]
  <2>2. step[i][g[i - 1]] \in X
    <3>1. g[i - 1] \in X
      OBVIOUS
    <3>2. step[i] \in [X -> X]
      OBVIOUS
    <3> QED BY <3>1, <3>2
  <2>3. h \in [0..i -> X]
    BY <2>2
  <2>4. Iterates(h, a, step, i)
    <3>1. h[0] = a
      BY <2>1 DEF Iterates
    <3>2. ASSUME NEW j \in 1..i PROVE h[j] = step[j][h[j - 1]]
      <4>1. CASE j = i
        BY <4>1
      <4>2. CASE j # i
        <5>1. j \in 1..(i - 1) /\ h[j] = g[j] /\ h[j - 1] = g[j - 1]
          BY <4>2
        <5> QED BY <5>1, <2>1 DEF Iterates
      <4> QED BY <4>1, <4>2
    <3> HIDE DEF h
    <3> QED BY <3>1, <3>2 DEF Iterates
  <2> HIDE DEF h
  <2> QED BY <2>3, <2>4
<1> HIDE DEF T
<1>3. n \in T
  <2>1. 0..n \subseteq T
    BY <1>1, <1>2, RangeInduction
  <2> QED BY <2>1
<1>4. PICK g \in [0..n -> X] : Iterates(g, a, step, n)
  BY <1>3 DEF T
<1>5. g = [i \in 0..n |-> IF i = 0 THEN a ELSE step[i][g[i - 1]]]
  BY <1>4 DEF Iterates
<1> QED BY <1>5 DEF IsIteration

-------------------------------------------------------------------------------
(* Queues                                                                  *)

Distinct(q) == \A i, j \in DOMAIN q : q[i].id = q[j].id => i = j

\* What an IPCopeQueue with entries of S may hold.
Bounded(S) == {q \in Seq(S) : Len(q) <= QueueMax /\ Distinct(q)}

\* A queue starts empty.
LEMMA EmptyBounded == ASSUME NEW S PROVE <<>> \in Bounded(S)
BY BoundsAssumption DEF Bounded, Distinct

\* EnqueueBack keeps a queue bounded and free of duplicates.
LEMMA EnqueueBackBounded ==
  ASSUME NEW S, NEW q \in Bounded(S), NEW e \in S
  PROVE  EnqueueBack(q, e) \in Bounded(S)
<1>1. CASE Accepts(q, e)
  <2>1. /\ Append(q, e) \in Seq(S)
        /\ Len(Append(q, e)) = Len(q) + 1
        /\ \A i \in 1..Len(q) : Append(q, e)[i] = q[i]
        /\ Append(q, e)[Len(q) + 1] = e
    BY AppendProperties DEF Bounded
  <2>2. Len(q) + 1 <= QueueMax
    BY <1>1, BoundsAssumption DEF Accepts, Bounded
  <2>3. Distinct(Append(q, e))
    <3>1. \A i \in 1..Len(q) : q[i].id # e.id
      BY <1>1 DEF Accepts, Ids, Bounded
    <3>2. \A i, j \in 1..Len(q) : q[i].id = q[j].id => i = j
      BY DEF Bounded, Distinct
    <3>3. DOMAIN Append(q, e) = 1..Len(q) + 1
      BY <2>1
    <3> QED BY <2>1, <3>1, <3>2, <3>3 DEF Distinct
  <2> QED BY <1>1, <2>1, <2>2, <2>3 DEF EnqueueBack, Bounded
<1>2. CASE ~Accepts(q, e)
  BY <1>2 DEF EnqueueBack
<1> QED BY <1>1, <1>2

\* So does EnqueueFront.
LEMMA EnqueueFrontBounded ==
  ASSUME NEW S, NEW q \in Bounded(S), NEW e \in S
  PROVE  EnqueueFront(q, e) \in Bounded(S)
<1>1. CASE Accepts(q, e)
  <2> DEFINE p == <<e>> \o q
  <2>1. /\ p \in Seq(S)
        /\ Len(p) = Len(q) + 1
        /\ \A i \in 1..Len(q) : p[i + 1] = q[i]
        /\ p[1] = e
    <3>1. <<e>> \in Seq(S) /\ Len(<<e>>) = 1 /\ <<e>>[1] = e /\ q \in Seq(S)
      BY DEF Bounded
    <3>2. /\ p \in Seq(S)
          /\ Len(p) = 1 + Len(q)
          /\ \A i \in 1..1 + Len(q) : p[i] = IF i <= 1 THEN <<e>>[i] ELSE q[i - 1]
      BY <3>1, ConcatProperties
    <3> QED BY <3>1, <3>2
  <2>2. Len(q) + 1 <= QueueMax
    BY <1>1, BoundsAssumption DEF Accepts, Bounded
  <2>3. Distinct(p)
    <3>1. \A i \in 1..Len(q) : q[i].id # e.id
      BY <1>1 DEF Accepts, Ids, Bounded
    <3>2. \A i, j \in 1..Len(q) : q[i].id = q[j].id => i = j
      BY DEF Bounded, Distinct
    <3>3. DOMAIN p = 1..Len(q) + 1
      BY <2>1
    <3>4. \A i \in 2..Len(q) + 1 : i - 1 \in 1..Len(q) /\ p[i] = q[i - 1]
      BY <2>1
    <3> HIDE DEF p
    <3>5. ASSUME NEW i \in 1..Len(q) + 1, NEW j \in 1..Len(q) + 1, p[i].id = p[j].id
          PROVE  i = j
      <4>1. CASE i = 1 /\ j = 1
        BY <4>1
      <4>2. CASE i = 1 /\ j # 1
        <5>1. j \in 2..Len(q) + 1
          BY <4>2
        <5> QED BY <2>1, <3>1, <3>4, <3>5, <4>2, <5>1
      <4>3. CASE i # 1 /\ j = 1
        <5>1. i \in 2..Len(q) + 1
          BY <4>3
        <5> QED BY <2>1, <3>1, <3>4, <3>5, <4>3, <5>1
      <4>4. CASE i # 1 /\ j # 1
        <5>1. i \in 2..Len(q) + 1 /\ j \in 2..Len(q) + 1
          BY <4>4
        <5>2. i - 1 = j - 1
          BY <3>2, <3>4, <3>5, <5>1
        <5> QED BY <5>1, <5>2
      <4> QED BY <4>1, <4>2, <4>3, <4>4
    <3> QED BY <3>3, <3>5 DEF Distinct
  <2> HIDE DEF p
  <2>4. p \in Bounded(S)
    BY <2>1, <2>2, <2>3 DEF Bounded
  <2> QED BY <1>1, <2>4 DEF EnqueueFront, p
<1>2. CASE ~Accepts(q, e)
  BY <1>2 DEF EnqueueFront
<1> QED BY <1>1, <1>2

\* So does Dequeue, whose result is an entry of the queue.
LEMMA TailBounded ==
  ASSUME NEW S, NEW q \in Bounded(S), q # <<>>
  PROVE  Tail(q) \in Bounded(S) /\ Head(q) \in S
<1>1. /\ Tail(q) \in Seq(S)
      /\ Len(Tail(q)) = Len(q) - 1
      /\ \A i \in 1..Len(q) - 1 : Tail(q)[i] = q[i + 1]
      /\ Head(q) \in S
  BY HeadTailProperties DEF Bounded
<1>2. \A i, j \in 1..Len(q) : q[i].id = q[j].id => i = j
  BY DEF Bounded, Distinct
<1>3. Distinct(Tail(q))
  <2>1. ASSUME NEW i \in 1..Len(q) - 1, NEW j \in 1..Len(q) - 1,
               Tail(q)[i].id = Tail(q)[j].id
        PROVE  i = j
    <3>1. q[i + 1].id = q[j + 1].id /\ i + 1 \in 1..Len(q) /\ j + 1 \in 1..Len(q)
      BY <1>1, <2>1
    <3>2. i + 1 = j + 1
      BY <1>2, <3>1
    <3> QED BY <3>2
  <2> QED BY <1>1, <2>1 DEF Distinct
<1> QED BY <1>1, <1>3, BoundsAssumption DEF Bounded

\* Erase finds an entry with the packet id it is given.
LEMMA PositionOfProperties ==
  ASSUME NEW S, NEW q \in Seq(S), NEW pid, pid \in Ids(q)
  PROVE  PositionOf(q, pid) \in 1..Len(q) /\ q[PositionOf(q, pid)].id = pid
<1> DEFINE I == {i \in 1..Len(q) : q[i].id = pid}
<1>1. I # {} /\ I \in SUBSET (1..Len(q))
  BY DEF Ids
<1>2. Min(I) \in I
  <2>1. I \in SUBSET Nat
    OBVIOUS
  <2> HIDE DEF I
  <2> QED BY <1>1, <2>1, MinExists
<1> QED BY <1>1, <1>2 DEF PositionOf, SelectInSeq

\* Erase keeps the type of any sequence and makes nothing out of nothing.
LEMMA EraseProperties ==
  ASSUME NEW S, NEW q \in Seq(S), NEW pid
  PROVE  /\ Erase(q, pid) \in Seq(S)
         /\ q = <<>> => Erase(q, pid) = <<>>
<1>1. CASE pid \in Ids(q)
  <2>1. PositionOf(q, pid) \in 1..Len(q)
    BY <1>1, PositionOfProperties
  <2>2. RemoveAt(q, PositionOf(q, pid)) \in Seq(S)
    BY <2>1, RemoveAtProperties
  <2>3. q # <<>>
    BY <2>1
  <2> QED BY <1>1, <2>2, <2>3 DEF Erase
<1>2. CASE pid \notin Ids(q)
  BY <1>2 DEF Erase
<1> QED BY <1>1, <1>2

\* Erase keeps a queue bounded and free of duplicates.
LEMMA EraseBounded ==
  ASSUME NEW S, NEW q \in Bounded(S), NEW pid
  PROVE  Erase(q, pid) \in Bounded(S)
<1>1. CASE pid \in Ids(q)
  <2> DEFINE k == PositionOf(q, pid)  p == RemoveAt(q, k)
  <2>1. q \in Seq(S) /\ k \in 1..Len(q)
    BY <1>1, PositionOfProperties DEF Bounded
  <2> HIDE DEF k
  <2>2. /\ p \in Seq(S)
        /\ Len(p) = Len(q) - 1
        /\ \A j \in 1..Len(q) - 1 : p[j] = IF j < k THEN q[j] ELSE q[j + 1]
    BY <2>1, RemoveAtProperties
  <2> HIDE DEF p
  <2>3. \A i, j \in 1..Len(q) : q[i].id = q[j].id => i = j
    BY DEF Bounded, Distinct
  <2>4. ASSUME NEW i \in 1..Len(q) - 1, NEW j \in 1..Len(q) - 1, p[i].id = p[j].id
        PROVE  i = j
    <3> DEFINE old(x) == IF x < k THEN x ELSE x + 1
    <3>1. old(i) \in 1..Len(q) /\ old(j) \in 1..Len(q)
      BY <2>1
    <3>2. p[i] = q[old(i)] /\ p[j] = q[old(j)]
      BY <2>2
    <3>3. old(i) = old(j)
      <4> HIDE DEF old
      <4> QED BY <2>3, <2>4, <3>1, <3>2
    <3> QED BY <2>1, <3>3
  <2>5. Len(q) - 1 <= QueueMax
    BY BoundsAssumption DEF Bounded
  <2>6. p \in Bounded(S)
    <3>1. DOMAIN p = 1..Len(q) - 1
      BY <2>2
    <3>2. Distinct(p)
      BY <2>4, <3>1 DEF Distinct
    <3> QED BY <2>2, <2>5, <3>2 DEF Bounded
  <2> QED BY <1>1, <2>6 DEF Erase, p, k
<1>2. CASE pid \notin Ids(q)
  BY <1>2 DEF Erase
<1> QED BY <1>1, <1>2

-------------------------------------------------------------------------------
(* The directory                                                           *)

\* A neighbour record has a smallest MAC to be known by.
LEMMA NeighborFields ==
  ASSUME NEW nbr \in Neighbor
  PROVE  /\ nbr.pairs \in SUBSET Trinity /\ nbr.pairs # {}
         /\ nbr.vq \in Seq(Entry)
         /\ GetMac(nbr) \in Nat
         /\ GetChannels(nbr) \in SUBSET Nat
<1>1. nbr.pairs \in SUBSET Trinity /\ nbr.pairs # {} /\ nbr.vq \in Seq(Entry)
  BY DEF Neighbor
<1> DEFINE M == {t.mac : t \in nbr.pairs}
<1>2. M \in SUBSET Nat /\ M # {}
  BY <1>1 DEF Trinity
<1>3. GetMac(nbr) \in Nat
  <2>1. Min(M) \in Nat
    <3> HIDE DEF M
    <3> QED BY <1>2, MinExists
  <2> QED BY <2>1 DEF GetMac
<1>4. GetChannels(nbr) \in SUBSET Nat
  BY <1>1 DEF GetChannels, Trinity
<1> QED BY <1>1, <1>3, <1>4

\* SearchMac finds a record that has the MAC when there is one.
LEMMA SearchMacProperties ==
  ASSUME NEW nbrs \in Seq(Neighbor), NEW mac
  PROVE  /\ SearchMac(nbrs, mac) \in 0..Len(nbrs)
         /\ SearchMac(nbrs, mac) # 0 =>
              /\ SearchMac(nbrs, mac) \in DOMAIN nbrs
              /\ HasMac(nbrs[SearchMac(nbrs, mac)], mac)
         /\ (\E i \in DOMAIN nbrs : HasMac(nbrs[i], mac)) => SearchMac(nbrs, mac) # 0
<1> DEFINE I == {i \in 1..Len(nbrs) : HasMac(nbrs[i], mac)}
<1>1. SearchMac(nbrs, mac) = IF I # {} THEN Min(I) ELSE 0
  BY DEF SearchMac, SelectInSeq
<1>2. I \in SUBSET (1..Len(nbrs)) /\ Len(nbrs) \in Nat /\ DOMAIN nbrs = 1..Len(nbrs)
  OBVIOUS
<1>3. \A i \in I : HasMac(nbrs[i], mac)
  OBVIOUS
<1>4. (\E i \in DOMAIN nbrs : HasMac(nbrs[i], mac)) => I # {}
  OBVIOUS
<1> HIDE DEF I
<1> QED BY <1>1, <1>2, <1>3, <1>4, FirstPosition

\* SearchIP finds a record that has the IP when there is one.
LEMMA SearchIPProperties ==
  ASSUME NEW nbrs \in Seq(Neighbor), NEW ip
  PROVE  /\ SearchIP(nbrs, ip) \in 0..Len(nbrs)
         /\ SearchIP(nbrs, ip) # 0 =>
              /\ SearchIP(nbrs, ip) \in DOMAIN nbrs
              /\ HasIP(nbrs[SearchIP(nbrs, ip)], ip)
         /\ (\E i \in DOMAIN nbrs : HasIP(nbrs[i], ip)) => SearchIP(nbrs, ip) # 0
<1> DEFINE I == {i \in 1..Len(nbrs) : HasIP(nbrs[i], ip)}
<1>1. SearchIP(nbrs, ip) = IF I # {} THEN Min(I) ELSE 0
  BY DEF SearchIP, SelectInSeq
<1>2. I \in SUBSET (1..Len(nbrs)) /\ Len(nbrs) \in Nat /\ DOMAIN nbrs = 1..Len(nbrs)
  OBVIOUS
<1>3. \A i \in I : HasIP(nbrs[i], ip)
  OBVIOUS
<1>4. (\E i \in DOMAIN nbrs : HasIP(nbrs[i], ip)) => I # {}
  OBVIOUS
<1> HIDE DEF I
<1> QED BY <1>1, <1>2, <1>3, <1>4, FirstPosition

\* AddTrinity leaves a set of radios that holds the new one.
LEMMA AddTrinityType ==
  ASSUME NEW pairs \in SUBSET Trinity, NEW t \in Trinity
  PROVE  /\ AddTrinity(pairs, t) \in (SUBSET Trinity) \ {{}}
         /\ AddSoftTrinity(pairs, t) \in (SUBSET Trinity) \ {{}}
         /\ t \in AddTrinity(pairs, t)
BY DEF AddTrinity, AddSoftTrinity

\* AddNeighbor keeps the directory typed.
LEMMA AddNeighborType ==
  ASSUME NEW nbrs \in Seq(Neighbor), NEW nbr \in Neighbor
  PROVE  /\ AddNeighbor(nbrs, nbr) \in Seq(Neighbor)
         /\ AddNeighbor(nbrs, nbr) # nbrs =>
              \E i \in DOMAIN AddNeighbor(nbrs, nbr) : AddNeighbor(nbrs, nbr)[i] = nbr
<1>1. /\ Append(nbrs, nbr) \in Seq(Neighbor)
      /\ Len(nbrs) + 1 \in DOMAIN Append(nbrs, nbr)
      /\ Append(nbrs, nbr)[Len(nbrs) + 1] = nbr
  BY AppendProperties
<1> QED BY <1>1 DEF AddNeighbor

-------------------------------------------------------------------------------
(* A hello                                                                 *)

\* What NeighborLearn collects while it reads a hello.
Learning(aborts) ==
  [nbrs: Seq(Neighbor), fresh: [pairs: SUBSET Trinity, vq: Seq(Entry)], abort: aborts]

\* Absorbing a record keeps the directory and the fresh record typed.
LEMMA AbsorbType ==
  ASSUME NEW aborts, "DuplicateVirtual" \in aborts,
         NEW r \in Learning(aborts), NEW pos \in 0..Len(r.nbrs)
  PROVE  Absorb(r, pos) \in Learning(aborts)
<1>1. CASE pos = 0 \/ ~Running(r)
  BY <1>1 DEF Absorb
<1>2. CASE ~(pos = 0 \/ ~Running(r)) /\ Ids(r.fresh.vq) \intersect Ids(r.nbrs[pos].vq) # {}
  BY <1>2 DEF Absorb, Abort, Learning
<1>3. CASE ~(pos = 0 \/ ~Running(r)) /\ Ids(r.fresh.vq) \intersect Ids(r.nbrs[pos].vq) = {}
  <2>1. r.nbrs \in Seq(Neighbor) /\ r.fresh.vq \in Seq(Entry)
    BY DEF Learning
  <2>2. pos \in 1..Len(r.nbrs) /\ r.nbrs[pos] \in Neighbor
    BY <1>3, <2>1
  <2>3. RemoveAt(r.nbrs, pos) \in Seq(Neighbor)
    BY <2>1, <2>2, RemoveAtProperties
  <2>4. r.fresh.vq \o r.nbrs[pos].vq \in Seq(Entry)
    BY <2>1, <2>2, NeighborFields, ConcatProperties
  <2>5. Absorb(r, pos) = [r EXCEPT !.nbrs = RemoveAt(@, pos),
                                   !.fresh.vq = @ \o r.nbrs[pos].vq]
    BY <1>3 DEF Absorb
  <2> QED BY <2>3, <2>4, <2>5 DEF Learning
<1> QED BY <1>1, <1>2, <1>3

\* After its first pair the fresh record knows a radio.
LEMMA LearnPairType ==
  ASSUME NEW aborts, "DuplicateVirtual" \in aborts,
         NEW r \in Learning(aborts), NEW t \in Trinity
  PROVE  /\ LearnPair(r, t) \in Learning(aborts)
         /\ Running(LearnPair(r, t)) => LearnPair(r, t).fresh.pairs # {}
<1> DEFINE r1 == Absorb(r, SearchMac(r.nbrs, t.mac))
           r2 == Absorb(r1, SearchIP(r1.nbrs, t.ip))
<1>1. r1 \in Learning(aborts)
  <2>1. r.nbrs \in Seq(Neighbor)
    BY DEF Learning
  <2> QED BY <2>1, SearchMacProperties, AbsorbType
<1> HIDE DEF r1
<1>2. r2 \in Learning(aborts)
  <2>1. r1.nbrs \in Seq(Neighbor)
    BY <1>1 DEF Learning
  <2> QED BY <1>1, <2>1, SearchIPProperties, AbsorbType
<1> HIDE DEF r2
<1>3. CASE Running(r2)
  <2>1. AddTrinity(r2.fresh.pairs, t) \in (SUBSET Trinity) \ {{}}
    BY <1>2, AddTrinityType DEF Learning
  <2>2. LearnPair(r, t) = [r2 EXCEPT !.fresh.pairs = AddTrinity(@, t)]
    BY <1>3 DEF LearnPair, r1, r2
  <2>3. /\ [r2 EXCEPT !.fresh.pairs = AddTrinity(@, t)] \in Learning(aborts)
        /\ [r2 EXCEPT !.fresh.pairs = AddTrinity(@, t)].fresh.pairs # {}
    BY <1>2, <2>1 DEF Learning
  <2> QED BY <2>2, <2>3
<1>4. CASE ~Running(r2)
  BY <1>2, <1>4 DEF LearnPair, r1, r2
<1> QED BY <1>3, <1>4

\* NeighborLearn goes through the fresh records f[0], f[1], ...
LearnsBy(f, s, hello) ==
  LET n == Len(hello)
  IN  /\ f[0] = [nbrs |-> s.nbrs, fresh |-> [pairs |-> {}, vq |-> <<>>], abort |-> s.abort]
      /\ \A i \in 1..n : f[i] = LearnPair(f[i - 1], hello[i])
      /\ NeighborLearn(s, hello) =
           IF Running(f[n]) THEN [s EXCEPT !.nbrs = AddNeighbor(f[n].nbrs, f[n].fresh)]
           ELSE Abort(s, f[n].abort)

\* It does.
LEMMA NeighborLearnRuns ==
  ASSUME NEW s, s.nbrs \in Seq(Neighbor), NEW hello \in Seq(Trinity)
  PROVE  \E f : LearnsBy(f, s, hello)
<1> DEFINE D == Learning({s.abort, "DuplicateVirtual"})
           n == Len(hello)
           a == [nbrs |-> s.nbrs, fresh |-> [pairs |-> {}, vq |-> <<>>], abort |-> s.abort]
           step == [i \in 1..n |-> [d \in D |-> LearnPair(d, hello[i])]]
           f[i \in 0..n] == IF i = 0 THEN a ELSE LearnPair(f[i - 1], hello[i])
<1>1. a \in D /\ n \in Nat /\ \A i \in 1..n : hello[i] \in Trinity
  BY DEF Learning
<1>2. step \in [1..n -> [D -> D]]
  BY <1>1, LearnPairType
<1>3. f = [i \in 0..n |-> IF i = 0 THEN a ELSE LearnPair(f[i - 1], hello[i])]
  <2> HIDE DEF step, a, n, D
  <2>1. PICK g : IsIteration(g, D, a, step, n)
    BY <1>1, <1>2, IterationExists
  <2>2. ASSUME NEW i \in 1..n PROVE step[i][g[i - 1]] = LearnPair(g[i - 1], hello[i])
    <3>1. i - 1 \in 0..n
      BY <1>1
    <3>2. g[i - 1] \in D
      BY <2>1, <3>1 DEF IsIteration
    <3> QED BY <3>2 DEF step
  <2>3. g = [i \in 0..n |-> IF i = 0 THEN a ELSE LearnPair(g[i - 1], hello[i])]
    BY <1>1, <2>1, <2>2 DEF IsIteration
  <2> QED BY <2>3
<1>4. NeighborLearn(s, hello) =
        IF Running(f[n]) THEN [s EXCEPT !.nbrs = AddNeighbor(f[n].nbrs, f[n].fresh)]
        ELSE Abort(s, f[n].abort)
  BY DEF NeighborLearn, ForEach, f, a
<1> HIDE DEF f
<1>5. f[0] = a /\ \A i \in 1..n : f[i] = LearnPair(f[i - 1], hello[i])
  <2> HIDE DEF a, n
  <2>1. 0 \in 0..n /\ \A i \in 1..n : i \in 0..n /\ i # 0
    BY <1>1
  <2> QED BY <1>3, <2>1
<1>6. LearnsBy(f, s, hello)
  <2>1. f[0] = [nbrs |-> s.nbrs, fresh |-> [pairs |-> {}, vq |-> <<>>], abort |-> s.abort]
    BY <1>5
  <2> HIDE DEF a
  <2> QED BY <1>4, <1>5, <2>1 DEF LearnsBy
<1> QED BY <1>6

\* A hello changes the directory and nothing else, or it ends the simulation.
LEMMA NeighborLearnResult ==
  ASSUME NEW aborts, "DuplicateVirtual" \in aborts,
         NEW s, s.nbrs \in Seq(Neighbor), s.abort \in aborts,
         NEW hello \in Seq(Trinity), hello # <<>>
  PROVE  \/ \E n \in Seq(Neighbor) : NeighborLearn(s, hello) = [s EXCEPT !.nbrs = n]
         \/ \E a \in aborts : a # "none" /\ NeighborLearn(s, hello) = Abort(s, a)
<1> DEFINE n == Len(hello)
           D == Learning(aborts)
<1>1. n \in Nat /\ n > 0 /\ \A i \in 1..n : hello[i] \in Trinity
  OBVIOUS
<1>2. PICK f : LearnsBy(f, s, hello)
  BY NeighborLearnRuns
<1> DEFINE T == {i \in 0..n : /\ f[i] \in D
                              /\ i > 0 /\ Running(f[i]) => f[i].fresh.pairs # {}}
<1>3. 0 \in T
  <2>1. f[0] = [nbrs |-> s.nbrs, fresh |-> [pairs |-> {}, vq |-> <<>>], abort |-> s.abort]
    BY <1>2 DEF LearnsBy
  <2>2. f[0] \in D
    BY <2>1 DEF Learning
  <2> QED BY <1>1, <2>2
<1>4. ASSUME NEW i \in 1..n, i - 1 \in T PROVE i \in T
  <2>1. f[i] = LearnPair(f[i - 1], hello[i])
    BY <1>2 DEF LearnsBy
  <2> QED BY <1>1, <1>4, <2>1, LearnPairType
<1>5. n \in T
  <2> HIDE DEF T
  <2>1. 0..n \subseteq T
    BY <1>1, <1>3, <1>4, RangeInduction
  <2> QED BY <1>1, <2>1
<1> DEFINE r == f[n]
<1>6. r \in D /\ (Running(r) => r.fresh.pairs # {})
  BY <1>1, <1>5
<1>7. NeighborLearn(s, hello) =
        IF Running(r) THEN [s EXCEPT !.nbrs = AddNeighbor(r.nbrs, r.fresh)]
        ELSE Abort(s, r.abort)
  BY <1>2 DEF LearnsBy
<1> HIDE DEF r
<1>8. CASE Running(r)
  <2>1. r.nbrs \in Seq(Neighbor) /\ r.fresh \in Neighbor
    BY <1>6, <1>8 DEF Learning, Neighbor
  <2> QED BY <1>7, <1>8, <2>1, AddNeighborType
<1>9. CASE ~Running(r)
  BY <1>6, <1>7, <1>9 DEF Learning, Running
<1> QED BY <1>8, <1>9

-------------------------------------------------------------------------------
(* A data frame                                                            *)

\* Removing one of two records leaves the other.
LEMMA MergeType ==
  ASSUME NEW nbrs \in Seq(Neighbor), NEW posIp \in DOMAIN nbrs, NEW posMac \in DOMAIN nbrs,
         posIp # posMac, NEW kept \in Neighbor
  PROVE  /\ RemoveAt([nbrs EXCEPT ![posIp] = kept], posMac) \in Seq(Neighbor)
         /\ \E i \in DOMAIN RemoveAt([nbrs EXCEPT ![posIp] = kept], posMac) :
              RemoveAt([nbrs EXCEPT ![posIp] = kept], posMac)[i] = kept
<1> DEFINE q == [nbrs EXCEPT ![posIp] = kept]
           merged == RemoveAt(q, posMac)
<1>1. q \in Seq(Neighbor) /\ Len(q) = Len(nbrs) /\ q[posIp] = kept
  BY ExceptSeq
<1>2. posMac \in 1..Len(q) /\ posIp \in 1..Len(q)
  BY <1>1
<1> HIDE DEF q
<1>3. /\ merged \in Seq(Neighbor)
      /\ Len(merged) = Len(q) - 1
      /\ \A j \in 1..Len(q) - 1 : merged[j] = IF j < posMac THEN q[j] ELSE q[j + 1]
  BY <1>1, <1>2, RemoveAtProperties
<1> HIDE DEF merged
<1>4. \E i \in DOMAIN merged : merged[i] = kept
  <2>1. DOMAIN merged = 1..Len(q) - 1
    BY <1>3
  <2>2. CASE posIp < posMac
    <3>1. posIp \in 1..Len(q) - 1 /\ merged[posIp] = q[posIp]
      BY <1>2, <1>3, <2>2
    <3> QED BY <1>1, <2>1, <3>1
  <2>3. CASE posIp > posMac
    <3>1. posIp - 1 \in 1..Len(q) - 1 /\ ~(posIp - 1 < posMac) /\ posIp - 1 + 1 = posIp
      BY <1>2, <2>3
    <3>2. merged[posIp - 1] = q[posIp]
      BY <1>3, <3>1
    <3> QED BY <1>1, <2>1, <3>1, <3>2
  <2> QED BY <1>2, <2>2, <2>3
<1> QED BY <1>3, <1>4 DEF merged, q

\* A data frame changes the directory and nothing else, and afterwards its
\* sender's address is known; or it ends the simulation.
LEMMA SMNeighborsResult ==
  ASSUME NEW s, s.nbrs \in Seq(Neighbor), s = [x \in DOMAIN s |-> s[x]],
         "nbrs" \in DOMAIN s,
         NEW ip \in Nat, NEW mac \in Nat \ {0}, NEW channel \in Nat
  PROVE  \/ \E n \in Seq(Neighbor) :
              /\ SMNeighbors(s, ip, mac, channel) = [s EXCEPT !.nbrs = n]
              /\ \E i \in DOMAIN n : HasIP(n[i], ip)
         \/ \E a \in {"DuplicateVirtual", "NewNeighbor"} :
              SMNeighbors(s, ip, mac, channel) = Abort(s, a)
<1> DEFINE posIp == SearchIP(s.nbrs, ip)
           posMac == SearchMac(s.nbrs, mac)
           t == [ip |-> ip, mac |-> mac, channel |-> channel]
           result == SMNeighbors(s, ip, mac, channel)
<1>1. /\ posIp \in 0..Len(s.nbrs)
      /\ posIp # 0 => posIp \in DOMAIN s.nbrs /\ HasIP(s.nbrs[posIp], ip)
  BY SearchIPProperties
<1>2. /\ posMac \in 0..Len(s.nbrs)
      /\ posMac # 0 => posMac \in DOMAIN s.nbrs
  BY SearchMacProperties
<1>3. t \in Trinity /\ t.ip = ip
  BY DEF Trinity
<1>4. result =
        CASE posIp # 0 /\ posMac = 0 -> [s EXCEPT !.nbrs[posIp].pairs = AddSoftTrinity(@, t)]
          [] posIp = 0 /\ posMac # 0 -> [s EXCEPT !.nbrs[posMac].pairs = AddTrinity(@, t)]
          [] posIp # 0 /\ posMac # 0 /\ posIp = posMac -> s
          [] posIp # 0 /\ posMac # 0 /\ posIp # posMac -> Merge(s, posIp, posMac, t)
          [] posIp = 0 /\ posMac = 0 ->
               LET nbrs == AddNeighbor(s.nbrs, [pairs |-> {t}, vq |-> <<>>])
               IN  IF nbrs = s.nbrs THEN Abort(s, "NewNeighbor") ELSE [s EXCEPT !.nbrs = nbrs]
  BY DEF SMNeighbors
<1> HIDE DEF posIp, posMac, t, result
<1>5. CASE posIp # 0 /\ posMac = 0
  <2> DEFINE nbr == [s.nbrs[posIp] EXCEPT !.pairs = AddSoftTrinity(@, t)]
             n == [s.nbrs EXCEPT ![posIp] = nbr]
  <2>1. s.nbrs[posIp] \in Neighbor /\ posIp \in DOMAIN s.nbrs
    BY <1>1, <1>5
  <2>2. nbr \in Neighbor
    BY <1>3, <2>1, NeighborFields, AddTrinityType DEF Neighbor
  <2>3. HasIP(nbr, ip)
    BY <1>3, <2>1 DEF HasIP, AddSoftTrinity, Neighbor
  <2>4. result = [s EXCEPT !.nbrs = n]
    BY <1>4, <1>5
  <2>5. n \in Seq(Neighbor) /\ posIp \in DOMAIN n /\ n[posIp] = nbr
    <3> HIDE DEF nbr
    <3> QED BY <2>1, <2>2
  <2> HIDE DEF n, nbr
  <2> QED BY <2>3, <2>4, <2>5 DEF result
<1>6. CASE posIp = 0 /\ posMac # 0
  <2> DEFINE nbr == [s.nbrs[posMac] EXCEPT !.pairs = AddTrinity(@, t)]
             n == [s.nbrs EXCEPT ![posMac] = nbr]
  <2>1. s.nbrs[posMac] \in Neighbor /\ posMac \in DOMAIN s.nbrs
    BY <1>2, <1>6
  <2>2. nbr \in Neighbor
    BY <1>3, <2>1, NeighborFields, AddTrinityType DEF Neighbor
  <2>3. HasIP(nbr, ip)
    BY <1>3, <2>1 DEF HasIP, AddTrinity, Neighbor
  <2>4. result = [s EXCEPT !.nbrs = n]
    BY <1>4, <1>6
  <2>5. n \in Seq(Neighbor) /\ posMac \in DOMAIN n /\ n[posMac] = nbr
    <3> HIDE DEF nbr
    <3> QED BY <2>1, <2>2
  <2> HIDE DEF n, nbr
  <2> QED BY <2>3, <2>4, <2>5 DEF result
<1>7. CASE posIp # 0 /\ posMac # 0 /\ posIp = posMac
  <2>1. result = [s EXCEPT !.nbrs = s.nbrs]
    BY <1>4, <1>7
  <2> QED BY <1>1, <1>7, <2>1 DEF result
<1>8. CASE posIp # 0 /\ posMac # 0 /\ posIp # posMac
  <2> DEFINE moved == s.nbrs[posMac]
             kept == [pairs |-> s.nbrs[posIp].pairs \union AddTrinity(moved.pairs, t),
                      vq |-> s.nbrs[posIp].vq \o moved.vq]
             n == RemoveAt([s.nbrs EXCEPT ![posIp] = kept], posMac)
  <2>1. s.nbrs[posIp] \in Neighbor /\ moved \in Neighbor
    BY <1>1, <1>2, <1>8
  <2>2. kept \in Neighbor
    <3>1. s.nbrs[posIp].pairs \union AddTrinity(moved.pairs, t) \in (SUBSET Trinity) \ {{}}
      BY <1>3, <2>1, NeighborFields, AddTrinityType
    <3>2. s.nbrs[posIp].vq \o moved.vq \in Seq(Entry)
      BY <2>1, NeighborFields, ConcatProperties
    <3> QED BY <3>1, <3>2 DEF Neighbor
  <2>3. HasIP(kept, ip)
    BY <1>1, <1>8 DEF HasIP
  <2>4. result = [s EXCEPT !.nbrs = n] \/ result = Abort(s, "DuplicateVirtual")
    BY <1>4, <1>8 DEF Merge
  <2> HIDE DEF kept, moved
  <2>5. n \in Seq(Neighbor) /\ \E i \in DOMAIN n : n[i] = kept
    BY <1>1, <1>2, <1>8, <2>2, MergeType
  <2> HIDE DEF n
  <2> QED BY <2>3, <2>4, <2>5 DEF result
<1>9. CASE posIp = 0 /\ posMac = 0
  <2> DEFINE nbr == [pairs |-> {t}, vq |-> <<>>]
             n == AddNeighbor(s.nbrs, nbr)
  <2>1. nbr \in Neighbor /\ HasIP(nbr, ip)
    BY <1>3 DEF Neighbor, HasIP
  <2>2. result = IF n = s.nbrs THEN Abort(s, "NewNeighbor") ELSE [s EXCEPT !.nbrs = n]
    BY <1>4, <1>9
  <2> HIDE DEF nbr
  <2>3. n \in Seq(Neighbor) /\ (n # s.nbrs => \E i \in DOMAIN n : n[i] = nbr)
    BY <2>1, AddNeighborType
  <2> HIDE DEF n
  <2> QED BY <2>1, <2>2, <2>3 DEF result
<1> QED BY <1>5, <1>6, <1>7, <1>8, <1>9

-------------------------------------------------------------------------------
(* What queues hold                                                        *)

\* The ids of a queue are those of its entries.
LEMMA IdsOfRange == ASSUME NEW q PROVE Ids(q) = {e.id : e \in Range(q)}
BY DEF Ids, Range

\* In a queue without duplicates an id names one entry.
LEMMA DistinctEntries ==
  ASSUME NEW q, Distinct(q), NEW a \in Range(q), NEW b \in Range(q), a.id = b.id
  PROVE  a = b
BY DEF Distinct, Range

\* Dequeue takes its result out and leaves everything else.
LEMMA TailRange ==
  ASSUME NEW S, NEW q \in Seq(S), q # <<>>, Distinct(q)
  PROVE  /\ Tail(q) \in Seq(S) /\ Distinct(Tail(q))
         /\ Head(q) \in Range(q) /\ Head(q) \in S
         /\ Range(Tail(q)) = Range(q) \ {Head(q)}
<1>1. /\ Tail(q) \in Seq(S)
      /\ Len(Tail(q)) = Len(q) - 1
      /\ \A i \in 1..Len(q) - 1 : Tail(q)[i] = q[i + 1]
      /\ Head(q) \in S /\ Head(q) = q[1] /\ Len(q) > 0
  BY HeadTailProperties, EmptySeq
<1>2. \A i, j \in 1..Len(q) : q[i].id = q[j].id => i = j
  BY DEF Distinct
<1>3. Distinct(Tail(q))
  <2>1. ASSUME NEW i \in 1..Len(q) - 1, NEW j \in 1..Len(q) - 1,
               Tail(q)[i].id = Tail(q)[j].id
        PROVE  i = j
    <3>1. q[i + 1].id = q[j + 1].id /\ i + 1 \in 1..Len(q) /\ j + 1 \in 1..Len(q)
      BY <1>1, <2>1
    <3>2. i + 1 = j + 1
      BY <1>2, <3>1
    <3> QED BY <3>2
  <2> QED BY <1>1, <2>1 DEF Distinct
<1>4. 1 \in DOMAIN q /\ DOMAIN q = 1..Len(q) /\ DOMAIN Tail(q) = 1..Len(q) - 1
  BY <1>1
<1>5. ASSUME NEW e \in Range(Tail(q)) PROVE e \in Range(q) /\ e # Head(q)
  <2>1. PICK i \in 1..Len(q) - 1 : e = Tail(q)[i]
    BY <1>4 DEF Range
  <2>2. e = q[i + 1] /\ i + 1 \in 1..Len(q) /\ i + 1 # 1
    BY <1>1, <2>1
  <2>3. q[i + 1].id # q[1].id
    BY <1>2, <1>4, <2>2
  <2> QED BY <1>1, <1>4, <2>2, <2>3 DEF Range
<1>6. ASSUME NEW e \in Range(q), e # Head(q) PROVE e \in Range(Tail(q))
  <2>1. PICK i \in 1..Len(q) : e = q[i]
    BY <1>4 DEF Range
  <2>2. i - 1 \in 1..Len(q) - 1 /\ (i - 1) + 1 = i
    BY <1>1, <1>6, <2>1
  <2>3. Tail(q)[i - 1] = e
    BY <1>1, <2>1, <2>2
  <2> QED BY <1>4, <2>2, <2>3 DEF Range
<1>7. Head(q) \in Range(q)
  BY <1>1, <1>4 DEF Range
<1> QED BY <1>1, <1>3, <1>5, <1>6, <1>7

\* Erase takes out the entry with the id and leaves everything else.
LEMMA EraseRange ==
  ASSUME NEW S, NEW q \in Seq(S), Distinct(q), NEW e \in Range(q)
  PROVE  /\ Erase(q, e.id) \in Seq(S) /\ Distinct(Erase(q, e.id))
         /\ Range(Erase(q, e.id)) = Range(q) \ {e}
<1> DEFINE k == PositionOf(q, e.id)  p == RemoveAt(q, k)
<1>1. e.id \in Ids(q)
  BY IdsOfRange
<1>2. k \in 1..Len(q) /\ q[k].id = e.id
  BY <1>1, PositionOfProperties
<1> HIDE DEF k
<1>3. /\ p \in Seq(S)
      /\ Len(p) = Len(q) - 1
      /\ \A j \in 1..Len(q) - 1 : p[j] = IF j < k THEN q[j] ELSE q[j + 1]
  BY <1>2, RemoveAtProperties
<1> HIDE DEF p
<1>4. \A i, j \in 1..Len(q) : q[i].id = q[j].id => i = j
  BY DEF Distinct
<1>5. q[k] = e
  <2>1. PICK i \in 1..Len(q) : e = q[i]
    BY DEF Range
  <2> QED BY <1>2, <1>4, <2>1
<1> DEFINE old(x) == IF x < k THEN x ELSE x + 1
<1>6. \A j \in 1..Len(q) - 1 : old(j) \in 1..Len(q) /\ old(j) # k /\ p[j] = q[old(j)]
  BY <1>2, <1>3
<1>7. \A i, j \in 1..Len(q) - 1 : old(i) = old(j) => i = j
  BY <1>2
<1>8. ASSUME NEW i \in 1..Len(q), i # k PROVE \E j \in 1..Len(q) - 1 : old(j) = i
  <2>1. CASE i < k
    <3>1. i \in 1..Len(q) - 1 /\ old(i) = i
      BY <1>2, <2>1
    <3> QED BY <3>1
  <2>2. CASE i > k
    <3>1. i - 1 \in 1..Len(q) - 1 /\ old(i - 1) = i
      BY <1>2, <2>2
    <3> QED BY <3>1
  <2> QED BY <1>2, <1>8, <2>1, <2>2
<1> HIDE DEF old
<1>9. DOMAIN p = 1..Len(q) - 1 /\ DOMAIN q = 1..Len(q)
  BY <1>3
<1>10. Distinct(p)
  BY <1>4, <1>6, <1>7, <1>9 DEF Distinct
<1>11. ASSUME NEW x \in Range(p) PROVE x \in Range(q) /\ x # e
  <2>1. PICK j \in 1..Len(q) - 1 : x = p[j]
    BY <1>9 DEF Range
  <2>2. x = q[old(j)] /\ old(j) \in 1..Len(q) /\ old(j) # k
    BY <1>6, <2>1
  <2>3. q[old(j)].id # q[k].id
    BY <1>2, <1>4, <2>2
  <2> QED BY <1>5, <1>9, <2>2, <2>3 DEF Range
<1>12. ASSUME NEW x \in Range(q), x # e PROVE x \in Range(p)
  <2>1. PICK i \in 1..Len(q) : x = q[i]
    BY <1>9 DEF Range
  <2>2. i # k
    BY <1>5, <1>12, <2>1
  <2>3. PICK j \in 1..Len(q) - 1 : old(j) = i
    BY <1>8, <2>2
  <2> QED BY <1>6, <1>9, <2>1, <2>3 DEF Range
<1> QED BY <1>1, <1>3, <1>10, <1>11, <1>12 DEF Erase, p, k

\* A queue put behind another one with other ids.
LEMMA ConcatRange ==
  ASSUME NEW S, NEW p \in Seq(S), NEW q \in Seq(S), Distinct(p), Distinct(q),
         Ids(p) \intersect Ids(q) = {}
  PROVE  /\ p \o q \in Seq(S) /\ Distinct(p \o q)
         /\ Range(p \o q) = Range(p) \union Range(q)
<1> DEFINE r == p \o q
<1>1. /\ r \in Seq(S) /\ Len(r) = Len(p) + Len(q)
      /\ \A i \in 1..Len(p) + Len(q) : r[i] = IF i <= Len(p) THEN p[i] ELSE q[i - Len(p)]
  BY ConcatProperties
<1> HIDE DEF r
<1>2. /\ DOMAIN r = 1..Len(p) + Len(q) /\ DOMAIN p = 1..Len(p) /\ DOMAIN q = 1..Len(q)
      /\ Len(p) \in Nat /\ Len(q) \in Nat
  BY <1>1
<1>3. \A i \in 1..Len(p), j \in 1..Len(q) : p[i].id # q[j].id
  BY <1>2 DEF Ids
<1>4. \A i, j \in 1..Len(p) : p[i].id = p[j].id => i = j
  BY DEF Distinct
<1>5. \A i, j \in 1..Len(q) : q[i].id = q[j].id => i = j
  BY DEF Distinct
<1>6. ASSUME NEW i \in DOMAIN r, NEW j \in DOMAIN r, r[i].id = r[j].id PROVE i = j
  <2>1. CASE i <= Len(p) /\ j <= Len(p)
    BY <1>1, <1>2, <1>4, <1>6, <2>1
  <2>2. CASE i <= Len(p) /\ ~(j <= Len(p))
    <3>1. i \in 1..Len(p) /\ j - Len(p) \in 1..Len(q)
      BY <1>2, <2>2
    <3>2. r[i] = p[i] /\ r[j] = q[j - Len(p)]
      BY <1>1, <1>2, <2>2
    <3> QED BY <1>3, <1>6, <3>1, <3>2
  <2>3. CASE ~(i <= Len(p)) /\ j <= Len(p)
    <3>1. j \in 1..Len(p) /\ i - Len(p) \in 1..Len(q)
      BY <1>2, <2>3
    <3>2. r[j] = p[j] /\ r[i] = q[i - Len(p)]
      BY <1>1, <1>2, <2>3
    <3> QED BY <1>3, <1>6, <3>1, <3>2
  <2>4. CASE ~(i <= Len(p)) /\ ~(j <= Len(p))
    <3>1. i - Len(p) \in 1..Len(q) /\ j - Len(p) \in 1..Len(q)
      BY <1>2, <2>4
    <3>2. r[i] = q[i - Len(p)] /\ r[j] = q[j - Len(p)]
      BY <1>1, <1>2, <2>4
    <3>3. i - Len(p) = j - Len(p)
      BY <1>5, <1>6, <3>1, <3>2
    <3> QED BY <1>2, <3>3
  <2> QED BY <2>1, <2>2, <2>3, <2>4
<1>7. ASSUME NEW i \in 1..Len(p) PROVE p[i] \in Range(r)
  <2>1. i \in DOMAIN r /\ r[i] = p[i]
    BY <1>1, <1>2
  <2> QED BY <2>1 DEF Range
<1>8. ASSUME NEW i \in 1..Len(q) PROVE q[i] \in Range(r)
  <2>1. Len(p) + i \in DOMAIN r /\ ~(Len(p) + i <= Len(p)) /\ Len(p) + i - Len(p) = i
    BY <1>2
  <2>2. r[Len(p) + i] = q[i]
    BY <1>1, <1>2, <2>1
  <2> QED BY <2>1, <2>2 DEF Range
<1>9. ASSUME NEW i \in DOMAIN r PROVE r[i] \in Range(p) \union Range(q)
  <2>1. i <= Len(p) => i \in 1..Len(p) /\ r[i] = p[i]
    BY <1>1, <1>2
  <2>2. ~(i <= Len(p)) => i - Len(p) \in 1..Len(q) /\ r[i] = q[i - Len(p)]
    BY <1>1, <1>2
  <2> QED BY <1>2, <2>1, <2>2 DEF Range
<1>10. Range(r) = Range(p) \union Range(q)
  <2>1. Range(r) \subseteq Range(p) \union Range(q)
    BY <1>9 DEF Range
  <2>2. Range(p) \subseteq Range(r)
    BY <1>2, <1>7 DEF Range
  <2>3. Range(q) \subseteq Range(r)
    BY <1>2, <1>8 DEF Range
  <2> QED BY <2>1, <2>2, <2>3
<1>11. Distinct(r)
  BY <1>6 DEF Distinct
<1> QED BY <1>1, <1>10, <1>11 DEF r

\* A new entry at either end.
LEMMA OneMoreRange ==
  ASSUME NEW S, NEW q \in Seq(S), Distinct(q), NEW e \in S, e.id \notin Ids(q)
  PROVE  /\ Append(q, e) \in Seq(S) /\ Distinct(Append(q, e))
         /\ Range(Append(q, e)) = Range(q) \union {e}
         /\ <<e>> \o q \in Seq(S) /\ Distinct(<<e>> \o q)
         /\ Range(<<e>> \o q) = Range(q) \union {e}
<1> DEFINE p == <<e>>
<1>1. p \in Seq(S) /\ Distinct(p) /\ Range(p) = {e} /\ Ids(p) = {e.id}
  BY DEF Distinct, Range, Ids
<1>2. Append(q, e) = q \o p
  OBVIOUS
<1> HIDE DEF p
<1>3. Ids(p) \intersect Ids(q) = {} /\ Ids(q) \intersect Ids(p) = {}
  BY <1>1
<1>4. /\ q \o p \in Seq(S) /\ Distinct(q \o p)
      /\ Range(q \o p) = Range(q) \union Range(p)
  BY <1>1, <1>3, ConcatRange
<1>5. /\ p \o q \in Seq(S) /\ Distinct(p \o q)
      /\ Range(p \o q) = Range(p) \union Range(q)
  BY <1>1, <1>3, ConcatRange
<1>6. Range(p) \union Range(q) = Range(q) \union {e}
  BY <1>1
<1> QED BY <1>1, <1>2, <1>4, <1>5, <1>6 DEF p

-------------------------------------------------------------------------------
(* The directory and its virtual queues.  W are the entries of the output  *)
(* queue that wait for a next hop.                                         *)

\* Two records of different neighbours.
Apart(nbr1, nbr2) ==
  ~ShareAddress(nbr1, nbr2) /\ Ids(nbr1.vq) \intersect Ids(nbr2.vq) = {}

\* Radios on channels that exist.
OnAir(pairs) == \A t \in pairs : t.channel \in Channels

\* A virtual queue points to waiting entries, once to each, and radios are
\* on channels that somebody uses.
Sound(nbr, W) ==
  Distinct(nbr.vq) /\ Range(nbr.vq) \subseteq W /\ OnAir(nbr.pairs)

Linked(nbrs, W) ==
  /\ \A i \in DOMAIN nbrs : Sound(nbrs[i], W)
  /\ \A i, j \in DOMAIN nbrs : i # j => Apart(nbrs[i], nbrs[j])

\* Waiting entries have different ids.
Identified(W) == \A a, b \in W : a.id = b.id => a = b

\* It does not matter which record is asked.
LEMMA ApartSymmetric ==
  ASSUME NEW nbr1, NEW nbr2, Apart(nbr1, nbr2)
  PROVE  Apart(nbr2, nbr1)
BY DEF Apart, ShareAddress, HasMac, HasIP

\* One record changes.
LEMMA ExceptLinked ==
  ASSUME NEW W, NEW V, NEW nbrs \in Seq(Neighbor), NEW i \in DOMAIN nbrs, NEW nbr \in Neighbor,
         Linked(nbrs, W), Sound(nbr, V),
         \A j \in DOMAIN nbrs : j # i => Apart(nbr, nbrs[j]) /\ Range(nbrs[j].vq) \subseteq V
  PROVE  Linked([nbrs EXCEPT ![i] = nbr], V)
<1> DEFINE q == [nbrs EXCEPT ![i] = nbr]
<1>1. /\ DOMAIN q = DOMAIN nbrs /\ q[i] = nbr
      /\ \A j \in DOMAIN nbrs : j # i => q[j] = nbrs[j]
  OBVIOUS
<1> HIDE DEF q
<1>2. \A j \in DOMAIN nbrs : j # i => Sound(nbrs[j], V)
  BY DEF Linked, Sound
<1>3. \A j \in DOMAIN nbrs : Sound(q[j], V)
  BY <1>1, <1>2
<1>4. ASSUME NEW j \in DOMAIN nbrs, NEW k \in DOMAIN nbrs, j # k PROVE Apart(q[j], q[k])
  <2>1. CASE j = i
    BY <1>1, <1>4, <2>1
  <2>2. CASE k = i
    BY <1>1, <1>4, <2>2, ApartSymmetric
  <2>3. CASE j # i /\ k # i
    BY <1>1, <1>4, <2>3 DEF Linked
  <2> QED BY <2>1, <2>2, <2>3
<1>5. Linked(q, V)
  BY <1>1, <1>3, <1>4 DEF Linked
<1> QED BY <1>5 DEF q

\* A record is added.
LEMMA AppendLinked ==
  ASSUME NEW W, NEW V, W \subseteq V, NEW nbrs \in Seq(Neighbor), NEW nbr \in Neighbor,
         Linked(nbrs, W), Sound(nbr, V),
         \A j \in DOMAIN nbrs : Apart(nbr, nbrs[j])
  PROVE  Linked(Append(nbrs, nbr), V)
<1> DEFINE q == Append(nbrs, nbr)
<1>1. /\ DOMAIN q = 1..Len(nbrs) + 1 /\ q[Len(nbrs) + 1] = nbr
      /\ \A j \in 1..Len(nbrs) : q[j] = nbrs[j]
      /\ DOMAIN nbrs = 1..Len(nbrs) /\ Len(nbrs) \in Nat
  BY AppendProperties
<1> HIDE DEF q
<1>2. \A j \in DOMAIN q : j # Len(nbrs) + 1 => j \in DOMAIN nbrs /\ q[j] = nbrs[j]
  BY <1>1
<1>3. \A j \in DOMAIN q : Sound(q[j], V)
  BY <1>1, <1>2 DEF Linked, Sound
<1>4. ASSUME NEW j \in DOMAIN q, NEW k \in DOMAIN q, j # k PROVE Apart(q[j], q[k])
  <2>1. CASE j = Len(nbrs) + 1
    BY <1>1, <1>2, <1>4, <2>1
  <2>2. CASE k = Len(nbrs) + 1
    BY <1>1, <1>2, <1>4, <2>2, ApartSymmetric
  <2>3. CASE j # Len(nbrs) + 1 /\ k # Len(nbrs) + 1
    BY <1>2, <1>4, <2>3 DEF Linked
  <2> QED BY <2>1, <2>2, <2>3
<1>5. Linked(q, V)
  BY <1>3, <1>4 DEF Linked
<1> QED BY <1>5 DEF q

\* p is q without what is at position i: old says where its elements were.
Relocates(old, p, q, i) ==
  /\ old \in [DOMAIN p -> DOMAIN q \ {i}]
  /\ \A j \in DOMAIN p : p[j] = q[old[j]]
  /\ \A j, k \in DOMAIN p : old[j] = old[k] => j = k
  /\ \A k \in DOMAIN q \ {i} : \E j \in DOMAIN p : old[j] = k

\* Where the records go when one is removed.
LEMMA RemoveAtRecords ==
  ASSUME NEW S, NEW nbrs \in Seq(S), NEW i \in DOMAIN nbrs
  PROVE  /\ RemoveAt(nbrs, i) \in Seq(S)
         /\ \E old : Relocates(old, RemoveAt(nbrs, i), nbrs, i)
<1> DEFINE q == RemoveAt(nbrs, i)
<1>1. /\ q \in Seq(S)
      /\ Len(q) = Len(nbrs) - 1
      /\ \A j \in 1..Len(nbrs) - 1 : q[j] = IF j < i THEN nbrs[j] ELSE nbrs[j + 1]
  BY RemoveAtProperties
<1> HIDE DEF q
<1>2. /\ DOMAIN q = 1..Len(nbrs) - 1 /\ DOMAIN nbrs = 1..Len(nbrs) /\ Len(nbrs) \in Nat
      /\ i \in 1..Len(nbrs)
  BY <1>1
<1> DEFINE old == [j \in DOMAIN q |-> IF j < i THEN j ELSE j + 1]
<1>3. old \in [DOMAIN q -> DOMAIN nbrs \ {i}]
  BY <1>2
<1>4. \A j \in DOMAIN q : q[j] = nbrs[old[j]]
  BY <1>1, <1>2
<1>5. \A j, k \in DOMAIN q : old[j] = old[k] => j = k
  BY <1>2
<1>6. ASSUME NEW k \in DOMAIN nbrs \ {i} PROVE \E j \in DOMAIN q : old[j] = k
  <2>1. CASE k < i
    <3>1. k \in DOMAIN q /\ old[k] = k
      BY <1>2, <2>1
    <3> QED BY <3>1
  <2>2. CASE k > i
    <3>1. k - 1 \in DOMAIN q /\ old[k - 1] = k
      BY <1>2, <2>2
    <3> QED BY <3>1
  <2> QED BY <1>2, <1>6, <2>1, <2>2
<1> HIDE DEF old
<1>7. Relocates(old, q, nbrs, i)
  BY <1>3, <1>4, <1>5, <1>6 DEF Relocates
<1> QED BY <1>1, <1>7 DEF q

\* A record is removed; what its virtual queue points to may be gone.
LEMMA RemoveLinked ==
  ASSUME NEW W, NEW nbrs \in Seq(Neighbor), NEW i \in DOMAIN nbrs, Linked(nbrs, W)
  PROVE  Linked(RemoveAt(nbrs, i), W)
<1> DEFINE q == RemoveAt(nbrs, i)
<1>1. PICK old : Relocates(old, q, nbrs, i)
  BY RemoveAtRecords
<1> HIDE DEF q
<1>2. \A j \in DOMAIN q : old[j] \in DOMAIN nbrs
  BY <1>1 DEF Relocates
<1>3. Linked(q, W)
  BY <1>1, <1>2 DEF Linked, Relocates
<1> QED BY <1>3 DEF q

\* The record at b is folded into the one at a, which becomes kept.
Folded(nbrs, a, b, kept) == RemoveAt([nbrs EXCEPT ![a] = kept], b)

\* Two records become one.
LEMMA MergeLinked ==
  ASSUME NEW W, NEW nbrs \in Seq(Neighbor), NEW a \in DOMAIN nbrs, NEW b \in DOMAIN nbrs,
         a # b, NEW kept \in Neighbor, Linked(nbrs, W), Sound(kept, W),
         \A j \in DOMAIN nbrs : j # a /\ j # b => Apart(kept, nbrs[j])
  PROVE  LET n == Folded(nbrs, a, b, kept)
         IN  /\ n \in Seq(Neighbor)
             /\ Linked(n, W)
             /\ \E k \in DOMAIN n : n[k] = kept
             /\ \A j \in DOMAIN nbrs : j # a /\ j # b => \E k \in DOMAIN n : n[k] = nbrs[j]
             /\ \A k \in DOMAIN n : n[k] = kept \/ \E j \in DOMAIN nbrs : n[k] = nbrs[j]
<1> DEFINE q == [nbrs EXCEPT ![a] = kept]
           n == RemoveAt(q, b)
<1>1. /\ q \in Seq(Neighbor) /\ DOMAIN q = DOMAIN nbrs /\ q[a] = kept
      /\ \A j \in DOMAIN nbrs : j # a => q[j] = nbrs[j]
  BY ExceptSeq
<1> HIDE DEF q
<1>2. n \in Seq(Neighbor)
  BY <1>1, RemoveAtRecords
<1>3. PICK old : Relocates(old, n, q, b)
  BY <1>1, RemoveAtRecords
<1> HIDE DEF n
<1>4. \A j \in DOMAIN n : old[j] \in DOMAIN nbrs /\ old[j] # b
  BY <1>1, <1>3 DEF Relocates
<1>5. \A j \in DOMAIN n : Sound(n[j], W)
  BY <1>1, <1>3, <1>4 DEF Linked, Relocates
<1>6. ASSUME NEW j \in DOMAIN n, NEW k \in DOMAIN n, j # k PROVE Apart(n[j], n[k])
  <2>1. old[j] # old[k]
    BY <1>3, <1>6 DEF Relocates
  <2>2. CASE old[j] = a
    BY <1>1, <1>3, <1>4, <2>1, <2>2 DEF Relocates
  <2>3. CASE old[k] = a
    BY <1>1, <1>3, <1>4, <2>1, <2>3, ApartSymmetric DEF Relocates
  <2>4. CASE old[j] # a /\ old[k] # a
    BY <1>1, <1>3, <1>4, <2>1, <2>4 DEF Linked, Relocates
  <2> QED BY <2>2, <2>3, <2>4
<1>7. Linked(n, W)
  BY <1>5, <1>6 DEF Linked
<1>8. \E k \in DOMAIN n : n[k] = kept
  BY <1>1, <1>3 DEF Relocates
<1>9. \A j \in DOMAIN nbrs : j # a /\ j # b => \E k \in DOMAIN n : n[k] = nbrs[j]
  BY <1>1, <1>3 DEF Relocates
<1>10. \A k \in DOMAIN n : n[k] = kept \/ \E j \in DOMAIN nbrs : n[k] = nbrs[j]
  BY <1>1, <1>3, <1>4 DEF Relocates
<1> QED BY <1>2, <1>7, <1>8, <1>9, <1>10 DEF n, q, Folded

-------------------------------------------------------------------------------
(* What a well configured network adds: a record describes one node, its   *)
(* virtual queue holds packets for radios it lists, no waiting packet is   *)
(* left out and no MAC of M is forgotten.                                  *)

\* A record of node n.
IsOf(nbr, n) ==
  /\ HasIP(nbr, NodeIP(n))
  /\ \A t \in nbr.pairs : t.mac \in Macs(n) /\ t.ip \in IPs(n) \union {NoIP}

\* A record of a next hop nothing was heard of.
IsLone(nbr) == \E t \in Trinity : t.ip = NoIP /\ nbr.pairs = {t}

Plausible(nbr) == IsLone(nbr) \/ \E n \in Node : IsOf(nbr, n)

Owns(nbr) == \A e \in Range(nbr.vq) : HasMac(nbr, e.dest)

Remembers(nbrs, mac) == \E i \in DOMAIN nbrs : HasMac(nbrs[i], mac)

Complete(nbrs, W, M) ==
  /\ \A i \in DOMAIN nbrs : Plausible(nbrs[i]) /\ Owns(nbrs[i])
  /\ \A e \in W : \E i \in DOMAIN nbrs : e \in Range(nbrs[i].vq)
  /\ \A mac \in M : Remembers(nbrs, mac)

\* A node has a smallest IP.
LEMMA NodeIPType ==
  ASSUME NEW n \in Node
  PROVE  NodeIP(n) \in Nat /\ NodeIP(n) \in IPs(n)
<1>1. RadiosOf[n] \in Seq(Trinity) /\ RadiosOf[n] # <<>>
  BY RadiosAssumption
<1>2. \A d \in Devices(n) : RadiosOf[n][d].ip \in Nat
  <2>1. \A d \in Devices(n) : RadiosOf[n][d] \in Trinity
    BY <1>1 DEF Devices
  <2> QED BY <2>1 DEF Trinity
<1>3. 1 \in Devices(n)
  BY <1>1 DEF Devices
<1>4. IPs(n) \in SUBSET Nat /\ IPs(n) # {}
  BY <1>2, <1>3 DEF IPs
<1> QED BY <1>4, MinExists DEF NodeIP

\* A record with a MAC of node n is one of node n or of a lone MAC.
LEMMA RecordWithMac ==
  ASSUME WellConfigured, NEW nbr, Plausible(nbr), NEW n \in Node, NEW mac \in Macs(n),
         HasMac(nbr, mac)
  PROVE  IsOf(nbr, n) \/ \E t \in Trinity : t.ip = NoIP /\ t.mac = mac /\ nbr.pairs = {t}
<1>1. CASE IsLone(nbr)
  BY <1>1 DEF IsLone, HasMac
<1>2. ASSUME NEW m \in Node, IsOf(nbr, m) PROVE IsOf(nbr, n)
  <2>1. mac \in Macs(m)
    BY <1>2 DEF IsOf, HasMac
  <2>2. m = n
    BY <2>1 DEF WellConfigured
  <2> QED BY <1>2, <2>2
<1> QED BY <1>1, <1>2 DEF Plausible

\* A record with an IP of node n is one of node n.
LEMMA RecordWithIP ==
  ASSUME WellConfigured, NEW nbr, Plausible(nbr), NEW n \in Node, NEW ip \in IPs(n),
         HasIP(nbr, ip)
  PROVE  IsOf(nbr, n)
<1>1. ip # NoIP
  BY DEF WellConfigured
<1>2. ~IsLone(nbr)
  BY <1>1 DEF IsLone, HasIP
<1>3. PICK m \in Node : IsOf(nbr, m)
  BY <1>2 DEF Plausible
<1>4. ip \in IPs(m)
  BY <1>1, <1>3 DEF IsOf, HasIP
<1>5. m = n
  BY <1>4 DEF WellConfigured
<1> QED BY <1>3, <1>5

-------------------------------------------------------------------------------
(* Learning from a data frame                                              *)

\* A record that gets other radios, none of which another record lists.
LEMMA RetagLinked ==
  ASSUME NEW W, NEW nbrs \in Seq(Neighbor), NEW i \in DOMAIN nbrs, NEW nbr \in Neighbor,
         Linked(nbrs, W), nbr.vq = nbrs[i].vq, OnAir(nbr.pairs),
         \A j \in DOMAIN nbrs : j # i => ~ShareAddress(nbr, nbrs[j])
  PROVE  Linked([nbrs EXCEPT ![i] = nbr], W)
<1>1. Sound(nbr, W)
  BY DEF Linked, Sound
<1>2. \A j \in DOMAIN nbrs : j # i => Apart(nbr, nbrs[j]) /\ Range(nbrs[j].vq) \subseteq W
  BY DEF Linked, Apart, Sound
<1> QED BY <1>1, <1>2, ExceptLinked

\* If it keeps its MACs, nothing is forgotten.
LEMMA RetagComplete ==
  ASSUME NEW W, NEW M, NEW nbrs \in Seq(Neighbor), NEW i \in DOMAIN nbrs, NEW nbr \in Neighbor,
         Complete(nbrs, W, M), nbr.vq = nbrs[i].vq, Plausible(nbr),
         \A mac : HasMac(nbrs[i], mac) => HasMac(nbr, mac)
  PROVE  Complete([nbrs EXCEPT ![i] = nbr], W, M)
<1> DEFINE q == [nbrs EXCEPT ![i] = nbr]
<1>1. /\ DOMAIN q = DOMAIN nbrs /\ q[i] = nbr
      /\ \A j \in DOMAIN nbrs : j # i => q[j] = nbrs[j]
  OBVIOUS
<1> HIDE DEF q
<1>2. \A j \in DOMAIN q : q[j].vq = nbrs[j].vq
  BY <1>1
<1>3. \A j \in DOMAIN q : \A mac : HasMac(nbrs[j], mac) => HasMac(q[j], mac)
  BY <1>1
<1>4. \A j \in DOMAIN q : Plausible(q[j]) /\ Owns(q[j])
  BY <1>1, <1>2, <1>3 DEF Complete, Owns
<1>5. \A e \in W : \E j \in DOMAIN q : e \in Range(q[j].vq)
  BY <1>1, <1>2 DEF Complete
<1>6. \A mac \in M : Remembers(q, mac)
  BY <1>1, <1>3 DEF Complete, Remembers
<1>7. Complete(q, W, M)
  BY <1>4, <1>5, <1>6 DEF Complete
<1> QED BY <1>7 DEF q

\* The sender is known by its IP: the record with that IP gets the radio.
LEMMA SoftLinked ==
  ASSUME NEW W, NEW nbrs \in Seq(Neighbor), NEW i \in DOMAIN nbrs, NEW t \in Trinity,
         Linked(nbrs, W), HasIP(nbrs[i], t.ip), t.channel \in Channels,
         \A j \in DOMAIN nbrs : ~HasMac(nbrs[j], t.mac)
  PROVE  LET nbr == [nbrs[i] EXCEPT !.pairs = AddSoftTrinity(@, t)]
             n == [nbrs EXCEPT ![i] = nbr]
         IN  /\ n \in Seq(Neighbor) /\ Linked(n, W)
             /\ \E j \in DOMAIN n : HasIP(n[j], t.ip)
             /\ \A M : \A from \in Node :
                  WellConfigured /\ t.ip = NodeIP(from) /\ t.mac \in Macs(from)
                    /\ Complete(nbrs, W, M)
                    => Complete(n, W, M)
<1> DEFINE nbr == [nbrs[i] EXCEPT !.pairs = AddSoftTrinity(@, t)]
           n == [nbrs EXCEPT ![i] = nbr]
<1>1. nbrs[i] \in Neighbor /\ nbrs[i].pairs \in SUBSET Trinity
  BY NeighborFields
<1>2. /\ nbr \in Neighbor /\ nbr.vq = nbrs[i].vq /\ nbr.pairs = nbrs[i].pairs \union {t}
  BY <1>1, AddTrinityType, NeighborFields DEF Neighbor, AddSoftTrinity
<1> HIDE DEF nbr
<1>3. n \in Seq(Neighbor) /\ i \in DOMAIN n /\ n[i] = nbr
  BY <1>2, ExceptSeq
<1>4. HasIP(nbr, t.ip)
  BY <1>2 DEF HasIP
<1>5. Linked(n, W)
  <2>1. ASSUME NEW j \in DOMAIN nbrs, j # i PROVE ~ShareAddress(nbr, nbrs[j])
    <3>1. ~ShareAddress(nbrs[i], nbrs[j])
      BY <2>1 DEF Linked, Apart
    <3> QED BY <1>2, <3>1 DEF ShareAddress, HasIP, HasMac
  <2>2. OnAir(nbr.pairs)
    BY <1>2 DEF Linked, Sound, OnAir
  <2> QED BY <1>2, <2>1, <2>2, RetagLinked
<1>6. ASSUME NEW M, NEW from \in Node, WellConfigured, t.ip = NodeIP(from), t.mac \in Macs(from),
             Complete(nbrs, W, M)
      PROVE  Complete(n, W, M)
  <2>1. IsOf(nbrs[i], from)
    BY <1>6, NodeIPType, RecordWithIP DEF Complete
  <2>2. IsOf(nbr, from)
    BY <1>2, <1>6, <2>1, NodeIPType DEF IsOf, HasIP
  <2>3. Plausible(nbr)
    BY <2>2 DEF Plausible
  <2>4. \A mac : HasMac(nbrs[i], mac) => HasMac(nbr, mac)
    BY <1>2 DEF HasMac
  <2> QED BY <1>2, <1>6, <2>3, <2>4, RetagComplete
<1> HIDE DEF n
<1> QED BY <1>3, <1>4, <1>5, <1>6 DEF n, nbr

\* Only its MAC is known: the record with that MAC gets the address.
LEMMA HardLinked ==
  ASSUME NEW W, NEW nbrs \in Seq(Neighbor), NEW i \in DOMAIN nbrs, NEW t \in Trinity,
         Linked(nbrs, W), HasMac(nbrs[i], t.mac), t.channel \in Channels,
         \A j \in DOMAIN nbrs : ~HasIP(nbrs[j], t.ip)
  PROVE  LET nbr == [nbrs[i] EXCEPT !.pairs = AddTrinity(@, t)]
             n == [nbrs EXCEPT ![i] = nbr]
         IN  /\ n \in Seq(Neighbor) /\ Linked(n, W)
             /\ \E j \in DOMAIN n : HasIP(n[j], t.ip)
             /\ \A M : \A from \in Node :
                  WellConfigured /\ t.ip = NodeIP(from) /\ t.mac \in Macs(from)
                    /\ Complete(nbrs, W, M)
                    => Complete(n, W, M)
<1> DEFINE nbr == [nbrs[i] EXCEPT !.pairs = AddTrinity(@, t)]
           n == [nbrs EXCEPT ![i] = nbr]
<1>1. nbrs[i] \in Neighbor /\ nbrs[i].pairs \in SUBSET Trinity
  BY NeighborFields
<1>2. /\ nbr \in Neighbor /\ nbr.vq = nbrs[i].vq /\ nbr.pairs = AddTrinity(nbrs[i].pairs, t)
      /\ t \in nbr.pairs /\ nbr.pairs \subseteq nbrs[i].pairs \union {t}
  BY <1>1, AddTrinityType, NeighborFields DEF Neighbor, AddTrinity
<1> HIDE DEF nbr
<1>3. n \in Seq(Neighbor) /\ i \in DOMAIN n /\ n[i] = nbr
  BY <1>2, ExceptSeq
<1>4. HasIP(nbr, t.ip)
  BY <1>2 DEF HasIP
<1>5. Linked(n, W)
  <2>1. ASSUME NEW j \in DOMAIN nbrs, j # i PROVE ~ShareAddress(nbr, nbrs[j])
    <3>1. ~ShareAddress(nbrs[i], nbrs[j])
      BY <2>1 DEF Linked, Apart
    <3> QED BY <1>2, <3>1 DEF ShareAddress, HasIP, HasMac
  <2>2. OnAir(nbr.pairs)
    BY <1>2 DEF Linked, Sound, OnAir
  <2> QED BY <1>2, <2>1, <2>2, RetagLinked
<1>6. ASSUME NEW M, NEW from \in Node, WellConfigured, t.ip = NodeIP(from), t.mac \in Macs(from),
             Complete(nbrs, W, M)
      PROVE  Complete(n, W, M)
  <2>1. ~IsOf(nbrs[i], from)
    BY <1>6 DEF IsOf
  <2>2. PICK u \in Trinity : u.mac = t.mac /\ nbrs[i].pairs = {u}
    BY <1>6, <2>1, RecordWithMac DEF Complete
  <2>3. nbr.pairs = {t}
    BY <1>2, <2>2 DEF AddTrinity
  <2>4. IsOf(nbr, from)
    BY <1>6, <2>3, NodeIPType DEF IsOf, HasIP
  <2>5. Plausible(nbr)
    BY <2>4 DEF Plausible
  <2>6. \A mac : HasMac(nbrs[i], mac) => HasMac(nbr, mac)
    BY <2>2, <2>3 DEF HasMac
  <2> QED BY <1>2, <1>6, <2>5, <2>6, RetagComplete
<1> HIDE DEF n
<1> QED BY <1>3, <1>4, <1>5, <1>6 DEF n, nbr

\* Nothing is known: a record is added.
LEMMA NewLinked ==
  ASSUME NEW W, NEW V, W \subseteq V, NEW nbrs \in Seq(Neighbor),
         NEW t \in Trinity, NEW vq \in Seq(Entry),
         Linked(nbrs, W), Distinct(vq), Range(vq) \subseteq V, t.channel \in Channels,
         \A j \in DOMAIN nbrs : Ids(vq) \intersect Ids(nbrs[j].vq) = {},
         t.ip = NoIP \/ \A j \in DOMAIN nbrs : ~HasIP(nbrs[j], t.ip),
         \A j \in DOMAIN nbrs : ~HasMac(nbrs[j], t.mac)
  PROVE  LET nbr == [pairs |-> {t}, vq |-> vq]
             n == Append(nbrs, nbr)
         IN  /\ AddNeighbor(nbrs, nbr) = n /\ n # nbrs
             /\ n \in Seq(Neighbor) /\ Linked(n, V)
             /\ \E j \in DOMAIN n : HasIP(n[j], t.ip)
             /\ \A M : /\ WellConfigured /\ Complete(nbrs, W, M)
                       /\ \/ t.ip = NoIP
                          \/ \E from \in Node : t.ip = NodeIP(from) /\ t.mac \in Macs(from)
                       /\ V = W \union Range(vq)
                       /\ \A e \in Range(vq) : e.dest = t.mac
                    => Complete(n, V, M)
<1> DEFINE nbr == [pairs |-> {t}, vq |-> vq]
           n == Append(nbrs, nbr)
<1>1. nbr \in Neighbor /\ nbr.pairs = {t} /\ nbr.vq = vq
  BY DEF Neighbor
<1> HIDE DEF nbr
<1>2. \A j \in DOMAIN nbrs : ~ShareAddress(nbr, nbrs[j])
  BY <1>1 DEF ShareAddress
<1>3. AddNeighbor(nbrs, nbr) = n
  BY <1>2 DEF AddNeighbor
<1>4. /\ n \in Seq(Neighbor) /\ DOMAIN n = 1..Len(nbrs) + 1 /\ n[Len(nbrs) + 1] = nbr
      /\ \A j \in 1..Len(nbrs) : n[j] = nbrs[j]
      /\ DOMAIN nbrs = 1..Len(nbrs) /\ Len(nbrs) \in Nat /\ Len(n) = Len(nbrs) + 1
  BY <1>1, AppendProperties
<1>6. Linked(n, V)
  BY <1>1, <1>2, AppendLinked DEF Apart, Sound, OnAir
<1> HIDE DEF n
<1>5. n # nbrs
  <2>1. Len(n) = Len(nbrs) + 1 /\ Len(nbrs) \in Nat
    BY <1>4
  <2>2. Len(n) # Len(nbrs)
    BY ONLY <2>1
  <2> QED BY ONLY <2>2
<1>7. HasIP(nbr, t.ip) /\ Len(nbrs) + 1 \in DOMAIN n
  BY <1>1, <1>4 DEF HasIP
<1>8. ASSUME NEW M, WellConfigured, Complete(nbrs, W, M), V = W \union Range(vq),
             t.ip = NoIP \/ \E from \in Node : t.ip = NodeIP(from) /\ t.mac \in Macs(from),
             \A e \in Range(vq) : e.dest = t.mac
      PROVE  Complete(n, V, M)
  <2>1. Plausible(nbr)
    BY <1>1, <1>8, NodeIPType DEF Plausible, IsLone, IsOf, HasIP
  <2>2. Owns(nbr)
    BY <1>1, <1>8 DEF Owns, HasMac
  <2>3. \A j \in DOMAIN n : Plausible(n[j]) /\ Owns(n[j])
    BY <1>4, <1>8, <2>1, <2>2 DEF Complete
  <2>4. \A e \in V : \E j \in DOMAIN n : e \in Range(n[j].vq)
    <3>1. \A e \in W : \E j \in DOMAIN n : e \in Range(n[j].vq)
      BY <1>4, <1>8 DEF Complete
    <3>2. \A e \in Range(vq) : e \in Range(n[Len(nbrs) + 1].vq)
      BY <1>1, <1>4
    <3> QED BY <1>7, <1>8, <3>1, <3>2
  <2>5. \A mac \in M : Remembers(n, mac)
    BY <1>4, <1>8 DEF Complete, Remembers
  <2> QED BY <2>3, <2>4, <2>5 DEF Complete
<1> QED BY <1>3, <1>4, <1>5, <1>6, <1>7, <1>8 DEF n, nbr

\* What a data frame leaves behind.
Taught(old, new, t, W) ==
  /\ new \in Seq(Neighbor) /\ Linked(new, W)
  /\ \E j \in DOMAIN new : HasIP(new[j], t.ip)
  /\ \A M : \A from \in Node :
       WellConfigured /\ t.ip = NodeIP(from) /\ t.mac \in Macs(from) /\ Complete(old, W, M)
         => Complete(new, W, M)

\* Two records turn out to be one neighbour: the one known by its MAC is
\* folded into the one known by its IP.
LEMMA FoldLinked ==
  ASSUME NEW W, NEW nbrs \in Seq(Neighbor), NEW a \in DOMAIN nbrs, NEW b \in DOMAIN nbrs,
         a # b, NEW t \in Trinity, Linked(nbrs, W), HasIP(nbrs[a], t.ip), HasMac(nbrs[b], t.mac),
         t.channel \in Channels
  PROVE  LET kept == [pairs |-> nbrs[a].pairs \union AddTrinity(nbrs[b].pairs, t),
                      vq |-> nbrs[a].vq \o nbrs[b].vq]
         IN  Taught(nbrs, Folded(nbrs, a, b, kept), t, W)
<1> DEFINE kept == [pairs |-> nbrs[a].pairs \union AddTrinity(nbrs[b].pairs, t),
                    vq |-> nbrs[a].vq \o nbrs[b].vq]
           n == Folded(nbrs, a, b, kept)
<1>1. /\ nbrs[a] \in Neighbor /\ nbrs[a].pairs \in SUBSET Trinity /\ nbrs[a].vq \in Seq(Entry)
      /\ nbrs[b] \in Neighbor /\ nbrs[b].pairs \in SUBSET Trinity /\ nbrs[b].vq \in Seq(Entry)
  BY NeighborFields
<1>2. /\ Sound(nbrs[a], W) /\ Sound(nbrs[b], W)
      /\ Ids(nbrs[a].vq) \intersect Ids(nbrs[b].vq) = {}
  BY DEF Linked, Apart
<1>3. /\ kept.vq \in Seq(Entry) /\ Distinct(kept.vq)
      /\ Range(kept.vq) = Range(nbrs[a].vq) \union Range(nbrs[b].vq)
  BY <1>1, <1>2, ConcatRange DEF Sound
<1>4. /\ kept \in Neighbor
      /\ kept.pairs = nbrs[a].pairs \union AddTrinity(nbrs[b].pairs, t)
      /\ t \in kept.pairs /\ kept.pairs \subseteq nbrs[a].pairs \union nbrs[b].pairs \union {t}
  <2>1. kept.pairs \in (SUBSET Trinity) \ {{}}
    BY <1>1, AddTrinityType
  <2> QED BY <1>1, <1>3, <2>1, AddTrinityType DEF Neighbor, AddTrinity
<1> HIDE DEF kept
<1>5. Sound(kept, W)
  BY <1>2, <1>3, <1>4 DEF Sound, OnAir
<1>6. ASSUME NEW j \in DOMAIN nbrs, j # a, j # b PROVE Apart(kept, nbrs[j])
  <2>1. Apart(nbrs[a], nbrs[j]) /\ Apart(nbrs[b], nbrs[j])
    BY <1>6 DEF Linked
  <2>2. Ids(kept.vq) \intersect Ids(nbrs[j].vq) = {}
    BY <1>3, <2>1, IdsOfRange DEF Apart
  <2>3. ~(t.ip # NoIP /\ HasIP(nbrs[j], t.ip)) /\ ~HasMac(nbrs[j], t.mac)
    BY <2>1 DEF Apart, ShareAddress, HasIP, HasMac
  <2>4. ~ShareAddress(kept, nbrs[j])
    BY <1>4, <2>1, <2>3 DEF Apart, ShareAddress
  <2> QED BY <2>2, <2>4 DEF Apart
<1>7. /\ n \in Seq(Neighbor) /\ Linked(n, W)
      /\ \E k \in DOMAIN n : n[k] = kept
      /\ \A j \in DOMAIN nbrs : j # a /\ j # b => \E k \in DOMAIN n : n[k] = nbrs[j]
      /\ \A k \in DOMAIN n : n[k] = kept \/ \E j \in DOMAIN nbrs : n[k] = nbrs[j]
  <2>1. \A j \in DOMAIN nbrs : j # a /\ j # b => Apart(kept, nbrs[j])
    BY <1>6
  <2>2. kept \in Neighbor
    BY <1>4
  <2> QED BY <1>5, <2>1, <2>2, MergeLinked
<1> HIDE DEF n
<1>8. \E j \in DOMAIN n : HasIP(n[j], t.ip)
  BY <1>4, <1>7 DEF HasIP
<1>9. ASSUME NEW M, NEW from \in Node, WellConfigured, t.ip = NodeIP(from), t.mac \in Macs(from),
             Complete(nbrs, W, M)
      PROVE  Complete(n, W, M)
  <2>1. t.ip # NoIP /\ t.ip \in IPs(from)
    BY <1>9, NodeIPType DEF WellConfigured
  <2>2. IsOf(nbrs[a], from)
    BY <1>9, <2>1, RecordWithIP DEF Complete
  <2>3. ~IsOf(nbrs[b], from)
    <3>1. ~ShareAddress(nbrs[b], nbrs[a])
      BY DEF Linked, Apart
    <3> QED BY <1>9, <2>1, <3>1 DEF IsOf, HasIP, ShareAddress
  <2>4. PICK u \in Trinity : u.mac = t.mac /\ nbrs[b].pairs = {u}
    BY <1>9, <2>3, RecordWithMac DEF Complete
  <2>5. kept.pairs = nbrs[a].pairs \union {t}
    BY <1>4, <2>4 DEF AddTrinity
  <2>6. IsOf(kept, from)
    BY <1>9, <2>1, <2>2, <2>5 DEF IsOf, HasIP
  <2>7. Plausible(kept)
    BY <2>6 DEF Plausible
  <2>8. \A mac : HasMac(nbrs[a], mac) \/ HasMac(nbrs[b], mac) => HasMac(kept, mac)
    BY <2>4, <2>5 DEF HasMac
  <2>9. Owns(kept)
    BY <1>3, <1>9, <2>8 DEF Complete, Owns
  <2>10. \A k \in DOMAIN n : Plausible(n[k]) /\ Owns(n[k])
    BY <1>7, <1>9, <2>7, <2>9 DEF Complete
  <2>11. ASSUME NEW e \in W PROVE \E k \in DOMAIN n : e \in Range(n[k].vq)
    <3>1. PICK j \in DOMAIN nbrs : e \in Range(nbrs[j].vq)
      BY <1>9 DEF Complete
    <3> QED BY <1>3, <1>7, <3>1
  <2>12. ASSUME NEW mac \in M PROVE Remembers(n, mac)
    <3>1. PICK j \in DOMAIN nbrs : HasMac(nbrs[j], mac)
      BY <1>9 DEF Complete, Remembers
    <3> QED BY <1>7, <2>8, <3>1 DEF Remembers
  <2> QED BY <2>10, <2>11, <2>12 DEF Complete
<1> HIDE DEF kept
<1>10. Taught(nbrs, n, t, W)
  BY <1>7, <1>8, <1>9 DEF Taught
<1> QED BY <1>10 DEF n, kept

\* A data frame never runs into an assertion of the directory, keeps its
\* records apart and, in a well configured network, forgets nothing.
LEMMA SMNeighborsTaught ==
  ASSUME NEW W, NEW s, s.nbrs \in Seq(Neighbor), s = [x \in DOMAIN s |-> s[x]],
         "nbrs" \in DOMAIN s, Linked(s.nbrs, W), NEW t \in Trinity, t.channel \in Channels
  PROVE  \E n : /\ SMNeighbors(s, t.ip, t.mac, t.channel) = [s EXCEPT !.nbrs = n]
                /\ Taught(s.nbrs, n, t, W)
<1> DEFINE nbrs == s.nbrs
           a == SearchIP(nbrs, t.ip)
           b == SearchMac(nbrs, t.mac)
           fresh == [pairs |-> {t}, vq |-> <<>>]
           result == SMNeighbors(s, t.ip, t.mac, t.channel)
<1>1. t = [ip |-> t.ip, mac |-> t.mac, channel |-> t.channel]
  BY DEF Trinity
<1>2. /\ a # 0 => a \in DOMAIN nbrs /\ HasIP(nbrs[a], t.ip)
      /\ a = 0 => \A j \in DOMAIN nbrs : ~HasIP(nbrs[j], t.ip)
      /\ b # 0 => b \in DOMAIN nbrs /\ HasMac(nbrs[b], t.mac)
      /\ b = 0 => \A j \in DOMAIN nbrs : ~HasMac(nbrs[j], t.mac)
  BY SearchIPProperties, SearchMacProperties
<1>3. result =
        CASE a # 0 /\ b = 0 -> [s EXCEPT !.nbrs[a].pairs = AddSoftTrinity(@, t)]
          [] a = 0 /\ b # 0 -> [s EXCEPT !.nbrs[b].pairs = AddTrinity(@, t)]
          [] a # 0 /\ b # 0 /\ a = b -> s
          [] a # 0 /\ b # 0 /\ a # b -> Merge(s, a, b, t)
          [] a = 0 /\ b = 0 ->
               LET n == AddNeighbor(nbrs, fresh)
               IN  IF n = nbrs THEN Abort(s, "NewNeighbor") ELSE [s EXCEPT !.nbrs = n]
  BY <1>1 DEF SMNeighbors
<1> HIDE DEF a, b, result
<1>4. CASE a # 0 /\ b = 0
  <2> DEFINE n == [nbrs EXCEPT ![a] = [nbrs[a] EXCEPT !.pairs = AddSoftTrinity(@, t)]]
  <2>1. Taught(nbrs, n, t, W)
    BY <1>2, <1>4, SoftLinked DEF Taught
  <2>2. result = [s EXCEPT !.nbrs = n]
    BY <1>3, <1>4
  <2> QED BY <2>1, <2>2 DEF result
<1>5. CASE a = 0 /\ b # 0
  <2> DEFINE n == [nbrs EXCEPT ![b] = [nbrs[b] EXCEPT !.pairs = AddTrinity(@, t)]]
  <2>1. Taught(nbrs, n, t, W)
    BY <1>2, <1>5, HardLinked DEF Taught
  <2>2. result = [s EXCEPT !.nbrs = n]
    BY <1>3, <1>5
  <2> QED BY <2>1, <2>2 DEF result
<1>6. CASE a # 0 /\ b # 0 /\ a = b
  <2>1. Taught(nbrs, nbrs, t, W)
    BY <1>2, <1>6 DEF Taught
  <2>2. result = [s EXCEPT !.nbrs = nbrs]
    <3>1. result = s
      BY <1>3, <1>6
    <3> QED BY <3>1
  <2> QED BY <2>1, <2>2 DEF result
<1>7. CASE a # 0 /\ b # 0 /\ a # b
  <2> DEFINE kept == [pairs |-> nbrs[a].pairs \union AddTrinity(nbrs[b].pairs, t),
                      vq |-> nbrs[a].vq \o nbrs[b].vq]
             n == Folded(nbrs, a, b, kept)
  <2>1. Ids(nbrs[a].vq) \intersect Ids(nbrs[b].vq) = {}
    BY <1>2, <1>7 DEF Linked, Apart
  <2>2. result = [s EXCEPT !.nbrs = n]
    <3>1. result = Merge(s, a, b, t)
      BY <1>3, <1>7
    <3> QED BY <2>1, <3>1 DEF Merge, Folded
  <2>3. Taught(nbrs, n, t, W)
    BY <1>2, <1>7, FoldLinked
  <2> QED BY <2>2, <2>3 DEF result
<1>8. CASE a = 0 /\ b = 0
  <2> DEFINE n == Append(nbrs, fresh)
  <2>1. <<>> \in Seq(Entry) /\ Distinct(<<>>) /\ Range(<<>>) = {} /\ Ids(<<>>) = {}
    BY DEF Distinct, Range, Ids
  <2>2. /\ AddNeighbor(nbrs, fresh) = n /\ n # nbrs
        /\ n \in Seq(Neighbor) /\ Linked(n, W)
        /\ \E j \in DOMAIN n : HasIP(n[j], t.ip)
        /\ \A M : /\ WellConfigured /\ Complete(nbrs, W, M)
                  /\ \/ t.ip = NoIP
                     \/ \E from \in Node : t.ip = NodeIP(from) /\ t.mac \in Macs(from)
                  /\ W = W \union Range(<<>>)
                  /\ \A e \in Range(<<>>) : e.dest = t.mac
               => Complete(n, W, M)
    <3>1. /\ Range(<<>>) \subseteq W
          /\ \A j \in DOMAIN nbrs : Ids(<<>>) \intersect Ids(nbrs[j].vq) = {}
      BY <2>1
    <3>2. \A j \in DOMAIN nbrs : ~HasIP(nbrs[j], t.ip) /\ ~HasMac(nbrs[j], t.mac)
      BY <1>2, <1>8
    <3>3. W \subseteq W
      OBVIOUS
    <3> QED BY <2>1, <3>1, <3>2, <3>3, NewLinked
  <2> HIDE DEF n
  <2>3. Taught(nbrs, n, t, W)
    BY <2>1, <2>2 DEF Taught
  <2>4. result = [s EXCEPT !.nbrs = n]
    BY <1>3, <1>8, <2>2
  <2> QED BY <2>3, <2>4 DEF result
<1> QED BY <1>4, <1>5, <1>6, <1>7, <1>8

-------------------------------------------------------------------------------
(* Learning from a hello                                                   *)

\* While a hello is read, no virtual queue shares an entry with another one
\* or with that of the fresh record, so none is moved twice.
Collects(r, W) ==
  /\ r \in Learning({"none", "DuplicateVirtual"}) /\ Running(r)
  /\ Linked(r.nbrs, W) /\ Sound(r.fresh, W)
  /\ \A j \in DOMAIN r.nbrs : Ids(r.fresh.vq) \intersect Ids(r.nbrs[j].vq) = {}

\* The records at the positions K move into the fresh record.
Moves(r, r1, K) ==
  /\ \A k \in DOMAIN r1.nbrs : \E j \in DOMAIN r.nbrs \ K : r1.nbrs[k] = r.nbrs[j]
  /\ \A j \in DOMAIN r.nbrs \ K : \E k \in DOMAIN r1.nbrs : r1.nbrs[k] = r.nbrs[j]
  /\ Range(r1.fresh.vq) = Range(r.fresh.vq) \union UNION {Range(r.nbrs[j].vq) : j \in K}
  /\ r1.fresh.pairs = r.fresh.pairs

\* Absorb moves one record, or none.
LEMMA AbsorbMoves ==
  ASSUME NEW W, NEW r, Collects(r, W), NEW pos \in 0..Len(r.nbrs)
  PROVE  Collects(Absorb(r, pos), W) /\ Moves(r, Absorb(r, pos), {pos} \ {0})
<1> DEFINE q == RemoveAt(r.nbrs, pos)
           vq == r.fresh.vq \o r.nbrs[pos].vq
           r1 == [r EXCEPT !.nbrs = q, !.fresh.vq = vq]
<1>1. /\ r \in Learning({"none", "DuplicateVirtual"}) /\ Running(r)
      /\ r.nbrs \in Seq(Neighbor) /\ r.fresh.vq \in Seq(Entry)
      /\ Linked(r.nbrs, W) /\ Sound(r.fresh, W)
  BY DEF Collects, Learning
<1>2. CASE pos = 0
  <2>1. Absorb(r, pos) = r
    BY <1>2 DEF Absorb
  <2>2. Moves(r, r, {})
    BY DEF Moves
  <2> QED BY <1>2, <2>1, <2>2
<1>3. CASE pos # 0
  <2>1. pos \in DOMAIN r.nbrs /\ r.nbrs[pos] \in Neighbor /\ r.nbrs[pos].vq \in Seq(Entry)
    BY <1>1, <1>3, NeighborFields
  <2>2. Ids(r.fresh.vq) \intersect Ids(r.nbrs[pos].vq) = {}
    BY <2>1 DEF Collects
  <2>3. Absorb(r, pos) = r1
    BY <1>1, <1>3, <2>2 DEF Absorb
  <2>4. /\ vq \in Seq(Entry) /\ Distinct(vq)
        /\ Range(vq) = Range(r.fresh.vq) \union Range(r.nbrs[pos].vq)
    <3>1. Distinct(r.fresh.vq) /\ Distinct(r.nbrs[pos].vq)
      BY <1>1, <2>1 DEF Sound, Linked
    <3> QED BY <1>1, <2>1, <2>2, <3>1, ConcatRange
  <2>5. PICK old : Relocates(old, q, r.nbrs, pos)
    BY <1>1, <2>1, RemoveAtRecords
  <2>6. q \in Seq(Neighbor) /\ Linked(q, W)
    BY <1>1, <2>1, RemoveAtRecords, RemoveLinked
  <2> HIDE DEF q, vq
  <2>7. /\ r1 \in Learning({"none", "DuplicateVirtual"}) /\ Running(r1)
        /\ r1.nbrs = q /\ r1.fresh.vq = vq /\ r1.fresh.pairs = r.fresh.pairs
    BY <1>1, <2>4, <2>6 DEF Learning, Running
  <2> HIDE DEF r1
  <2>8. Sound(r1.fresh, W)
    BY <1>1, <2>1, <2>4, <2>7 DEF Sound, Linked
  <2>9. \A k \in DOMAIN q : old[k] \in DOMAIN r.nbrs /\ old[k] # pos /\ q[k] = r.nbrs[old[k]]
    BY <2>5 DEF Relocates
  <2>10. ASSUME NEW k \in DOMAIN q PROVE Ids(vq) \intersect Ids(q[k].vq) = {}
    <3>1. Ids(r.fresh.vq) \intersect Ids(q[k].vq) = {}
      BY <2>9 DEF Collects
    <3>2. Ids(r.nbrs[pos].vq) \intersect Ids(q[k].vq) = {}
      BY <1>1, <2>1, <2>9 DEF Linked, Apart
    <3> QED BY <2>4, <3>1, <3>2, IdsOfRange
  <2>11. Collects(r1, W)
    BY <2>6, <2>7, <2>8, <2>10 DEF Collects
  <2>12. Moves(r, r1, {pos})
    <3>1. \A k \in DOMAIN q : \E j \in DOMAIN r.nbrs \ {pos} : q[k] = r.nbrs[j]
      BY <2>9
    <3>2. \A j \in DOMAIN r.nbrs \ {pos} : \E k \in DOMAIN q : q[k] = r.nbrs[j]
      BY <2>5 DEF Relocates
    <3> QED BY <2>4, <2>7, <3>1, <3>2 DEF Moves
  <2>13. {pos} \ {0} = {pos}
    BY <1>3
  <2> QED BY <2>3, <2>11, <2>12, <2>13
<1> QED BY <1>2, <1>3

\* What is gathered when the hello is from node n: nothing is lost, and the
\* fresh record is for packets to radios of n.
Gathers(r, W, M, n) ==
  /\ \A j \in DOMAIN r.nbrs : Plausible(r.nbrs[j]) /\ Owns(r.nbrs[j])
  /\ \A e \in W : e \in Range(r.fresh.vq) \/ \E j \in DOMAIN r.nbrs : e \in Range(r.nbrs[j].vq)
  /\ \A mac \in M : mac \in Macs(n) \/ Remembers(r.nbrs, mac)
  /\ \A e \in Range(r.fresh.vq) : e.dest \in Macs(n)

\* Records with an address of n may move.
LEMMA MovesGather ==
  ASSUME WellConfigured, NEW W, NEW M, NEW n \in Node, NEW r, NEW r1, NEW K,
         K \subseteq DOMAIN r.nbrs, Moves(r, r1, K), Gathers(r, W, M, n),
         \A j \in K : \/ \E mac \in Macs(n) : HasMac(r.nbrs[j], mac)
                      \/ \E ip \in IPs(n) : HasIP(r.nbrs[j], ip)
  PROVE  Gathers(r1, W, M, n)
<1>1. ASSUME NEW j \in K, NEW mac, HasMac(r.nbrs[j], mac) PROVE mac \in Macs(n)
  <2>1. Plausible(r.nbrs[j])
    BY DEF Gathers
  <2>2. CASE IsOf(r.nbrs[j], n)
    BY <1>1, <2>2 DEF IsOf, HasMac
  <2>3. CASE \E m \in Macs(n) : HasMac(r.nbrs[j], m)
    <3>1. PICK m \in Macs(n) : HasMac(r.nbrs[j], m)
      BY <2>3
    <3>2. IsOf(r.nbrs[j], n) \/ \E t \in Trinity : t.ip = NoIP /\ t.mac = m /\ r.nbrs[j].pairs = {t}
      BY <2>1, <3>1, RecordWithMac
    <3>3. ASSUME NEW t \in Trinity, t.mac = m, r.nbrs[j].pairs = {t} PROVE mac \in Macs(n)
      BY <1>1, <3>1, <3>3 DEF HasMac
    <3> QED BY <2>2, <3>2, <3>3
  <2>4. CASE \E ip \in IPs(n) : HasIP(r.nbrs[j], ip)
    BY <2>1, <2>2, <2>4, RecordWithIP
  <2> QED BY <2>3, <2>4
<1>2. \A k \in DOMAIN r1.nbrs : Plausible(r1.nbrs[k]) /\ Owns(r1.nbrs[k])
  BY DEF Gathers, Moves
<1>3. ASSUME NEW e \in W
      PROVE  e \in Range(r1.fresh.vq) \/ \E k \in DOMAIN r1.nbrs : e \in Range(r1.nbrs[k].vq)
  <2>1. CASE e \in Range(r.fresh.vq)
    BY <2>1 DEF Moves
  <2>2. ASSUME NEW j \in DOMAIN r.nbrs, e \in Range(r.nbrs[j].vq)
        PROVE  e \in Range(r1.fresh.vq) \/ \E k \in DOMAIN r1.nbrs : e \in Range(r1.nbrs[k].vq)
    <3>1. CASE j \in K
      BY <2>2, <3>1 DEF Moves
    <3>2. CASE j \notin K
      BY <2>2, <3>2 DEF Moves
    <3> QED BY <3>1, <3>2
  <2> QED BY <2>1, <2>2 DEF Gathers
<1>4. ASSUME NEW mac \in M, mac \notin Macs(n) PROVE Remembers(r1.nbrs, mac)
  <2>1. PICK j \in DOMAIN r.nbrs : HasMac(r.nbrs[j], mac)
    BY <1>4 DEF Gathers, Remembers
  <2>2. j \notin K
    BY <1>1, <1>4, <2>1
  <2> QED BY <2>1, <2>2 DEF Moves, Remembers
<1>5. ASSUME NEW e \in Range(r1.fresh.vq) PROVE e.dest \in Macs(n)
  <2>1. CASE e \in Range(r.fresh.vq)
    BY <2>1 DEF Gathers
  <2>2. ASSUME NEW j \in K, e \in Range(r.nbrs[j].vq) PROVE e.dest \in Macs(n)
    <3>1. HasMac(r.nbrs[j], e.dest)
      BY <2>2 DEF Gathers, Owns
    <3> QED BY <1>1, <3>1
  <2>3. e \in Range(r.fresh.vq) \/ \E j \in K : e \in Range(r.nbrs[j].vq)
    BY <1>5 DEF Moves
  <2> QED BY <2>1, <2>2, <2>3
<1> QED BY <1>2, <1>3, <1>4, <1>5 DEF Gathers

\* The fresh record lists the first i radios of n, and no other record knows
\* one of them.
Cleared(r, n, i) ==
  /\ r.fresh.pairs = {RadiosOf[n][d] : d \in 1..i}
  /\ \A j \in DOMAIN r.nbrs : \A d \in 1..i :
       ~HasMac(r.nbrs[j], RadiosOf[n][d].mac) /\ ~HasIP(r.nbrs[j], RadiosOf[n][d].ip)

\* One pair of the hello.
LEMMA LearnPairCollects ==
  ASSUME NEW W, NEW r, Collects(r, W), NEW t \in Trinity, t.channel \in Channels
  PROVE  /\ Collects(LearnPair(r, t), W)
         /\ LearnPair(r, t).fresh.pairs = AddTrinity(r.fresh.pairs, t)
         /\ t.ip # NoIP => \A j \in DOMAIN LearnPair(r, t).nbrs :
              /\ ~HasMac(LearnPair(r, t).nbrs[j], t.mac)
              /\ ~HasIP(LearnPair(r, t).nbrs[j], t.ip)
              /\ \E k \in DOMAIN r.nbrs : LearnPair(r, t).nbrs[j] = r.nbrs[k]
         /\ \A M : \A n \in Node :
              /\ WellConfigured /\ t.mac \in Macs(n) /\ t.ip \in IPs(n) /\ Gathers(r, W, M, n)
              => Gathers(LearnPair(r, t), W, M, n)
<1> DEFINE a == SearchMac(r.nbrs, t.mac)
           r1 == Absorb(r, a)
           b == SearchIP(r1.nbrs, t.ip)
           r2 == Absorb(r1, b)
           r3 == [r2 EXCEPT !.fresh.pairs = AddTrinity(@, t)]
<1>1. /\ a \in 0..Len(r.nbrs)
      /\ a # 0 => a \in DOMAIN r.nbrs /\ HasMac(r.nbrs[a], t.mac)
      /\ a = 0 => \A j \in DOMAIN r.nbrs : ~HasMac(r.nbrs[j], t.mac)
  <2>1. r.nbrs \in Seq(Neighbor)
    BY DEF Collects, Learning
  <2> QED BY <2>1, SearchMacProperties
<1> HIDE DEF a
<1>2. Collects(r1, W) /\ Moves(r, r1, {a} \ {0})
  BY <1>1, AbsorbMoves
<1> HIDE DEF r1
<1>3. /\ b \in 0..Len(r1.nbrs)
      /\ b # 0 => b \in DOMAIN r1.nbrs /\ HasIP(r1.nbrs[b], t.ip)
      /\ b = 0 => \A j \in DOMAIN r1.nbrs : ~HasIP(r1.nbrs[j], t.ip)
  <2>1. r1.nbrs \in Seq(Neighbor)
    BY <1>2 DEF Collects, Learning
  <2> QED BY <2>1, SearchIPProperties
<1> HIDE DEF b
<1>4. Collects(r2, W) /\ Moves(r1, r2, {b} \ {0})
  BY <1>2, <1>3, AbsorbMoves
<1> HIDE DEF r2
<1>5. LearnPair(r, t) = r3
  <2>1. Running(r2)
    BY <1>4 DEF Collects
  <2> QED BY <2>1 DEF LearnPair, a, r1, b, r2
<1>6. /\ r3.nbrs = r2.nbrs /\ r3.abort = r2.abort /\ r3.fresh.vq = r2.fresh.vq
      /\ r3.fresh.pairs = AddTrinity(r2.fresh.pairs, t)
      /\ r3 \in Learning({"none", "DuplicateVirtual"})
  <2>1. r2 \in Learning({"none", "DuplicateVirtual"})
    BY <1>4 DEF Collects
  <2>2. AddTrinity(r2.fresh.pairs, t) \in SUBSET Trinity
    BY <2>1, AddTrinityType DEF Learning
  <2> QED BY <2>1, <2>2 DEF Learning
<1> HIDE DEF r3
<1>7. Collects(r3, W)
  <2>1. OnAir(r3.fresh.pairs)
    BY <1>4, <1>6 DEF Collects, Sound, OnAir, AddTrinity
  <2> QED BY <1>4, <1>6, <2>1 DEF Collects, Running, Sound
<1>8. r3.fresh.pairs = AddTrinity(r.fresh.pairs, t)
  BY <1>2, <1>4, <1>6 DEF Moves
<1>9. ASSUME NEW j \in DOMAIN r3.nbrs, t.ip # NoIP
      PROVE  /\ ~HasMac(r3.nbrs[j], t.mac) /\ ~HasIP(r3.nbrs[j], t.ip)
             /\ \E k \in DOMAIN r.nbrs : r3.nbrs[j] = r.nbrs[k]
  <2>1. PICK k \in DOMAIN r1.nbrs \ ({b} \ {0}) : r3.nbrs[j] = r1.nbrs[k]
    BY <1>4, <1>6 DEF Moves
  <2>2. PICK i \in DOMAIN r.nbrs \ ({a} \ {0}) : r1.nbrs[k] = r.nbrs[i]
    BY <1>2, <2>1 DEF Moves
  <2>3. ~HasMac(r.nbrs[i], t.mac)
    <3>1. CASE a = 0
      BY <1>1, <3>1
    <3>2. CASE a # 0
      BY <1>1, <2>2, <3>2 DEF Collects, Linked, Apart, ShareAddress, HasMac
    <3> QED BY <3>1, <3>2
  <2>4. ~HasIP(r1.nbrs[k], t.ip)
    <3>1. CASE b = 0
      BY <1>3, <3>1
    <3>2. CASE b # 0
      BY <1>2, <1>3, <1>9, <2>1, <3>2 DEF Collects, Linked, Apart, ShareAddress, HasIP
    <3> QED BY <3>1, <3>2
  <2> QED BY <2>1, <2>2, <2>3, <2>4
<1>10. ASSUME NEW M, NEW n \in Node, WellConfigured, t.mac \in Macs(n), t.ip \in IPs(n),
              Gathers(r, W, M, n)
       PROVE  Gathers(r3, W, M, n)
  <2>1. Gathers(r1, W, M, n)
    <3>1. {a} \ {0} \subseteq DOMAIN r.nbrs /\ \A j \in {a} \ {0} : HasMac(r.nbrs[j], t.mac)
      BY <1>1
    <3>2. \A j \in {a} \ {0} : \/ \E mac \in Macs(n) : HasMac(r.nbrs[j], mac)
                               \/ \E ip \in IPs(n) : HasIP(r.nbrs[j], ip)
      BY <1>10, <3>1
    <3> QED BY <1>2, <1>10, <3>1, <3>2, MovesGather
  <2>2. Gathers(r2, W, M, n)
    <3>1. {b} \ {0} \subseteq DOMAIN r1.nbrs /\ \A j \in {b} \ {0} : HasIP(r1.nbrs[j], t.ip)
      BY <1>3
    <3>2. \A j \in {b} \ {0} : \/ \E mac \in Macs(n) : HasMac(r1.nbrs[j], mac)
                               \/ \E ip \in IPs(n) : HasIP(r1.nbrs[j], ip)
      BY <1>10, <3>1
    <3> QED BY <1>4, <1>10, <2>1, <3>1, <3>2, MovesGather
  <2> QED BY <1>6, <2>2 DEF Gathers
<1> QED BY <1>5, <1>7, <1>8, <1>9, <1>10

\* In a well configured network the fresh record loses no radio on the way.
LEMMA LearnPairClears ==
  ASSUME WellConfigured, NEW W, NEW n \in Node, NEW i \in Devices(n), NEW r, Collects(r, W),
         Cleared(r, n, i - 1)
  PROVE  Cleared(LearnPair(r, RadiosOf[n][i]), n, i)
<1> DEFINE t == RadiosOf[n][i]
           r1 == LearnPair(r, t)
<1>1. RadiosOf[n] \in Seq(Trinity) /\ i \in 1..Len(RadiosOf[n]) /\ Len(RadiosOf[n]) \in Nat
  BY RadiosAssumption DEF Devices
<1>2. t \in Trinity /\ t.ip # NoIP /\ t.channel \in Channels
  BY <1>1 DEF WellConfigured, IPs, Channels
<1>3. /\ r1.fresh.pairs = AddTrinity(r.fresh.pairs, t)
      /\ \A j \in DOMAIN r1.nbrs : /\ ~HasMac(r1.nbrs[j], t.mac) /\ ~HasIP(r1.nbrs[j], t.ip)
                                   /\ \E k \in DOMAIN r.nbrs : r1.nbrs[j] = r.nbrs[k]
  BY <1>2, LearnPairCollects
<1>4. 1..i = 1..(i - 1) \union {i} /\ 1..i \subseteq Devices(n) /\ i \notin 1..(i - 1)
  BY <1>1 DEF Devices
<1> HIDE DEF r1
<1>5. AddTrinity(r.fresh.pairs, t) = {RadiosOf[n][d] : d \in 1..i}
  <2>1. \A d \in 1..(i - 1) : /\ RadiosOf[n][d].mac # t.mac /\ RadiosOf[n][d].ip # t.ip
                              /\ RadiosOf[n][d].channel # t.channel
    BY <1>4 DEF WellConfigured
  <2>2. \A u \in r.fresh.pairs : u.mac # t.mac /\ u.ip # t.ip /\ u.channel # t.channel
    BY <2>1 DEF Cleared
  <2>3. AddTrinity(r.fresh.pairs, t) = r.fresh.pairs \union {t}
    BY <2>2 DEF AddTrinity
  <2> QED BY <1>4, <2>3 DEF Cleared
<1>6. \A j \in DOMAIN r1.nbrs : \A d \in 1..i :
        ~HasMac(r1.nbrs[j], RadiosOf[n][d].mac) /\ ~HasIP(r1.nbrs[j], RadiosOf[n][d].ip)
  BY <1>3, <1>4 DEF Cleared
<1>7. Cleared(r1, n, i)
  BY <1>3, <1>5, <1>6 DEF Cleared
<1> QED BY <1>7 DEF r1

\* A hello never moves a packet twice and keeps the records apart; in a well
\* configured network its sender's record replaces all that were about it.
LEMMA NeighborLearnTaught ==
  ASSUME NEW W, NEW s, s.nbrs \in Seq(Neighbor), Running(s), Linked(s.nbrs, W), NEW from \in Node
  PROVE  \E n \in Seq(Neighbor) :
           /\ NeighborLearn(s, RadiosOf[from]) = [s EXCEPT !.nbrs = n]
           /\ Linked(n, W)
           /\ \A M : WellConfigured /\ Complete(s.nbrs, W, M) => Complete(n, W, M)
<1> DEFINE hello == RadiosOf[from]
           m == Len(hello)
<1>1. hello \in Seq(Trinity) /\ m \in Nat /\ m > 0 /\ \A i \in 1..m : hello[i] \in Trinity
  <2>1. hello \in Seq(Trinity) /\ hello # <<>>
    BY RadiosAssumption
  <2> QED BY <2>1
<1>2. \A i \in 1..m : /\ i \in Devices(from) /\ hello[i].mac \in Macs(from)
                      /\ hello[i].ip \in IPs(from) /\ hello[i].channel \in Channels
  BY DEF Devices, Macs, IPs, Channels
<1>3. PICK f : LearnsBy(f, s, hello)
  BY <1>1, NeighborLearnRuns
<1> HIDE DEF hello
<1>4. /\ f[0] = [nbrs |-> s.nbrs, fresh |-> [pairs |-> {}, vq |-> <<>>], abort |-> s.abort]
      /\ \A i \in 1..m : f[i] = LearnPair(f[i - 1], hello[i])
      /\ NeighborLearn(s, hello) =
           IF Running(f[m]) THEN [s EXCEPT !.nbrs = AddNeighbor(f[m].nbrs, f[m].fresh)]
           ELSE Abort(s, f[m].abort)
  BY <1>3 DEF LearnsBy
<1>5. /\ <<>> \in Seq(Entry) /\ Distinct(<<>>) /\ Range(<<>>) = {} /\ Ids(<<>>) = {}
      /\ f[0].nbrs = s.nbrs /\ f[0].fresh.pairs = {} /\ f[0].fresh.vq = <<>>
      /\ f[0].abort = "none"
  BY <1>4 DEF Distinct, Range, Ids, Running
<1> DEFINE Inv(i) ==
             /\ Collects(f[i], W)
             /\ WellConfigured => Cleared(f[i], from, i)
             /\ \A M : WellConfigured /\ Complete(s.nbrs, W, M) => Gathers(f[i], W, M, from)
           T == {i \in 0..m : Inv(i)}
<1>6. 0 \in T
  <2>1. f[0] \in Learning({"none", "DuplicateVirtual"})
    BY <1>4, <1>5 DEF Learning
  <2>2. Collects(f[0], W)
    BY <1>5, <2>1 DEF Collects, Sound, Running, OnAir
  <2>3. Cleared(f[0], from, 0)
    BY <1>5 DEF Cleared
  <2>4. \A M : Complete(s.nbrs, W, M) => Gathers(f[0], W, M, from)
    BY <1>5 DEF Complete, Gathers
  <2> QED BY <1>1, <2>2, <2>3, <2>4
<1>7. ASSUME NEW i \in 1..m, i - 1 \in T PROVE i \in T
  <2>1. /\ Collects(f[i - 1], W)
        /\ WellConfigured => Cleared(f[i - 1], from, i - 1)
        /\ \A M : WellConfigured /\ Complete(s.nbrs, W, M) => Gathers(f[i - 1], W, M, from)
    BY <1>7
  <2>2. /\ f[i] = LearnPair(f[i - 1], hello[i])
        /\ hello[i] \in Trinity /\ hello[i].channel \in Channels
    BY <1>1, <1>2, <1>4
  <2>3. Collects(f[i], W)
    BY <2>1, <2>2, LearnPairCollects
  <2>4. ASSUME WellConfigured PROVE Cleared(f[i], from, i)
    BY <1>2, <2>1, <2>2, <2>4, LearnPairClears DEF hello
  <2>5. ASSUME NEW M, WellConfigured, Complete(s.nbrs, W, M) PROVE Gathers(f[i], W, M, from)
    BY <1>2, <2>1, <2>2, <2>5, LearnPairCollects
  <2>6. i \in 0..m
    BY <1>1
  <2> QED BY <2>3, <2>4, <2>5, <2>6
<1>8. Inv(m)
  <2> HIDE DEF Inv
  <2>1. 0..m \subseteq T
    <3> HIDE DEF T, m
    <3> QED BY <1>1, <1>6, <1>7, RangeInduction
  <2>2. m \in 0..m
    BY <1>1
  <2> QED BY <2>1, <2>2
<1> DEFINE r == f[m]
           n == AddNeighbor(r.nbrs, r.fresh)
<1>9. /\ Collects(r, W) /\ (WellConfigured => Cleared(r, from, m))
      /\ \A M : WellConfigured /\ Complete(s.nbrs, W, M) => Gathers(r, W, M, from)
  BY <1>8
<1>10. m = Len(hello) /\ hello = RadiosOf[from]
  BY DEF hello
<1> HIDE DEF Inv, T, r, m
<1>11. /\ r \in Learning({"none", "DuplicateVirtual"}) /\ Running(r) /\ r.nbrs \in Seq(Neighbor)
       /\ Linked(r.nbrs, W) /\ Sound(r.fresh, W)
  BY <1>9 DEF Collects, Learning
<1>12. NeighborLearn(s, hello) = [s EXCEPT !.nbrs = n]
  BY <1>4, <1>11 DEF r
<1>13. r.fresh \in Neighbor
  <2>1. r.fresh.pairs # {}
    <3>1. /\ f[m] = LearnPair(f[m - 1], hello[m])
          /\ hello[m] \in Trinity /\ hello[m].channel \in Channels
      BY <1>1, <1>2, <1>4
    <3>2. m - 1 \in T
      <4>1. m - 1 \in 0..m
        BY <1>1
      <4>2. 0..m \subseteq T
        <5>1. \A i \in 1..m : i - 1 \in T => i \in T
          BY <1>7
        <5> QED BY <1>1, <1>6, <5>1, RangeInduction
      <4> QED BY <4>1, <4>2
    <3>3. Collects(f[m - 1], W)
      BY <3>2 DEF T, Inv
    <3>4. r.fresh.pairs = AddTrinity(f[m - 1].fresh.pairs, hello[m])
      BY <3>1, <3>3, LearnPairCollects DEF r
    <3> QED BY <3>4 DEF AddTrinity
  <2> QED BY <1>11, <2>1 DEF Learning, Neighbor
<1>14. n \in Seq(Neighbor)
  BY <1>11, <1>13, AddNeighborType
<1>15. Linked(n, W)
  <2>1. CASE \E i \in DOMAIN r.nbrs : ShareAddress(r.fresh, r.nbrs[i])
    BY <1>11, <2>1 DEF AddNeighbor
  <2>2. CASE \A i \in DOMAIN r.nbrs : ~ShareAddress(r.fresh, r.nbrs[i])
    <3>1. \A j \in DOMAIN r.nbrs : Apart(r.fresh, r.nbrs[j])
      BY <1>9, <2>2 DEF Collects, Apart
    <3>2. n = Append(r.nbrs, r.fresh)
      BY <2>2 DEF AddNeighbor
    <3>3. W \subseteq W
      OBVIOUS
    <3> QED BY <1>11, <1>13, <3>1, <3>2, <3>3, AppendLinked
  <2> QED BY <2>1, <2>2
<1>16. ASSUME NEW M, WellConfigured, Complete(s.nbrs, W, M) PROVE Complete(n, W, M)
  <2>1. Cleared(r, from, m) /\ Gathers(r, W, M, from)
    BY <1>9, <1>16
  <2>2. \A mac : mac \in Macs(from) <=> \E d \in 1..m : mac = RadiosOf[from][d].mac
    BY <1>10 DEF Macs, Devices
  <2>3. \A mac \in Macs(from) : HasMac(r.fresh, mac)
    BY <2>1, <2>2 DEF Cleared, HasMac
  <2>4. \A t \in r.fresh.pairs : t.mac \in Macs(from) /\ t.ip \in IPs(from)
    BY <1>10, <2>1 DEF Cleared, Macs, IPs, Devices
  <2>5. IsOf(r.fresh, from)
    <3>1. PICK d \in 1..m : NodeIP(from) = RadiosOf[from][d].ip
      BY <1>10, NodeIPType DEF IPs, Devices
    <3>2. HasIP(r.fresh, NodeIP(from))
      BY <2>1, <3>1 DEF Cleared, HasIP
    <3> QED BY <2>4, <3>2 DEF IsOf
  <2>6. Plausible(r.fresh) /\ Owns(r.fresh)
    BY <2>1, <2>3, <2>5 DEF Plausible, Owns, Gathers
  <2>7. \A i \in DOMAIN r.nbrs : ~ShareAddress(r.fresh, r.nbrs[i])
    <3>1. \A t \in r.fresh.pairs : \A i \in DOMAIN r.nbrs :
            ~HasMac(r.nbrs[i], t.mac) /\ ~HasIP(r.nbrs[i], t.ip)
      BY <2>1 DEF Cleared
    <3> QED BY <3>1 DEF ShareAddress
  <2>8. n = Append(r.nbrs, r.fresh)
    BY <2>7 DEF AddNeighbor
  <2>9. /\ DOMAIN n = 1..Len(r.nbrs) + 1 /\ n[Len(r.nbrs) + 1] = r.fresh
        /\ \A j \in 1..Len(r.nbrs) : n[j] = r.nbrs[j]
        /\ DOMAIN r.nbrs = 1..Len(r.nbrs) /\ Len(r.nbrs) \in Nat
        /\ Len(r.nbrs) + 1 \in DOMAIN n /\ DOMAIN r.nbrs \subseteq DOMAIN n
    BY <1>11, <1>13, <2>8, AppendProperties
  <2> HIDE DEF n
  <2>10. \A j \in DOMAIN n : Plausible(n[j]) /\ Owns(n[j])
    BY <2>1, <2>6, <2>9 DEF Gathers
  <2>11. \A e \in W : \E j \in DOMAIN n : e \in Range(n[j].vq)
    BY <2>1, <2>9 DEF Gathers
  <2>12. \A mac \in M : Remembers(n, mac)
    BY <2>1, <2>3, <2>9 DEF Gathers, Remembers
  <2> QED BY <2>10, <2>11, <2>12 DEF Complete
<1> HIDE DEF n
<1> QED BY <1>12, <1>14, <1>15, <1>16 DEF hello

-------------------------------------------------------------------------------
(* Packets that start or cease to wait                                     *)

\* The records differ in their virtual queues only.
SameRadios(old, new) ==
  /\ new \in Seq(Neighbor) /\ DOMAIN new = DOMAIN old
  /\ \A i \in DOMAIN old : new[i].pairs = old[i].pairs

\* The virtual queue of record i becomes vq.
Requeued(nbrs, i, vq) == [nbrs EXCEPT ![i] = [nbrs[i] EXCEPT !.vq = vq]]

\* Only the virtual queue changes.
LEMMA RequeuedRadios ==
  ASSUME NEW nbrs \in Seq(Neighbor), NEW i \in DOMAIN nbrs, NEW vq \in Seq(Entry)
  PROVE  LET n == Requeued(nbrs, i, vq)
         IN  /\ SameRadios(nbrs, n) /\ Len(n) = Len(nbrs) /\ n[i].vq = vq
             /\ [nbrs[i] EXCEPT !.vq = vq] \in Neighbor
             /\ \A j \in DOMAIN nbrs : j # i => n[j] = nbrs[j]
<1> DEFINE nbr == [nbrs[i] EXCEPT !.vq = vq]
           n == [nbrs EXCEPT ![i] = nbr]
<1>1. nbrs[i] \in Neighbor
  OBVIOUS
<1>2. nbr \in Neighbor /\ nbr.pairs = nbrs[i].pairs /\ nbr.vq = vq
  BY <1>1 DEF Neighbor
<1> HIDE DEF nbr
<1>3. n \in Seq(Neighbor) /\ DOMAIN n = DOMAIN nbrs /\ Len(n) = Len(nbrs)
  BY <1>2, ExceptSeq
<1>4. n[i] = nbr /\ \A j \in DOMAIN nbrs : j # i => n[j] = nbrs[j]
  OBVIOUS
<1> HIDE DEF n
<1>5. SameRadios(nbrs, n)
  BY <1>2, <1>3, <1>4 DEF SameRadios
<1> QED BY <1>2, <1>3, <1>4, <1>5 DEF Requeued, n, nbr

\* The same radios tell the same about addresses.
LEMMA SameRadiosSearch ==
  ASSUME NEW old \in Seq(Neighbor), NEW new, SameRadios(old, new)
  PROVE  /\ \A i \in DOMAIN old : GetMac(new[i]) = GetMac(old[i])
         /\ \A i \in DOMAIN old : \A mac : HasMac(new[i], mac) <=> HasMac(old[i], mac)
         /\ \A mac : SearchMac(new, mac) = SearchMac(old, mac)
<1>1. /\ new \in Seq(Neighbor) /\ DOMAIN new = DOMAIN old /\ Len(new) = Len(old)
      /\ DOMAIN old = 1..Len(old)
      /\ \A i \in DOMAIN old : new[i].pairs = old[i].pairs
  BY DEF SameRadios
<1>2. \A i \in DOMAIN old : \A mac : HasMac(new[i], mac) <=> HasMac(old[i], mac)
  BY <1>1 DEF HasMac
<1>3. ASSUME NEW mac PROVE SearchMac(new, mac) = SearchMac(old, mac)
  <2>1. {i \in 1..Len(new) : HasMac(new[i], mac)} = {i \in 1..Len(old) : HasMac(old[i], mac)}
    BY <1>1, <1>2
  <2> QED BY <2>1 DEF SearchMac, SelectInSeq
<1> QED BY <1>1, <1>2, <1>3 DEF GetMac

\* No waiting packet is in two virtual queues.
LEMMA OneOwner ==
  ASSUME NEW W, NEW nbrs \in Seq(Neighbor), Linked(nbrs, W),
         NEW i \in DOMAIN nbrs, NEW j \in DOMAIN nbrs, NEW e \in Range(nbrs[i].vq),
         e \in Range(nbrs[j].vq)
  PROVE  i = j
<1>1. e.id \in Ids(nbrs[i].vq) /\ e.id \in Ids(nbrs[j].vq)
  BY IdsOfRange
<1>2. i # j => Ids(nbrs[i].vq) \intersect Ids(nbrs[j].vq) = {}
  BY DEF Linked, Apart
<1> QED BY <1>1, <1>2

\* e leaves its virtual queue and waits no longer.
LEMMA DetachLinked ==
  ASSUME NEW W, NEW nbrs \in Seq(Neighbor), NEW i \in DOMAIN nbrs, NEW vq \in Seq(Entry),
         NEW e, Linked(nbrs, W), Distinct(vq), e \in Range(nbrs[i].vq),
         Range(vq) = Range(nbrs[i].vq) \ {e}
  PROVE  /\ Linked(Requeued(nbrs, i, vq), W \ {e})
         /\ \A M : Complete(nbrs, W, M) => Complete(Requeued(nbrs, i, vq), W \ {e}, M)
<1> DEFINE nbr == [nbrs[i] EXCEPT !.vq = vq]
           n == Requeued(nbrs, i, vq)
<1>1. /\ SameRadios(nbrs, n) /\ n[i].vq = vq /\ nbr \in Neighbor
      /\ \A j \in DOMAIN nbrs : j # i => n[j] = nbrs[j]
  BY RequeuedRadios
<1>2. nbr.vq = vq /\ nbr.pairs = nbrs[i].pairs
  BY NeighborFields DEF Neighbor
<1> HIDE DEF nbr
<1>3. Sound(nbr, W \ {e})
  BY <1>2 DEF Linked, Sound
<1>4. ASSUME NEW j \in DOMAIN nbrs, j # i
      PROVE  Apart(nbr, nbrs[j]) /\ Range(nbrs[j].vq) \subseteq W \ {e}
  <2>1. Apart(nbrs[i], nbrs[j]) /\ Range(nbrs[j].vq) \subseteq W
    BY <1>4 DEF Linked, Sound
  <2>2. e \notin Range(nbrs[j].vq)
    BY <1>4, OneOwner
  <2>3. Ids(nbr.vq) \subseteq Ids(nbrs[i].vq)
    BY <1>2, IdsOfRange
  <2> QED BY <1>2, <2>1, <2>2, <2>3 DEF Apart, ShareAddress
<1>5. Linked(n, W \ {e})
  BY <1>1, <1>3, <1>4, ExceptLinked DEF Requeued, nbr
<1> HIDE DEF n
<1>6. ASSUME NEW M, Complete(nbrs, W, M) PROVE Complete(n, W \ {e}, M)
  <2>1. \A j \in DOMAIN nbrs : Range(n[j].vq) = Range(nbrs[j].vq) \ {e}
    <3>1. \A j \in DOMAIN nbrs : j # i => e \notin Range(nbrs[j].vq)
      BY OneOwner
    <3> QED BY <1>1, <3>1
  <2>2. ASSUME NEW j \in DOMAIN n PROVE Plausible(n[j]) /\ Owns(n[j])
    <3>1. n[j].pairs = nbrs[j].pairs /\ j \in DOMAIN nbrs
      BY <1>1 DEF SameRadios
    <3>2. Plausible(nbrs[j]) /\ Owns(nbrs[j])
      BY <1>6, <3>1 DEF Complete
    <3> QED BY <2>1, <3>1, <3>2 DEF Plausible, IsLone, IsOf, HasIP, Owns, HasMac
  <2>3. \A x \in W \ {e} : \E j \in DOMAIN n : x \in Range(n[j].vq)
    BY <1>1, <1>6, <2>1 DEF Complete, SameRadios
  <2>4. \A mac \in M : Remembers(n, mac)
    BY <1>1, <1>6 DEF Complete, Remembers, SameRadios, HasMac
  <2> QED BY <2>2, <2>3, <2>4 DEF Complete
<1> QED BY <1>5, <1>6 DEF n

\* e starts to wait for a radio of record i.
LEMMA AttachLinked ==
  ASSUME NEW W, NEW nbrs \in Seq(Neighbor), NEW i \in DOMAIN nbrs, NEW vq \in Seq(Entry),
         NEW e, Linked(nbrs, W), Distinct(vq), Range(vq) = Range(nbrs[i].vq) \union {e},
         \A x \in W : x.id # e.id
  PROVE  /\ Linked(Requeued(nbrs, i, vq), W \union {e})
         /\ \A M : Complete(nbrs, W, M) /\ HasMac(nbrs[i], e.dest)
              => Complete(Requeued(nbrs, i, vq), W \union {e}, M)
<1> DEFINE nbr == [nbrs[i] EXCEPT !.vq = vq]
           n == Requeued(nbrs, i, vq)
<1>1. /\ SameRadios(nbrs, n) /\ n[i].vq = vq /\ nbr \in Neighbor
      /\ \A j \in DOMAIN nbrs : j # i => n[j] = nbrs[j]
  BY RequeuedRadios
<1>2. nbr.vq = vq /\ nbr.pairs = nbrs[i].pairs
  BY NeighborFields DEF Neighbor
<1> HIDE DEF nbr
<1>3. Sound(nbr, W \union {e})
  BY <1>2 DEF Linked, Sound
<1>4. ASSUME NEW j \in DOMAIN nbrs, j # i
      PROVE  Apart(nbr, nbrs[j]) /\ Range(nbrs[j].vq) \subseteq W \union {e}
  <2>1. Apart(nbrs[i], nbrs[j]) /\ Range(nbrs[j].vq) \subseteq W
    BY <1>4 DEF Linked, Sound
  <2>2. e.id \notin Ids(nbrs[j].vq)
    BY <2>1, IdsOfRange
  <2>3. Ids(nbr.vq) \subseteq Ids(nbrs[i].vq) \union {e.id}
    BY <1>2, IdsOfRange
  <2> QED BY <1>2, <2>1, <2>2, <2>3 DEF Apart, ShareAddress
<1>5. Linked(n, W \union {e})
  BY <1>1, <1>3, <1>4, ExceptLinked DEF Requeued, nbr
<1> HIDE DEF n
<1>6. ASSUME NEW M, Complete(nbrs, W, M), HasMac(nbrs[i], e.dest)
      PROVE  Complete(n, W \union {e}, M)
  <2>1. \A j \in DOMAIN nbrs : /\ Range(nbrs[j].vq) \subseteq Range(n[j].vq)
                               /\ Range(n[j].vq) \subseteq Range(nbrs[j].vq) \union {e}
                               /\ j # i => n[j] = nbrs[j]
    BY <1>1
  <2>2. ASSUME NEW j \in DOMAIN n PROVE Plausible(n[j]) /\ Owns(n[j])
    <3>1. n[j].pairs = nbrs[j].pairs /\ j \in DOMAIN nbrs
      BY <1>1 DEF SameRadios
    <3>2. Plausible(nbrs[j]) /\ Owns(nbrs[j])
      BY <1>6, <3>1 DEF Complete
    <3>3. Plausible(n[j])
      BY <3>1, <3>2 DEF Plausible, IsLone, IsOf, HasIP
    <3>4. Owns(n[j])
      BY <1>6, <2>1, <3>1, <3>2 DEF Owns, HasMac
    <3> QED BY <3>3, <3>4
  <2>3. \A x \in W \union {e} : \E j \in DOMAIN n : x \in Range(n[j].vq)
    BY <1>1, <1>6, <2>1 DEF Complete, SameRadios
  <2>4. \A mac \in M : Remembers(n, mac)
    BY <1>1, <1>6 DEF Complete, Remembers, SameRadios, HasMac
  <2> QED BY <2>2, <2>3, <2>4 DEF Complete
<1> QED BY <1>5, <1>6 DEF n

\* Other MACs matter, as long as they are remembered, too.
LEMMA CompleteFor ==
  ASSUME NEW nbrs, NEW W, NEW M, NEW N, Complete(nbrs, W, M),
         \A mac \in N : mac \in M \/ Remembers(nbrs, mac)
  PROVE  Complete(nbrs, W, N)
BY DEF Complete
===============================================================================
