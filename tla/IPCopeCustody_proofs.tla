------------------------- MODULE IPCopeCustody_proofs -------------------------
(***************************************************************************)
(* The life of a packet at the node that sends it on: what the handlers    *)
(* may do with it, one by one and composed, and from that what a network   *)
(* does with it.  The next hop gives it to IP at most once more than IP of *)
(* the sender has sent it, and as long as few receptions fail it is not    *)
(* lost before the next hop has it.                                        *)
(***************************************************************************)
EXTENDS IPCopeNetwork_proofs

-------------------------------------------------------------------------------
(* Where a packet is                                                       *)

\* The places of frames of C in the MAC queues of node me.
Spots(me, s, C) ==
  {p \in Devices(me) \X (Nat \ {0}) :
     p[2] <= Len(s.macq[p[1]]) /\ s.macq[p[1]][p[2]] \in C}

\* The frames that carry a packet alone, and together with others.
PlainOf(pid) == {f \in Frame : pid \in Contents(f) /\ ~Coded(f)}
CodedOf(pid) == {f \in Frame : pid \in Contents(f) /\ Coded(f)}

\* MAC queues are finite.
LEMMA SpotsFinite ==
  ASSUME NEW me \in Node, NEW X, NEW s \in Typed(me, X), NEW C
  PROVE  IsFiniteSet(Spots(me, s, C)) /\ Cardinality(Spots(me, s, C)) \in Nat
<1> DEFINE n == Len(RadiosOf[me])
           g == [d \in 1..n |-> Len(s.macq[d])]
<1>1. n \in Nat /\ Devices(me) = 1..n
  BY RadiosAssumption DEF Devices
<1>2. g \in [1..n -> Nat]
  <2>1. \A d \in 1..n : s.macq[d] \in Seq(Frame)
    BY <1>1, Fields
  <2> QED BY <2>1
<1>3. PICK b \in Nat : \A d \in 1..n : g[d] <= b
  <2> HIDE DEF g, n
  <2> QED BY <1>1, <1>2, RangeBounded
<1> DEFINE T == (1..n) \X (1..b)
<1>4. IsFiniteSet(T)
  <2>1. IsFiniteSet(1..n) /\ IsFiniteSet(1..b)
    BY <1>1, <1>3, FS_Interval
  <2> HIDE DEF n
  <2> QED BY <2>1, FS_Product
<1>5. Spots(me, s, C) \in SUBSET T
  <2> SUFFICES ASSUME NEW p \in Spots(me, s, C) PROVE p \in T
    OBVIOUS
  <2>1. p \in (1..n) \X (Nat \ {0}) /\ p[2] <= g[p[1]]
    BY <1>1 DEF Spots
  <2>2. p[1] \in 1..n /\ p[2] \in Nat /\ p[2] # 0 /\ p[2] <= b /\ p = <<p[1], p[2]>>
    <3>1. p[1] \in 1..n /\ p[2] \in Nat /\ p[2] # 0 /\ p = <<p[1], p[2]>>
      BY <2>1
    <3>2. g[p[1]] \in Nat /\ g[p[1]] <= b
      BY <1>2, <1>3, <3>1
    <3> HIDE DEF g
    <3> QED BY <2>1, <3>1, <3>2, <1>3
  <2>3. p[2] \in 1..b
    BY <2>2, <1>3
  <2> QED BY <2>2, <2>3
<1> HIDE DEF T
<1> QED BY <1>4, <1>5, FS_Subset, FS_CardinalityType

\* A frame for a radio takes one place.
LEMMA SpotsAdd ==
  ASSUME NEW me \in Node, NEW X, NEW s \in Typed(me, X), NEW d \in Devices(me),
         NEW f \in Frame, NEW r, Adds(s, r, d, f), NEW C
  PROVE  Cardinality(Spots(me, r, C)) =
           Cardinality(Spots(me, s, C)) + (IF f \in C THEN 1 ELSE 0)
<1> DEFINE l == Len(s.macq[d])
           p0 == <<d, l + 1>>
<1>1. /\ s.macq \in [Devices(me) -> Seq(Frame)] /\ s.macq[d] \in Seq(Frame) /\ l \in Nat
      /\ r.macq = [s.macq EXCEPT ![d] = Append(@, f)]
  <2>1. s.macq \in [Devices(me) -> Seq(Frame)]
    BY Fields
  <2> QED BY <2>1 DEF Adds
<1>2. /\ Len(r.macq[d]) = l + 1 /\ r.macq[d][l + 1] = f
      /\ \A i \in 1..l : r.macq[d][i] = s.macq[d][i]
      /\ \A e \in Devices(me) : e # d => r.macq[e] = s.macq[e]
  BY <1>1
<1>3. p0 \notin Spots(me, s, C)
  BY <1>1 DEF Spots
<1>4. ASSUME NEW p \in Devices(me) \X (Nat \ {0})
      PROVE  p \in Spots(me, r, C) <=> (p \in Spots(me, s, C) \/ (p = p0 /\ f \in C))
  <2>1. p = <<p[1], p[2]>> /\ p[1] \in Devices(me) /\ p[2] \in Nat /\ p[2] # 0
    BY <1>4
  <2>2. CASE p[1] # d
    BY <1>2, <2>1, <2>2 DEF Spots
  <2>3. CASE p[1] = d /\ p[2] = l + 1
    <3>1. p = p0
      BY <2>1, <2>3
    <3>2. p \in Spots(me, r, C) <=> f \in C
      BY <1>1, <1>2, <2>1, <2>3 DEF Spots
    <3> QED BY <1>3, <3>1, <3>2
  <2>4. CASE p[1] = d /\ p[2] # l + 1
    <3>1. p # p0
      BY <2>1, <2>4
    <3>2. p[2] <= l + 1 <=> p[2] <= l
      BY <1>1, <2>1, <2>4
    <3>3. p[2] <= l => r.macq[d][p[2]] = s.macq[d][p[2]]
      BY <1>1, <1>2, <2>1
    <3> HIDE DEF p0
    <3> QED BY <1>2, <2>4, <3>1, <3>2, <3>3 DEF Spots
  <2> QED BY <2>2, <2>3, <2>4
<1>5. Spots(me, s, C) \subseteq Devices(me) \X (Nat \ {0})
      /\ Spots(me, r, C) \subseteq Devices(me) \X (Nat \ {0})
      /\ p0 \in Devices(me) \X (Nat \ {0})
  BY <1>1 DEF Spots
<1> HIDE DEF p0, l
<1>6. CASE f \in C
  <2>1. Spots(me, r, C) = Spots(me, s, C) \union {p0}
    BY <1>4, <1>5, <1>6
  <2> QED BY <1>3, <1>6, <2>1, SpotsFinite, FS_AddElement
<1>7. CASE f \notin C
  <2>1. Spots(me, r, C) = Spots(me, s, C)
    BY <1>4, <1>5, <1>7
  <2> QED BY <1>7, <2>1, SpotsFinite
<1> QED BY <1>6, <1>7

\* A frame that is sent leaves one place.
LEMMA SpotsTail ==
  ASSUME NEW me \in Node, NEW X, NEW s \in Typed(me, X), NEW d \in Devices(me),
         s.macq[d] # <<>>, NEW r \in Typed(me, X), r.macq[d] = Tail(s.macq[d]),
         \A e \in Devices(me) : e # d => r.macq[e] = s.macq[e], NEW C
  PROVE  Cardinality(Spots(me, s, C)) =
           Cardinality(Spots(me, r, C)) + (IF Head(s.macq[d]) \in C THEN 1 ELSE 0)
<1> DEFINE l == Len(s.macq[d])
           p0 == <<d, 1>>
           A == Spots(me, r, C)
           B == Spots(me, s, C) \ {p0}
           P == Devices(me) \X (Nat \ {0})
           g == [p \in A |-> IF p[1] = d THEN <<d, p[2] + 1>> ELSE p]
<1>1. /\ s.macq \in [Devices(me) -> Seq(Frame)] /\ s.macq[d] \in Seq(Frame) /\ l \in Nat
      /\ l # 0 /\ r.macq[d] = Tail(s.macq[d])
      /\ \A e \in Devices(me) : e # d => r.macq[e] = s.macq[e]
  <2>1. s.macq \in [Devices(me) -> Seq(Frame)]
    BY Fields
  <2> QED BY <2>1
<1>2. /\ Len(r.macq[d]) = l - 1
      /\ \A i \in 1..l - 1 : r.macq[d][i] = s.macq[d][i + 1]
      /\ Head(s.macq[d]) = s.macq[d][1]
  BY <1>1, HeadTailProperties
<1> HIDE DEF l
<1>3. ASSUME NEW p \in P
      PROVE  /\ p = <<p[1], p[2]>> /\ p[1] \in Devices(me) /\ p[2] \in Nat /\ p[2] # 0
             /\ p[1] # d => (p \in A <=> p \in B)
             /\ p[1] = d => (p \in A <=> <<d, p[2] + 1>> \in B)
  <2>1. p = <<p[1], p[2]>> /\ p[1] \in Devices(me) /\ p[2] \in Nat /\ p[2] # 0
    BY <1>3
  <2>2. ASSUME p[1] # d PROVE p \in A <=> p \in B
    BY <1>1, <2>1, <2>2 DEF Spots
  <2>3. ASSUME p[1] = d PROVE p \in A <=> <<d, p[2] + 1>> \in B
    <3>1. p[2] \in Nat /\ (p[2] <= l - 1 <=> p[2] + 1 <= l)
      BY <1>1, <2>1 DEF l
    <3>2. p \in A <=> (p[2] <= l - 1 /\ r.macq[d][p[2]] \in C)
      BY <1>2, <2>1, <2>3 DEF Spots
    <3>3. <<d, p[2] + 1>> \in B <=> (p[2] + 1 <= l /\ s.macq[d][p[2] + 1] \in C)
      BY <2>1 DEF Spots, l
    <3>4. p[2] <= l - 1 => r.macq[d][p[2]] = s.macq[d][p[2] + 1]
      BY <1>1, <1>2, <2>1 DEF l
    <3> QED BY <3>1, <3>2, <3>3, <3>4
  <2> QED BY <2>1, <2>2, <2>3
<1>4. A \subseteq P /\ B \subseteq P
  BY DEF Spots
<1> HIDE DEF A, B, P
<1>5. g \in [A -> B]
  <2> SUFFICES ASSUME NEW p \in A PROVE g[p] \in B
    OBVIOUS
  <2> QED BY <1>3, <1>4
<1>6. \A p, q \in A : g[p] = g[q] => p = q
  <2> SUFFICES ASSUME NEW p \in A, NEW q \in A, g[p] = g[q] PROVE p = q
    OBVIOUS
  <2>1. /\ p = <<p[1], p[2]>> /\ q = <<q[1], q[2]>> /\ p[2] \in Nat /\ q[2] \in Nat
        /\ g[p] = (IF p[1] = d THEN <<d, p[2] + 1>> ELSE p)
        /\ g[q] = (IF q[1] = d THEN <<d, q[2] + 1>> ELSE q)
    BY <1>3, <1>4
  <2> HIDE DEF g
  <2>2. p[1] = d <=> q[1] = d
    <3>1. p[1] = d => g[p][1] = d
      BY <2>1
    <3>2. q[1] = d => g[q][1] = d
      <4>1. q[1] = d => g[q] = <<d, q[2] + 1>>
        BY <2>1
      <4> QED BY <4>1
    <3>3. p[1] # d => g[p][1] = p[1]
      BY <2>1
    <3>4. q[1] # d => g[q][1] = q[1]
      BY <2>1
    <3> QED BY <3>1, <3>2, <3>3, <3>4
  <2>3. CASE p[1] = d /\ q[1] = d
    <3>1. <<d, p[2] + 1>> = <<d, q[2] + 1>>
      BY <2>1, <2>3
    <3>2. p[2] + 1 = q[2] + 1
      BY <3>1
    <3>3. p[2] = q[2]
      BY <2>1, <3>2
    <3> QED BY <2>1, <2>3, <3>3
  <2>4. CASE p[1] # d /\ q[1] # d
    BY <2>1, <2>4
  <2> QED BY <2>2, <2>3, <2>4
<1>7. \A q \in B : \E p \in A : g[p] = q
  <2> SUFFICES ASSUME NEW q \in B PROVE \E p \in A : g[p] = q
    OBVIOUS
  <2>1. q \in P /\ q = <<q[1], q[2]>> /\ q[1] \in Devices(me) /\ q[2] \in Nat /\ q[2] # 0
    BY <1>3, <1>4
  <2>2. CASE q[1] # d
    <3>1. q \in A
      BY <1>3, <2>1, <2>2
    <3> QED BY <2>2, <3>1
  <2>3. CASE q[1] = d
    <3> DEFINE p == <<d, q[2] - 1>>
    <3>1. q[2] # 1
      BY <2>1, <2>3 DEF B
    <3>2. p \in P /\ p[1] = d /\ p[2] = q[2] - 1
      BY <2>1, <3>1 DEF P
    <3>3. q = <<d, p[2] + 1>>
      BY <2>1, <2>3, <3>2
    <3> HIDE DEF p
    <3>4. p \in A
      BY <1>3, <3>2, <3>3
    <3> QED BY <3>2, <3>3, <3>4
  <2> QED BY <2>2, <2>3
<1>8. Cardinality(A) = Cardinality(B)
  <2>1. g \in Bijection(A, B)
    BY <1>5, <1>6, <1>7 DEF Bijection, Injection, Surjection, IsInjective
  <2>2. IsFiniteSet(A) /\ ExistsBijection(A, B)
    BY <2>1, SpotsFinite DEF A, ExistsBijection
  <2> QED BY <2>2, FS_Bijection
<1>9. p0 \in Spots(me, s, C) <=> Head(s.macq[d]) \in C
  BY <1>1, <1>2 DEF Spots, l
<1>10. /\ IsFiniteSet(Spots(me, s, C)) /\ Cardinality(Spots(me, s, C)) \in Nat
       /\ Cardinality(Spots(me, r, C)) \in Nat
  BY SpotsFinite
<1> HIDE DEF p0, g
<1>11. Cardinality(B) = IF p0 \in Spots(me, s, C) THEN Cardinality(Spots(me, s, C)) - 1
                        ELSE Cardinality(Spots(me, s, C))
  BY <1>10, FS_RemoveElement DEF B
<1> QED BY <1>8, <1>9, <1>10, <1>11 DEF A

-------------------------------------------------------------------------------
(* The life of a packet at one node                                        *)

\* The retries of the entries of S for a packet.
Retries(S, pid) == {e.retry : e \in {x \in S : x.id = pid}}

\* A hello does not stand for the packet whose id it happens to have.
Data(S) == {e \in S : ~e.hello}

Waits(S, pid) == Retries(Data(S), pid)

\* Where packet pid is at node me: the retries of its entry in the output
\* queue (or in hand, in E) and in the retransmission queue, and the frames
\* in the MAC queues that carry it alone and together with others; and how
\* often IP has sent it.
LifeIn(me, pid, s, E, k) ==
  [wait |-> Waits(Range(s.queue) \union E, pid), again |-> Retries(Range(s.rtqueue), pid),
   plain |-> Cardinality(Spots(me, s, PlainOf(pid))),
   coded |-> Cardinality(Spots(me, s, CodedOf(pid))), asked |-> k]

LifeOf(me, pid, s, k) == LifeIn(me, pid, s, {}, k)

Life == [wait: SUBSET Nat, again: SUBSET Nat, plain: Nat, coded: Nat, asked: Nat]

\* What may happen to a packet.  One that is sent with others waits for its
\* acknowledgment, unless its retries are used up or it does already.
SentAlone(v) ==
  [wait |-> {}, again |-> v.again, plain |-> v.plain + 1, coded |-> v.coded,
   asked |-> v.asked]
SentCoded(v) ==
  [wait |-> {}, again |-> IF v.again = {} THEN v.wait \ {MaxRetry} ELSE v.again,
   plain |-> v.plain, coded |-> v.coded + 1, asked |-> v.asked]
SentAgain(v, x) ==
  [wait |-> IF v.wait = {} THEN {x + 1} ELSE v.wait, again |-> {}, plain |-> v.plain,
   coded |-> v.coded, asked |-> v.asked]
AskedFor(v) ==
  [wait |-> IF v.wait = {} THEN {0} ELSE v.wait, again |-> v.again, plain |-> v.plain,
   coded |-> v.coded, asked |-> v.asked + 1]
GivenUp(v) ==
  [wait |-> {}, again |-> v.again, plain |-> v.plain, coded |-> v.coded, asked |-> v.asked]
Thanks(v) ==
  [wait |-> v.wait, again |-> {}, plain |-> v.plain, coded |-> v.coded, asked |-> v.asked]

\* Nothing leads out of Z.  A packet is given up, or its acknowledgment
\* comes, only if it is free to.
Closed(free, Z) ==
  \A v \in Z :
    /\ v.wait # {} => SentAlone(v) \in Z /\ SentCoded(v) \in Z
    /\ \A x \in v.again : SentAgain(v, x) \in Z
    /\ AskedFor(v) \in Z
    /\ free => GivenUp(v) \in Z /\ Thanks(v) \in Z

\* From v, a packet can get to w.
Reaches(free, v, w) == \A Z : Closed(free, Z) /\ v \in Z => w \in Z

\* Every packet gets where it is.
LEMMA ReachesSelf == ASSUME NEW free, NEW v PROVE Reaches(free, v, v)
BY DEF Reaches

\* One way is continued by another.
LEMMA ReachesChain ==
  ASSUME NEW free, NEW u, NEW v, NEW w, Reaches(free, u, v), Reaches(free, v, w)
  PROVE  Reaches(free, u, w)
BY DEF Reaches

\* A packet gets to where one step takes it.
LEMMA ReachesStep ==
  ASSUME NEW free, NEW v
  PROVE  /\ v.wait # {} => Reaches(free, v, SentAlone(v)) /\ Reaches(free, v, SentCoded(v))
         /\ \A x \in v.again : Reaches(free, v, SentAgain(v, x))
         /\ Reaches(free, v, AskedFor(v))
         /\ free => Reaches(free, v, GivenUp(v)) /\ Reaches(free, v, Thanks(v))
BY DEF Reaches, Closed

\* What a handler may do to packet pid, which IP sends a times meanwhile.
Turns(me, pid, free, a, s, r) ==
  Running(r) =>
    /\ Running(s)
    /\ \A k \in Nat : Reaches(free, LifeOf(me, pid, s, k), LifeOf(me, pid, r, k + a))

\* One handler after another.
LEMMA TurnsChain ==
  ASSUME NEW me, NEW pid, NEW free, NEW a \in Nat, NEW b \in Nat, NEW s, NEW r, NEW t,
         Turns(me, pid, free, a, s, r), Turns(me, pid, free, b, r, t)
  PROVE  Turns(me, pid, free, a + b, s, t)
<1> SUFFICES ASSUME Running(t)
             PROVE  /\ Running(s)
                    /\ \A k \in Nat : Reaches(free, LifeOf(me, pid, s, k),
                                              LifeOf(me, pid, t, k + (a + b)))
  BY DEF Turns
<1>1. Running(r) /\ Running(s)
  BY DEF Turns
<1>2. ASSUME NEW k \in Nat
      PROVE  Reaches(free, LifeOf(me, pid, s, k), LifeOf(me, pid, t, k + (a + b)))
  <2>1. Reaches(free, LifeOf(me, pid, s, k), LifeOf(me, pid, r, k + a))
    BY <1>1 DEF Turns
  <2>2. k + a \in Nat /\ (k + a) + b = k + (a + b)
    OBVIOUS
  <2>3. Reaches(free, LifeOf(me, pid, r, k + a), LifeOf(me, pid, t, (k + a) + b))
    BY <2>2 DEF Turns
  <2> QED BY <2>1, <2>2, <2>3, ReachesChain
<1> QED BY <1>1, <1>2

\* A handler that leaves queues and frames alone.
Unmoved(s, r) ==
  /\ r.queue = s.queue /\ r.rtqueue = s.rtqueue /\ r.macq = s.macq
  /\ Running(r) => Running(s)

LEMMA UnmovedTurns ==
  ASSUME NEW me, NEW pid, NEW free, NEW s, NEW r, Unmoved(s, r)
  PROVE  Turns(me, pid, free, 0, s, r)
<1>1. ASSUME NEW k \in Nat PROVE LifeOf(me, pid, r, k + 0) = LifeOf(me, pid, s, k)
  <2>1. k + 0 = k
    OBVIOUS
  <2>2. Spots(me, r, PlainOf(pid)) = Spots(me, s, PlainOf(pid))
        /\ Spots(me, r, CodedOf(pid)) = Spots(me, s, CodedOf(pid))
    BY DEF Spots, Unmoved
  <2> QED BY <2>1, <2>2 DEF LifeOf, LifeIn, Unmoved
<1> QED BY <1>1, ReachesSelf DEF Turns, Unmoved

-------------------------------------------------------------------------------
(* Entries of queues                                                       *)

\* An entry joins a set of entries.
LEMMA RetriesAdd ==
  ASSUME NEW S, NEW e, NEW pid
  PROVE  Retries(S \union {e}, pid) =
           Retries(S, pid) \union (IF e.id = pid THEN {e.retry} ELSE {})
BY DEF Retries

\* An entry leaves a queue, which has no other for its packet.
LEMMA RetriesRemove ==
  ASSUME NEW q, Distinct(q), NEW e \in Range(q), NEW pid
  PROVE  /\ e.id = pid => /\ Retries(Range(q), pid) = {e.retry}
                          /\ Retries(Range(q) \ {e}, pid) = {}
         /\ e.id # pid => Retries(Range(q) \ {e}, pid) = Retries(Range(q), pid)
<1>1. \A x \in Range(q) : x.id = e.id => x = e
  BY DEF Distinct, Range
<1> QED BY <1>1 DEF Retries

\* No entry of a queue is for the packet.
LEMMA RetriesNone ==
  ASSUME NEW q, NEW pid
  PROVE  pid \in Ids(q) <=> Retries(Range(q), pid) # {}
<1>1. pid \in Ids(q) <=> \E x \in Range(q) : x.id = pid
  BY DEF Ids, Range
<1> QED BY <1>1 DEF Retries

\* The retries of entries are numbers.
LEMMA RetriesType ==
  ASSUME NEW S, S \subseteq Entry, NEW pid
  PROVE  Retries(S, pid) \subseteq 0..MaxRetry /\ Waits(S, pid) \subseteq 0..MaxRetry
BY DEF Retries, Waits, Data, Entry

\* An entry joins the output queue.
LEMMA WaitsAdd ==
  ASSUME NEW S, NEW e, NEW pid
  PROVE  Waits(S \union {e}, pid) =
           Waits(S, pid) \union (IF e.id = pid /\ ~e.hello THEN {e.retry} ELSE {})
BY DEF Waits, Data, Retries

\* An entry leaves the output queue.
LEMMA WaitsRemove ==
  ASSUME NEW q, Distinct(q), NEW e \in Range(q), NEW pid
  PROVE  /\ e.id = pid /\ ~e.hello => /\ Waits(Range(q), pid) = {e.retry}
                                      /\ Waits(Range(q) \ {e}, pid) = {}
         /\ e.id # pid => Waits(Range(q) \ {e}, pid) = Waits(Range(q), pid)
<1>1. \A x \in Range(q) : x.id = e.id => x = e
  BY DEF Distinct, Range
<1> QED BY <1>1 DEF Waits, Data, Retries

\* No hello in the output queue has the id of the packet.
Unlike(q, pid) == \A e \in Range(q) : e.hello => e.id # pid

\* Then an entry with its id is for the packet.
LEMMA WaitsNone ==
  ASSUME NEW q, NEW pid
  PROVE  /\ Waits(Range(q), pid) # {} => pid \in Ids(q)
         /\ pid \in Ids(q) /\ Unlike(q, pid) => Waits(Range(q), pid) # {}
<1>1. pid \in Ids(q) <=> \E x \in Range(q) : x.id = pid
  BY DEF Ids, Range
<1> QED BY <1>1 DEF Waits, Data, Retries, Unlike

\* Queues have room for all packets.
Room == IsFiniteSet(Pid) /\ Cardinality(Pid) <= QueueMax

\* Then a queue refuses no packet but one it has.
LEMMA RoomForOne ==
  ASSUME Room, NEW S, S \subseteq Entry, NEW q \in Bounded(S), NEW pid \in Pid, pid \notin Ids(q)
  PROVE  Len(q) # QueueMax
<1> DEFINE n == Len(q)
           g == [i \in 1..n |-> q[i].id]
           J == Ids(q)
<1>1. q \in Seq(S) /\ n \in Nat /\ Distinct(q)
  BY DEF Bounded
<1>2. DOMAIN q = 1..n /\ \A i \in 1..n : q[i] \in S
  BY <1>1
<1>3. J \subseteq Pid
  BY <1>2 DEF Ids, Entry
<1>4. g \in [1..n -> J]
  BY <1>2 DEF Ids
<1>5. \A i, j \in 1..n : g[i] = g[j] => i = j
  BY <1>1, <1>2 DEF Distinct
<1>6. \A x \in J : \E i \in 1..n : g[i] = x
  BY <1>2 DEF Ids
<1> HIDE DEF g, n
<1>7. g \in Bijection(1..n, J)
  <2> HIDE DEF J
  <2> QED BY <1>4, <1>5, <1>6 DEF Bijection, Injection, Surjection, IsInjective
<1> HIDE DEF J
<1>8. IsFiniteSet(J) /\ Cardinality(J) = n
  <2>1. IsFiniteSet(1..n) /\ Cardinality(1..n) = n
    BY <1>1, FS_Interval DEF n
  <2>2. ExistsBijection(1..n, J)
    BY <1>7 DEF ExistsBijection
  <2> QED BY <2>1, <2>2, FS_Bijection
<1>9. Cardinality(J \union {pid}) = n + 1
  <2>1. pid \notin J
    BY DEF J
  <2> QED BY <1>8, <2>1, FS_AddElement
<1>10. Cardinality(J \union {pid}) <= Cardinality(Pid)
  <2>1. J \union {pid} \subseteq Pid
    BY <1>3
  <2> QED BY <2>1, FS_Subset DEF Room
<1>11. Cardinality(Pid) \in Nat
  BY FS_CardinalityType DEF Room
<1>12. n + 1 <= QueueMax
  BY <1>1, <1>9, <1>10, <1>11, BoundsAssumption DEF Room, n
<1> QED BY <1>1, <1>12, BoundsAssumption DEF n

\* An entry that is to be retried joins the retransmission queue.
Joined(free, W, A) ==
  {IF A = {} THEN W \ {MaxRetry} ELSE A} \union (IF free THEN {A} ELSE {})

LEMMA RetriesWait ==
  ASSUME NEW free, free \/ Room, NEW q \in Bounded(RtEntry), NEW v \in Entry, NEW pid
  PROVE  LET p == IF HitMax(v) THEN q ELSE EnqueueBack(q, v)
         IN  /\ v.id # pid => Retries(Range(p), pid) = Retries(Range(q), pid)
             /\ v.id = pid =>
                  Retries(Range(p), pid) \in Joined(free, {v.retry}, Retries(Range(q), pid))
<1> DEFINE A == Retries(Range(q), pid)
<1>1. v.id \in Pid /\ v.retry \in 0..MaxRetry /\ (~HitMax(v) => v \in RtEntry)
  BY EntryFields DEF Entry
<1>2. CASE HitMax(v)
  BY <1>2 DEF HitMax, Joined
<1>3. CASE ~HitMax(v) /\ Accepts(q, v)
  <2>1. Range(EnqueueBack(q, v)) = Range(q) \union {v}
    BY <1>1, <1>3, WaitingEnqueue
  <2>2. v.id = pid => A = {}
    BY <1>3, RetriesNone DEF Accepts
  <2>3. Retries(Range(q) \union {v}, pid) = A \union (IF v.id = pid THEN {v.retry} ELSE {})
    BY RetriesAdd
  <2>4. v.retry # MaxRetry
    BY <1>3 DEF HitMax
  <2> HIDE DEF A
  <2> QED BY <1>3, <2>1, <2>2, <2>3, <2>4 DEF Joined, A
<1>4. CASE ~HitMax(v) /\ ~Accepts(q, v)
  <2>1. EnqueueBack(q, v) = q
    BY <1>1, <1>4, WaitingEnqueue
  <2>2. v.id = pid => free \/ A # {}
    <3>1. SUFFICES ASSUME v.id = pid, Room, pid \notin Ids(q) PROVE FALSE
      BY RetriesNone
    <3>2. Len(q) # QueueMax
      BY <1>1, <3>1, RoomForOne DEF RtEntry
    <3> QED BY <1>4, <3>1, <3>2 DEF Accepts
  <2> HIDE DEF A
  <2> QED BY <1>4, <2>1, <2>2 DEF Joined, A
<1> QED BY <1>2, <1>3, <1>4

\* The packet of entry v moves from the output queue to the other one.
Shifts(free, pid, v, s, r) ==
  LET W == Waits(Range(s.queue), pid)
      A == Retries(Range(s.rtqueue), pid)
  IN  /\ v.id = pid => /\ W = {v.retry} /\ Waits(Range(r.queue), pid) = {}
                       /\ Retries(Range(r.rtqueue), pid) \in Joined(free, W, A)
      /\ v.id # pid => /\ Waits(Range(r.queue), pid) = W
                       /\ Retries(Range(r.rtqueue), pid) = A

\* The packet a neighbour is given moves, the others do not.
LEMMA TakeRetries ==
  ASSUME NEW free, free \/ Room, NEW me \in Node, NEW X, NEW s \in Typed(me, X), Tied(s),
         NEW i \in DOMAIN s.nbrs, s.nbrs[i].vq # <<>>, NEW pid
  PROVE  Shifts(free, pid, Head(s.nbrs[i].vq), s, Take(s, i))
<1> DEFINE v == Head(s.nbrs[i].vq)
           r == Take(s, i)
<1>1. v \in Range(s.queue) /\ Range(r.queue) = Range(s.queue) \ {v}
  BY TakeWaits
<1>2. s.queue \in Bounded(Entry) /\ s.rtqueue \in Bounded(RtEntry) /\ v \in Entry
  <2>1. s.queue \in Bounded(Entry) /\ s.rtqueue \in Bounded(RtEntry) /\ s.queue \in Seq(Entry)
    BY Fields
  <2> QED BY <1>1, <2>1 DEF Range
<1>3. r.rtqueue = IF HitMax(v) THEN s.rtqueue ELSE EnqueueBack(s.rtqueue, v)
  BY DEF Take, Typed, IState
<1>6. ~v.hello
  <2>1. Range(s.nbrs[i].vq) \subseteq Waiting(s.queue) /\ s.nbrs[i].vq \in Seq(Entry)
    <3>1. s.nbrs \in Seq(Neighbor) /\ s.nbrs[i].vq \in Seq(Entry)
      BY Fields, NeighborFields
    <3> QED BY <3>1 DEF Tied, Linked, Sound
  <2>2. v \in Range(s.nbrs[i].vq)
    BY <2>1 DEF Range
  <2> QED BY <2>1, <2>2 DEF Waiting
<1> HIDE DEF v, r
<1>4. /\ v.id = pid => /\ Waits(Range(s.queue), pid) = {v.retry}
                       /\ Waits(Range(r.queue), pid) = {}
      /\ v.id # pid => Waits(Range(r.queue), pid) = Waits(Range(s.queue), pid)
  <2>1. Distinct(s.queue)
    BY <1>2 DEF Bounded
  <2>2. /\ v.id = pid => /\ Waits(Range(s.queue), pid) = {v.retry}
                         /\ Waits(Range(s.queue) \ {v}, pid) = {}
        /\ v.id # pid => Waits(Range(s.queue) \ {v}, pid) = Waits(Range(s.queue), pid)
    BY <1>1, <1>6, <2>1, WaitsRemove
  <2> QED BY <1>1, <2>2
<1>5. /\ v.id # pid => Retries(Range(r.rtqueue), pid) = Retries(Range(s.rtqueue), pid)
      /\ v.id = pid => Retries(Range(r.rtqueue), pid) \in
                         Joined(free, {v.retry}, Retries(Range(s.rtqueue), pid))
  BY <1>2, <1>3, RetriesWait
<1>7. Shifts(free, pid, v, s, r)
  BY <1>4, <1>5 DEF Shifts
<1> QED BY <1>7 DEF v, r

\* Of the packets in the queues of s, those combined with e so far have
\* moved, and the others have not.
Sorted(free, pid, s, e, r) ==
  LET W == Waits(Range(s.queue), pid)
      A == Retries(Range(s.rtqueue), pid)
      V == Waits(Range(r.s.queue), pid)
      B == Retries(Range(r.s.rtqueue), pid)
  IN  /\ e.id \in Contents(r)
      /\ pid = e.id => V = {} /\ B = A
      /\ pid # e.id /\ pid \in Contents(r) => W # {} /\ V = {} /\ B \in Joined(free, W, A)
      /\ pid \notin Contents(r) => V = W /\ B = A

LEMMA TurnSorts ==
  ASSUME NEW free, free \/ Room, NEW me \in Node, NEW X, NEW n, NEW r \in Codes(me, X, n),
         Tied(r.s), NEW s, NEW e, NEW pid, Sorted(free, pid, s, e, r), NEW i \in 1..n, NEW q,
         Skips(r, q) \/ Joins(me, r, q, i)
  PROVE  Sorted(free, pid, s, e, q)
<1>1. CASE Skips(r, q)
  <2>1. q.natives = r.natives /\ q.s.queue = r.s.queue /\ q.s.rtqueue = r.s.rtqueue
    <3>1. q.s = r.s \/ \E where \in Mishaps : q.s = Abort(r.s, where)
      BY <1>1 DEF Skips
    <3>2. r.s \in Typed(me, X)
      BY DEF Codes
    <3>3. q.s.queue = r.s.queue /\ q.s.rtqueue = r.s.rtqueue
      BY <3>1, <3>2 DEF Abort, Typed, IState
    <3> QED BY <1>1, <3>3 DEF Skips
  <2> QED BY <2>1 DEF Sorted, Contents
<1>2. CASE Joins(me, r, q, i)
  <2> DEFINE v == Head(r.s.nbrs[i].vq)
             t == Take(r.s, i)
  <2>1. r.s \in Typed(me, X) /\ i \in DOMAIN r.s.nbrs /\ r.s.nbrs[i].vq # <<>>
    <3> HIDE DEF v, t
    <3>1. r.s \in Typed(me, X) /\ Len(r.s.nbrs) = n
      BY DEF Codes
    <3>2. r.s.nbrs \in Seq(Neighbor)
      BY <3>1, Fields, Zenon
    <3>3. Combines(r, i)
      BY <1>2, Zenon DEF Joins
    <3>4. DOMAIN r.s.nbrs = 1..n
      BY <3>1, <3>2
    <3> QED BY <3>1, <3>3, <3>4 DEF Combines
  <2>2. q.s = t /\ Contents(q) = Contents(r) \union {v.id}
    <3>1. q.s = t /\ q.natives = r.natives \union {[mac |-> v.dest, pid |-> v.id]}
      BY <1>2, Zenon DEF Joins
    <3> HIDE DEF v
    <3>2. \A x : x \in q.natives <=> x \in r.natives \/ x = [mac |-> v.dest, pid |-> v.id]
      BY <3>1
    <3>3. [mac |-> v.dest, pid |-> v.id].pid = v.id
      OBVIOUS
    <3>4. \A x : x \in Contents(q) <=> x \in Contents(r) \/ x = v.id
      BY <3>2, <3>3 DEF Contents
    <3> HIDE DEF t
    <3>5. Contents(q) = Contents(r) \union {v.id}
      BY <3>4, Zenon
    <3> QED BY <3>1, <3>5, Zenon
  <2>3. Shifts(free, pid, v, r.s, t)
    BY <2>1, TakeRetries
  <2> HIDE DEF v, t
  <2>4. CASE v.id = pid
    <3>1. Waits(Range(r.s.queue), pid) # {}
      BY <2>3, <2>4 DEF Shifts
    <3>2. pid # e.id /\ pid \notin Contents(r)
      BY <3>1 DEF Sorted
    <3>3. pid \in Contents(q) /\ e.id \in Contents(q)
      BY <2>2, <2>4 DEF Sorted
    <3> QED BY <2>2, <2>3, <2>4, <3>1, <3>2, <3>3 DEF Sorted, Shifts
  <2>5. CASE v.id # pid
    <3>1. (pid \in Contents(q) <=> pid \in Contents(r)) /\ e.id \in Contents(q)
      BY <2>2, <2>5 DEF Sorted
    <3> QED BY <2>2, <2>3, <2>5, <3>1 DEF Sorted, Shifts
  <2> QED BY <2>4, <2>5
<1> QED BY <1>1, <1>2

\* The packets of r have left the queues of s and the hand, for the other
\* queue if they are sent together.
Packed(free, pid, s, e, r) ==
  LET W == Waits(Range(s.queue) \union {e}, pid)
      A == Retries(Range(s.rtqueue), pid)
      V == Waits(Range(r.s.queue), pid)
      B == Retries(Range(r.s.rtqueue), pid)
  IN  /\ pid \notin Contents(r) => V = W /\ B = A
      /\ pid \in Contents(r) =>
           W # {} /\ V = {} /\ (IF Coded(r) THEN B \in Joined(free, W, A) ELSE B = A)

\* What Encode does to the packet in hand and to those of its neighbours.
LEMMA EncodePacks ==
  ASSUME NEW free, free \/ Room, NEW me \in Node, NEW X, NEW s \in Typed(me, X), Tied(s),
         NEW D, NEW e \in Entry, ~e.hello, e.dest # Broadcast, SearchMac(s.nbrs, e.dest) # 0,
         e.id \notin Ids(s.queue), Stocked(me, D, s) => Wanted(D, s.pool, e), NEW pid,
         Running(Encode(s, e).s)
  PROVE  Packed(free, pid, s, e, Encode(s, e))
<1> DEFINE n == Len(s.nbrs)
           Ready(r) == Coding(s, r) /\ Sorted(free, pid, s, e, r)
           Own0 == Waits(Range(s.queue), e.id)
<1>1. PICK f : /\ EncodesBy(f, s, e)
               /\ \A i \in 0..n : f[i] \in Codes(me, X, n)
  BY EncodeRuns
<1>2. n \in Nat /\ s.nbrs \in Seq(Neighbor)
  BY Fields
<1>3. f[0] = EncodeStart(s, e)
  BY <1>1 DEF EncodesBy
<1>4. Own0 = {}
  BY WaitsNone
<1>5. Ready(f[0])
  <2>1. f[0].s = s /\ f[0].natives = {Own(e)}
    BY <1>3 DEF EncodeStart, Own
  <2>2. Contents(f[0]) = {e.id}
    BY <2>1 DEF Contents, Own
  <2>3. Sorted(free, pid, s, e, f[0])
    BY <1>4, <2>1, <2>2 DEF Sorted
  <2>4. Coding(s, f[0])
    BY <1>3, EncodeStartCoding
  <2> QED BY <2>3, <2>4
<1> DEFINE T == {i \in 0..n : Ready(f[i])}
<1>6. 0 \in T
  BY <1>2, <1>5
<1>7. ASSUME NEW i \in 1..n, i - 1 \in T PROVE i \in T
  <2> DEFINE r == f[i - 1]
             q == f[i]
  <2>1. q = EncodeWith(r, i) /\ r \in Codes(me, X, n) /\ Ready(r)
    BY <1>1, <1>7 DEF EncodesBy
  <2> HIDE DEF r, q
  <2>2. Coding(s, q)
    BY <2>1, EncodeWithCoding
  <2>3. Skips(r, q) \/ Joins(me, r, q, i)
    BY <2>1, EncodeTurn
  <2>4. Tied(r.s)
    BY <2>1 DEF Coding, Keeps
  <2>5. Sorted(free, pid, s, e, q)
    BY <2>1, <2>3, <2>4, TurnSorts
  <2>6. i \in 0..n
    BY <1>2
  <2> QED BY <2>2, <2>5, <2>6 DEF q
<1>8. Ready(f[n])
  <2> HIDE DEF T
  <2>1. 0..n \subseteq T
    BY <1>2, <1>6, <1>7, RangeInduction
  <2> QED BY <1>2, <2>1 DEF T
<1> DEFINE r == f[n]
           out == Encode(s, e)
           q == r.s.rtqueue
           p == IF HitMax(e) THEN q ELSE EnqueueBack(q, e)
<1>9. r \in Codes(me, X, n) /\ r.s \in Typed(me, X) /\ q \in Bounded(RtEntry)
  <2>1. r \in Codes(me, X, n)
    BY <1>1, <1>2
  <2>2. r.s \in Typed(me, X)
    BY <2>1 DEF Codes
  <2> QED BY <2>1, <2>2, Fields
<1>10. out = IF Running(r.s) /\ r.encoded /\ ~HitMax(e)
             THEN [r EXCEPT !.s.rtqueue = EnqueueBack(@, e)]
             ELSE r
  BY <1>1 DEF EncodesBy
<1>11. Sorted(free, pid, s, e, r)
  BY <1>8
<1> HIDE DEF r, out, Ready, T
<1>12. /\ out.natives = r.natives /\ out.encoded = r.encoded /\ out.s.queue = r.s.queue
       /\ out.s.rtqueue = IF out.encoded THEN p ELSE q
  <2>1. CASE Running(r.s) /\ r.encoded /\ ~HitMax(e)
    <3> DEFINE b == EnqueueBack(r.s.rtqueue, e)
               u == [r.s EXCEPT !.rtqueue = b]
    <3>1. out = [r EXCEPT !.s = u]
      BY <1>10, <2>1
    <3> HIDE DEF b
    <3>2. u.rtqueue = b /\ u.queue = r.s.queue
      BY <1>9 DEF Typed, IState
    <3> HIDE DEF u
    <3>3. out.s = u /\ out.natives = r.natives /\ out.encoded = r.encoded
      BY <1>9, <3>1 DEF Codes
    <3> QED BY <2>1, <3>2, <3>3 DEF b
  <2>2. CASE ~(Running(r.s) /\ r.encoded /\ ~HitMax(e))
    <3>1. out = r
      BY <1>10, <2>2
    <3>2. Running(r.s)
      BY <3>1 DEF out
    <3> QED BY <2>2, <3>1, <3>2
  <2> QED BY <2>1, <2>2
<1>13. (out.encoded <=> Coded(out)) /\ (~out.encoded => out.natives = {Own(e)})
  BY EncodeLoads DEF out
<1>14. /\ e.id # pid => Retries(Range(p), pid) = Retries(Range(q), pid)
       /\ e.id = pid => Retries(Range(p), pid) \in Joined(free, {e.retry}, Retries(Range(q), pid))
  BY <1>9, RetriesWait
<1>15. Contents(out) = Contents(r)
  BY <1>12 DEF Contents
<1>16. ~out.encoded => Contents(out) = {e.id}
  <2>1. ~out.encoded => Contents(out) = {x.pid : x \in {Own(e)}}
    BY <1>13 DEF Contents
  <2>2. {x.pid : x \in {Own(e)}} = {e.id}
    BY DEF Own
  <2> QED BY <2>1, <2>2
<1>17. Waits(Range(s.queue) \union {e}, pid) =
         Waits(Range(s.queue), pid) \union (IF e.id = pid THEN {e.retry} ELSE {})
  BY WaitsAdd
<1> HIDE DEF p, q, n
<1>18. CASE pid = e.id
  <2>1. Waits(Range(s.queue) \union {e}, pid) = {e.retry}
    BY <1>4, <1>17, <1>18
  <2>2. pid \in Contents(out) /\ Waits(Range(r.s.queue), pid) = {}
        /\ Retries(Range(q), pid) = Retries(Range(s.rtqueue), pid)
    BY <1>11, <1>15, <1>18 DEF Sorted, q
  <2>3. Packed(free, pid, s, e, out)
    BY <1>12, <1>13, <1>14, <1>18, <2>1, <2>2 DEF Packed
  <2> QED BY <2>3 DEF out
<1>19. CASE pid # e.id
  <2>1. Waits(Range(s.queue) \union {e}, pid) = Waits(Range(s.queue), pid)
    BY <1>17, <1>19
  <2>2. Retries(Range(out.s.rtqueue), pid) = Retries(Range(r.s.rtqueue), pid)
    BY <1>12, <1>14, <1>19 DEF q
  <2>3. pid \in Contents(out) => Coded(out)
    BY <1>13, <1>16, <1>19
  <2>4. Packed(free, pid, s, e, out)
    BY <1>11, <1>12, <1>15, <1>19, <2>1, <2>2, <2>3 DEF Packed, Sorted
  <2> QED BY <2>4 DEF out
<1> QED BY <1>18, <1>19

\* A packet that is sent as it is.
LEMMA PlainPacks ==
  ASSUME NEW free, NEW s, NEW e, ~e.hello, e.id \notin Ids(s.queue), NEW pid
  PROVE  Packed(free, pid, s, e, Plain(s, e))
<1> DEFINE r == Plain(s, e)
<1>1. r.s = s /\ r.natives = {Own(e)}
  BY DEF Plain, Own
<1>2. Contents(r) = {e.id} /\ ~Coded(r)
  BY <1>1 DEF Contents, Own, Coded
<1>3. e.id = pid => Waits(Range(s.queue), pid) = {}
  BY WaitsNone
<1>4. Waits(Range(s.queue) \union {e}, pid) =
        Waits(Range(s.queue), pid) \union (IF e.id = pid THEN {e.retry} ELSE {})
  BY WaitsAdd
<1> HIDE DEF r
<1>5. Packed(free, pid, s, e, r)
  BY <1>1, <1>2, <1>3, <1>4 DEF Packed
<1> QED BY <1>5 DEF r

-------------------------------------------------------------------------------
(* Handlers turn the lives of packets                                      *)

\* The same life, told of another state of the node.
LEMMA SameLife ==
  ASSUME NEW me, NEW pid, NEW s, NEW E, NEW r, NEW F, NEW k, r.macq = s.macq,
         Waits(Range(r.queue) \union F, pid) = Waits(Range(s.queue) \union E, pid),
         Retries(Range(r.rtqueue), pid) = Retries(Range(s.rtqueue), pid)
  PROVE  LifeIn(me, pid, r, F, k) = LifeIn(me, pid, s, E, k)
BY DEF LifeIn, Spots

\* A frame is handed to a radio.
LEMMA TransmitTurns ==
  ASSUME NEW free, NEW me \in Node, NEW X, NEW s \in Typed(me, X), NEW e, NEW r,
         r.s \in Typed(me, X), SameMemory(s, r.s), r.iface \in Devices(me),
         r.natives \in SUBSET Native, r.payload \in SUBSET Pid, r.dest \in Nat,
         NEW pid, Packed(free, pid, s, e, r), NEW k \in Nat
  PROVE  Reaches(free, LifeIn(me, pid, s, {e}, k), LifeOf(me, pid, Transmit(r), k))
<1> DEFINE t == Transmit(r)
           v == LifeIn(me, pid, s, {e}, k)
           w == LifeOf(me, pid, t, k)
           W == Waits(Range(s.queue) \union {e}, pid)
           A == Retries(Range(s.rtqueue), pid)
           V == Waits(Range(r.s.queue), pid)
           B == Retries(Range(r.s.rtqueue), pid)
           m == Cardinality(Spots(me, s, PlainOf(pid)))
           n == Cardinality(Spots(me, s, CodedOf(pid)))
<1>1. PICK f \in Frame : HandsOver(r, t, f)
  BY TransmitHands
<1>2. Spots(me, r.s, PlainOf(pid)) = Spots(me, s, PlainOf(pid))
      /\ Spots(me, r.s, CodedOf(pid)) = Spots(me, s, CodedOf(pid))
  BY DEF SameMemory, Spots
<1>3. Adds(r.s, t, r.iface, f) /\ t.queue = r.s.queue /\ t.rtqueue = r.s.rtqueue
  BY <1>1 DEF Adds, HandsOver
<1>4. /\ f \in PlainOf(pid) <=> pid \in Contents(r) /\ ~Coded(r)
      /\ f \in CodedOf(pid) <=> pid \in Contents(r) /\ Coded(r)
  <2>1. f.natives = r.natives
    BY <1>1 DEF HandsOver
  <2>2. Contents(f) = Contents(r) /\ (Coded(f) <=> Coded(r))
    BY <2>1 DEF Contents, Coded
  <2> QED BY <2>2 DEF PlainOf, CodedOf
<1> HIDE DEF t
<1>5. /\ Cardinality(Spots(me, t, PlainOf(pid))) = m + (IF f \in PlainOf(pid) THEN 1 ELSE 0)
      /\ Cardinality(Spots(me, t, CodedOf(pid))) = n + (IF f \in CodedOf(pid) THEN 1 ELSE 0)
  BY <1>2, <1>3, SpotsAdd
<1>6. m \in Nat /\ n \in Nat
  BY SpotsFinite
<1> HIDE DEF m, n
<1>7. v = [wait |-> W, again |-> A, plain |-> m, coded |-> n, asked |-> k]
  BY DEF LifeIn, m, n
<1>8. w = [wait |-> V, again |-> B,
           plain |-> m + (IF f \in PlainOf(pid) THEN 1 ELSE 0),
           coded |-> n + (IF f \in CodedOf(pid) THEN 1 ELSE 0), asked |-> k]
  BY <1>3, <1>5 DEF LifeOf, LifeIn
<1> HIDE DEF v, w
<1>9. CASE pid \notin Contents(r)
  <2>1. W = V /\ A = B
    BY <1>9 DEF Packed
  <2>2. f \notin PlainOf(pid) /\ f \notin CodedOf(pid)
    BY <1>4, <1>9
  <2> HIDE DEF W, V, A, B
  <2>3. w = v
    BY <1>6, <1>7, <1>8, <2>1, <2>2
  <2> QED BY <2>3, ReachesSelf DEF v, w, t
<1>10. CASE pid \in Contents(r) /\ ~Coded(r)
  <2>1. W # {} /\ V = {} /\ B = A
    BY <1>10 DEF Packed
  <2>2. f \in PlainOf(pid) /\ f \notin CodedOf(pid)
    BY <1>4, <1>10
  <2> HIDE DEF W, V, A, B
  <2>3. v.wait # {} /\ w = SentAlone(v)
    <3>1. v.wait # {}
      BY <1>7, <2>1
    <3>2. SentAlone(v) = [wait |-> {}, again |-> A, plain |-> m + 1, coded |-> n, asked |-> k]
      BY <1>7 DEF SentAlone
    <3>3. w = [wait |-> {}, again |-> A, plain |-> m + 1, coded |-> n, asked |-> k]
      BY <1>6, <1>8, <2>1, <2>2
    <3> QED BY <3>1, <3>2, <3>3
  <2>4. Reaches(free, v, w)
    BY <2>3, ReachesStep
  <2> QED BY <2>4 DEF v, w, t
<1>11. CASE pid \in Contents(r) /\ Coded(r)
  <2> DEFINE c == SentCoded(v)
             a == Thanks(c)
  <2>1. W # {} /\ V = {} /\ B \in Joined(free, W, A)
    BY <1>11 DEF Packed
  <2>2. f \notin PlainOf(pid) /\ f \in CodedOf(pid)
    BY <1>4, <1>11
  <2> HIDE DEF W, V, A, B
  <2>3. v.wait # {}
    BY <1>7, <2>1
  <2>4. c = [wait |-> {}, again |-> IF A = {} THEN W \ {MaxRetry} ELSE A,
             plain |-> m, coded |-> n + 1, asked |-> k]
    BY <1>7 DEF SentCoded
  <2>5. a = [wait |-> {}, again |-> {}, plain |-> m, coded |-> n + 1, asked |-> k]
    BY <2>4 DEF Thanks
  <2>6. w = [wait |-> {}, again |-> B, plain |-> m, coded |-> n + 1, asked |-> k]
    BY <1>6, <1>8, <2>1, <2>2
  <2> HIDE DEF c, a
  <2>7. B = (IF A = {} THEN W \ {MaxRetry} ELSE A) \/ (free /\ B = A)
    BY <2>1 DEF Joined
  <2>8. w = c \/ (free /\ w = a)
    BY <2>4, <2>5, <2>6, <2>7
  <2>9. Reaches(free, v, c)
    BY <2>3, ReachesStep DEF c
  <2>10. free => Reaches(free, c, a)
    BY ReachesStep DEF a
  <2>11. Reaches(free, v, w)
    BY <2>8, <2>9, <2>10, ReachesChain
  <2> QED BY <2>11 DEF v, w, t
<1> QED BY <1>9, <1>10, <1>11

\* What a handler may do to packet pid, with an entry e in hand.
TurnsFrom(me, pid, free, s, e, r) ==
  Running(r) =>
    /\ Running(s)
    /\ \A k \in Nat : Reaches(free, LifeIn(me, pid, s, {e}, k), LifeOf(me, pid, r, k))

\* The timer is armed.
LEMMA DoSendEndUnmoved ==
  ASSUME NEW me \in Node, NEW X, NEW s \in Typed(me, X)
  PROVE  Unmoved(s, DoSendEnd(s))
<1>1. s.timer \in Timer
  BY Fields
<1>2. DoSendEnd(s) \in {s, [s EXCEPT !.timer = "running"], Abort(s, "TimerPending")}
  BY <1>1 DEF DoSendEnd, Timer
<1>3. ASSUME NEW r \in {s, [s EXCEPT !.timer = "running"], Abort(s, "TimerPending")}
      PROVE  Unmoved(s, r)
  <2>1. CASE r = s
    BY <2>1 DEF Unmoved
  <2>2. CASE r = [s EXCEPT !.timer = "running"]
    BY <2>2 DEF Unmoved, Running, Typed, IState
  <2>3. CASE r = Abort(s, "TimerPending")
    BY <2>3 DEF Unmoved, Running, Abort, Typed, IState
  <2> QED BY <2>1, <2>2, <2>3
<1> QED BY <1>2, <1>3

\* What was taken in hand, and a handler that goes on.
LEMMA TurnsFromChain ==
  ASSUME NEW me, NEW pid, NEW free, NEW s, NEW e, NEW r, NEW t,
         TurnsFrom(me, pid, free, s, e, r), Unmoved(r, t)
  PROVE  TurnsFrom(me, pid, free, s, e, t)
<1> SUFFICES ASSUME Running(t)
             PROVE  /\ Running(s)
                    /\ \A k \in Nat : Reaches(free, LifeIn(me, pid, s, {e}, k),
                                              LifeOf(me, pid, t, k))
  BY DEF TurnsFrom
<1>1. Running(r) /\ Running(s)
  BY DEF TurnsFrom, Unmoved
<1>2. ASSUME NEW k \in Nat
      PROVE  Reaches(free, LifeIn(me, pid, s, {e}, k), LifeOf(me, pid, t, k))
  <2>1. LifeOf(me, pid, t, k) = LifeOf(me, pid, r, k)
    BY SameLife DEF Unmoved, LifeOf
  <2> QED BY <1>1, <2>1 DEF TurnsFrom
<1> QED BY <1>1, <1>2

\* The entry in hand goes back to the queue.
LEMMA PutBackTurns ==
  ASSUME NEW free, NEW me \in Node, NEW X, NEW s \in Typed(me, X), Running(s), NEW e \in Entry,
         Accepts(s.queue, e), NEW pid
  PROVE  TurnsFrom(me, pid, free, s, e, PutBack(s, e))
<1> DEFINE q == EnqueueFront(s.queue, e)
           u == [s EXCEPT !.queue = q]
           pos == SearchMac(u.nbrs, e.dest)
           b == PutBack(s, e)
<1>1. s.queue \in Bounded(Entry) /\ q \in Bounded(Entry)
  BY Fields, EnqueueFrontBounded
<1>2. Range(q) = Range(s.queue) \union {e} /\ q[1] = e
  BY <1>1, WaitingEnqueue
<1>3. b = IF e.dest = Broadcast THEN u
          ELSE IF pos = 0 THEN Abort(u, "NeighborGone")
          ELSE AddVirtualQueueEntryFront(u, pos, u.queue[1])
  BY DEF PutBack
<1> HIDE DEF q, b
<1>4. u \in Typed(me, X) /\ u.queue = q /\ u.rtqueue = s.rtqueue /\ u.macq = s.macq
  <2>1. u \in Typed(me, X)
    BY <1>1, UpdateTyped, Zenon
  <2>2. s \in IState(me)
    BY DEF Typed
  <2>3. u.queue = q /\ u.rtqueue = s.rtqueue /\ u.macq = s.macq
    BY <2>2 DEF IState
  <2> QED BY <2>1, <2>3
<1> HIDE DEF u
<1>5. pos # 0 => LET w == AddVirtualQueueEntryFront(u, pos, e)
                 IN  w.queue = u.queue /\ w.rtqueue = u.rtqueue /\ SameMemory(u, w)
  <2>1. pos # 0 => pos \in DOMAIN u.nbrs
    BY <1>4, Fields, SearchMacProperties
  <2> QED BY <1>4, <2>1, VirtualEntryMemory
<1>6. b.queue = q /\ b.rtqueue = s.rtqueue /\ b.macq = s.macq
  <2>1. LET w == Abort(u, "NeighborGone")
        IN  w.queue = u.queue /\ w.rtqueue = u.rtqueue /\ w.macq = u.macq
    BY <1>4 DEF Abort, Typed, IState
  <2> HIDE DEF pos
  <2> QED BY <1>2, <1>3, <1>4, <1>5, <2>1 DEF SameMemory
<1>7. ASSUME NEW k \in Nat
      PROVE  LifeOf(me, pid, b, k) = LifeIn(me, pid, s, {e}, k)
  BY <1>2, <1>6, SameLife DEF LifeOf
<1> QED BY <1>7, ReachesSelf DEF TurnsFrom, b

\* A packet is sent, with others if they fit, or put back.
LEMMA SendDataTurns ==
  ASSUME NEW free, free \/ Room, NEW me \in Node, NEW X, NEW s \in Typed(me, X), Running(s),
         Tied(s), NEW D, NEW e \in Entry, ~e.hello, Accepts(s.queue, e),
         e.dest # Broadcast => /\ SearchMac(s.nbrs, e.dest) # 0
                               /\ <<e.id, NameIn(s.nbrs, e.dest)>> \notin s.info,
         Stocked(me, D, s) => Wanted(D, s.pool, e), NEW pid
  PROVE  TurnsFrom(me, pid, free, s, e, SendData(s, e))
<1> DEFINE r == IF s.queue # <<>> /\ e.dest # Broadcast THEN Encode(s, e) ELSE Plain(s, e)
           Q == Range(s.queue) \union {e}
           b == PutBack(s, e)
           t == Transmit(r)
           u == r.s
<1>1. /\ u \in Typed(me, X) /\ Composes(me, Q, s, e, r)
      /\ r.natives \in SUBSET Native /\ r.payload \in SUBSET Pid /\ r.dest \in Nat
      /\ Running(u) => Packed(free, pid, s, e, r)
  <2>1. CASE s.queue # <<>> /\ e.dest # Broadcast
    <3>1. r = Encode(s, e)
      BY <2>1
    <3>2. Running(Encode(s, e).s) => Packed(free, pid, s, e, Encode(s, e))
      BY <2>1, EncodePacks DEF Accepts
    <3> QED BY <2>1, <3>1, <3>2, EncodeType, EncodeComposes
  <2>2. CASE ~(s.queue # <<>> /\ e.dest # Broadcast)
    <3>1. r = Plain(s, e)
      BY <2>2
    <3>2. Composes(me, Q, s, e, r)
      BY <3>1, PlainComposes
    <3>3. /\ r.s = s /\ r.natives = {Own(e)} /\ r.payload = {e.id} /\ r.dest = e.dest
          /\ Own(e) \in Native /\ e.id \in Pid /\ e.dest \in Nat
      BY <3>1, EntryFields DEF Plain, Own
    <3>4. Packed(free, pid, s, e, r)
      BY <3>1, PlainPacks DEF Accepts
    <3> HIDE DEF r, Q
    <3> QED BY <3>2, <3>3, <3>4
  <2> QED BY <2>1, <2>2
<1>2. SendData(s, e) =
        IF ~Running(r.s) THEN r.s
        ELSE IF ~r.encoded /\ e.iface \notin DevicesIf(s) THEN DoSendEnd(PutBack(s, e))
        ELSE DoSendEnd(Transmit(r))
  BY DEF SendData
<1> HIDE DEF r
<1>3. s.me = me
  BY Fields
<1>4. CASE ~Running(u)
  BY <1>2, <1>4 DEF TurnsFrom
<1>5. CASE Running(u) /\ ~r.encoded /\ e.iface \notin DevicesIf(s)
  <2>1. b \in Typed(me, X) /\ TurnsFrom(me, pid, free, s, e, b)
    BY PutBackTyped, PutBackTurns
  <2> HIDE DEF b
  <2>2. TurnsFrom(me, pid, free, s, e, DoSendEnd(b))
    BY <2>1, DoSendEndUnmoved, TurnsFromChain
  <2> QED BY <1>2, <1>5, <2>2 DEF b
<1>6. CASE Running(u) /\ ~(~r.encoded /\ e.iface \notin DevicesIf(s))
  <2>1. r.iface \in Devices(me)
    BY <1>1, <1>3, <1>6 DEF Composes, DevicesIf
  <2>2. t \in Typed(me, X)
    BY <1>1, <1>6, TransmitTyped
  <2>3. SameMemory(s, u)
    BY <1>1 DEF Composes
  <2>4. ASSUME NEW k \in Nat
        PROVE  Reaches(free, LifeIn(me, pid, s, {e}, k), LifeOf(me, pid, t, k))
    BY <1>1, <1>6, <2>1, <2>3, TransmitTurns
  <2>5. TurnsFrom(me, pid, free, s, e, t)
    BY <2>4 DEF TurnsFrom
  <2> HIDE DEF t
  <2>6. TurnsFrom(me, pid, free, s, e, DoSendEnd(t))
    BY <2>2, <2>5, DoSendEndUnmoved, TurnsFromChain
  <2> QED BY <1>2, <1>6, <2>6 DEF t, u
<1> QED BY <1>4, <1>5, <1>6

\* The handler starts with taking the first entry of the output queue.
LEMMA DequeuedTurns ==
  ASSUME NEW me \in Node, NEW X, NEW s \in Typed(me, X), s.queue # <<>>, NEW pid, NEW free,
         NEW u, u.queue = Tail(s.queue), u.rtqueue = s.rtqueue, u.macq = s.macq,
         Running(u) => Running(s), NEW r, TurnsFrom(me, pid, free, u, Head(s.queue), r)
  PROVE  Turns(me, pid, free, 0, s, r)
<1> DEFINE e == Head(s.queue)
<1>1. s.queue \in Bounded(Entry)
  BY Fields
<1>2. Range(u.queue) \union {e} = Range(s.queue)
  BY <1>1, WaitingTail
<1>3. ASSUME NEW k \in Nat PROVE LifeIn(me, pid, u, {e}, k) = LifeOf(me, pid, s, k + 0)
  <2>1. k + 0 = k
    OBVIOUS
  <2>2. Range(u.queue) \union {e} = Range(s.queue) \union {}
    BY <1>2
  <2> HIDE DEF e
  <2>3. LifeIn(me, pid, u, {e}, k) = LifeIn(me, pid, s, {}, k)
    <3>1. Waits(Range(u.queue) \union {e}, pid) = Waits(Range(s.queue) \union {}, pid)
          /\ Retries(Range(u.rtqueue), pid) = Retries(Range(s.rtqueue), pid)
      BY <2>2
    <3> QED BY <3>1, SameLife
  <2> QED BY <2>1, <2>3 DEF LifeOf
<1> HIDE DEF e
<1>4. ASSUME Running(r), NEW k \in Nat
      PROVE  Reaches(free, LifeOf(me, pid, s, k), LifeOf(me, pid, r, k + 0))
  <2>1. k + 0 = k
    OBVIOUS
  <2> QED BY <1>3, <1>4, <2>1 DEF TurnsFrom, e
<1> QED BY <1>4 DEF Turns, TurnsFrom

\* No neighbour that is a next hop of pid is believed to have it.
Uninformed(me, pid, s) ==
  \A m \in Node : Leads(me, m, pid) => \A mac \in Macs(m) : <<pid, mac>> \notin s.info

\* A packet that is not free to get lost has no reason to.
Bound(free, me, pid, s) ==
  free \/ (Room /\ WellConfigured /\ Routed /\ pid \notin HelloIds /\ Uninformed(me, pid, s))

\* Beliefs only grow.
LEMMA BoundBefore ==
  ASSUME NEW free, NEW me, NEW pid, NEW s, NEW r, Bound(free, me, pid, r), s.info \subseteq r.info
  PROVE  Bound(free, me, pid, s)
BY DEF Bound, Uninformed

\* A node whose neighbours, queues and frames are in order.
Healthy(me, X, s) == s \in Good(me, X) /\ Tied(s) /\ Whole(s) /\ Stocked(me, Duty(me), s)

\* Then hellos have other ids.
LEMMA UnlikeHellos ==
  ASSUME NEW me, NEW X, NEW s, Healthy(me, X, s), NEW free, NEW pid, Bound(free, me, pid, s)
  PROVE  free \/ Unlike(s.queue, pid)
BY DEF Healthy, Stocked, Fair, Bound, Unlike

\* The first entry of the output queue is dropped.
LEMMA DroppedTurns ==
  ASSUME NEW me \in Node, NEW X, NEW s \in Typed(me, X), s.queue # <<>>, NEW pid, NEW free,
         ~Head(s.queue).hello, free \/ Head(s.queue).id # pid,
         NEW r, r.queue = Tail(s.queue), r.rtqueue = s.rtqueue, r.macq = s.macq,
         Running(r) => Running(s)
  PROVE  Turns(me, pid, free, 0, s, r)
<1> DEFINE e == Head(s.queue)
<1>1. s.queue \in Bounded(Entry)
  BY Fields
<1>2. Range(r.queue) = Range(s.queue) \ {e} /\ e \in Range(s.queue)
  BY <1>1, WaitingTail
<1>3. Distinct(s.queue)
  BY <1>1 DEF Bounded
<1>7. ~e.hello
  OBVIOUS
<1> HIDE DEF e
<1>6. /\ e.id # pid => Waits(Range(s.queue) \ {e}, pid) = Waits(Range(s.queue), pid)
      /\ e.id = pid => Waits(Range(s.queue) \ {e}, pid) = {}
  BY <1>2, <1>3, <1>7, WaitsRemove
<1>4. ASSUME NEW k \in Nat PROVE Reaches(free, LifeOf(me, pid, s, k), LifeOf(me, pid, r, k))
  <2>1. CASE e.id # pid
    <3>1. Waits(Range(r.queue), pid) = Waits(Range(s.queue), pid)
      BY <1>2, <1>6, <2>1
    <3>2. LifeOf(me, pid, r, k) = LifeOf(me, pid, s, k)
      BY <3>1, SameLife DEF LifeOf
    <3> QED BY <3>2, ReachesSelf
  <2>2. CASE e.id = pid
    <3> DEFINE v == LifeOf(me, pid, s, k)
    <3>1. Waits(Range(r.queue), pid) = {} /\ free
      BY <1>2, <1>6, <2>2 DEF e
    <3>2. LifeOf(me, pid, r, k) = GivenUp(v)
      BY <3>1 DEF LifeOf, LifeIn, GivenUp, Spots
    <3> HIDE DEF v
    <3>3. Reaches(free, v, GivenUp(v))
      BY <3>1, ReachesStep
    <3> QED BY <3>2, <3>3 DEF v
  <2> QED BY <2>1, <2>2
<1>5. ASSUME NEW k \in Nat
      PROVE  Reaches(free, LifeOf(me, pid, s, k), LifeOf(me, pid, r, k + 0))
  <2>1. k + 0 = k
    OBVIOUS
  <2> QED BY <1>4, <2>1
<1> QED BY <1>5 DEF Turns

\* The next hop of a packet in the queue is a node.
LEMMA LegOfNode ==
  ASSUME Routed, NEW me \in Node, NEW mac, NEW pid, <<mac, pid>> \in Duty(me).legs
  PROVE  \E m \in Node : m # me /\ Leads(me, m, pid) /\ mac \in Macs(m)
<1>1. pid \in Pid /\ Forwards(me, pid) /\ Route[me][pid].dest = mac
  BY LegsLead
<1>2. \E m \in Node \ {me} : Leads(me, m, pid)
  BY <1>1 DEF Routed
<1> QED BY <1>1, <1>2 DEF Leads

\* A packet for a known next hop is sent, or the next hop is known to have it.
LEMMA SendUnicastTurns ==
  ASSUME NEW me \in Node, NEW X, NEW s, Healthy(me, X, s), Running(s), NEW free, NEW pid,
         Bound(free, me, pid, s), s.queue # <<>>, ~Head(s.queue).hello,
         Head(s.queue).dest # Broadcast
  PROVE  Turns(me, pid, free, 0, s, SendUnicast(s, Head(s.queue)))
<1> DEFINE D == Duty(me)
           e == Head(s.queue)
           pos == SearchMac(s.nbrs, e.dest)
           u == Dequeued(s, pos, e.id)
           r == SendUnicast(s, e)
<1>1. /\ s \in Typed(me, X) /\ s.nbrs \in Seq(Neighbor) /\ s.queue \in Bounded(Entry)
      /\ Tied(s) /\ Whole(s) /\ Stocked(me, D, s)
  BY Fields DEF Good, Healthy
<1>2. /\ Range(Tail(s.queue)) \subseteq Range(s.queue) /\ e \in Range(s.queue) /\ e \in Entry
      /\ Accepts(Tail(s.queue), e) /\ ~e.hello /\ e.dest # Broadcast
  BY <1>1, WaitingTail
<1>3. r = IF pos = 0 THEN Abort(s, "NeighborMissing")
          ELSE IF e.id \notin Ids(s.nbrs[pos].vq) THEN Abort(s, "VirtualQueueRemove")
          ELSE IF Knows(s, e.id, s.nbrs[pos]) THEN DoSendEnd(u) ELSE SendData(u, e)
  BY DEF SendUnicast, Dequeued
<1>4. pos # 0 => pos \in DOMAIN s.nbrs /\ HasMac(s.nbrs[pos], e.dest)
  BY <1>1, SearchMacProperties
<1>5. /\ ~Running(Abort(s, "NeighborMissing"))
      /\ ~Running(Abort(s, "VirtualQueueRemove"))
  BY <1>1, AbortGood DEF Aborts
<1>6. ASSUME pos # 0, e.id \in Ids(s.nbrs[pos].vq)
      PROVE  /\ Knows(s, e.id, s.nbrs[pos]) => Turns(me, pid, free, 0, s, DoSendEnd(u))
             /\ ~Knows(s, e.id, s.nbrs[pos]) => Turns(me, pid, free, 0, s, SendData(u, e))
  <2>1. u \in Typed(me, X) /\ Running(u) /\ SearchMac(u.nbrs, e.dest) # 0
    <3> HIDE DEF u
    <3>1. SearchMac(s.nbrs, e.dest) = pos
      OBVIOUS
    <3> HIDE DEF pos, e
    <3> QED BY <1>1, <1>4, <1>6, <3>1, DequeueTyped DEF u
  <2>2. /\ SameMemory(s, u) /\ u.rtqueue = s.rtqueue /\ u.queue = Tail(s.queue)
        /\ SameRadios(s.nbrs, u.nbrs) /\ u.abort = s.abort
    <3>1. pos \in DOMAIN s.nbrs
      BY <1>4, <1>6
    <3> HIDE DEF pos, e
    <3> QED BY <1>1, <3>1, DequeueMoves
  <2>3. Tied(u) /\ Stocked(me, D, u)
    <3>1. pos \in DOMAIN s.nbrs /\ pos = SearchMac(s.nbrs, e.dest)
      BY <1>4, <1>6
    <3>2. u.timer = s.timer
      BY <1>1 DEF Dequeued, Typed, IState
    <3> HIDE DEF pos, u
    <3>3. Keeps(s, Dequeued(s, pos, Head(s.queue).id))
      BY <1>1, <1>6, <3>1, DequeueKeeps
    <3> HIDE DEF e, D
    <3>4. Stays(me, D, s, u)
      BY <1>2, <2>2, <3>2, FewerStays DEF SameMemory
    <3> QED BY <1>1, <3>3, <3>4 DEF u, e, Keeps, Stays
  <2>4. Remembers(s.nbrs, e.dest) /\ NameIn(s.nbrs, e.dest) = GetMac(s.nbrs[pos])
    <3>1. Remembers(s.nbrs, e.dest)
      BY <1>4, <1>6 DEF Remembers
    <3> QED BY <3>1 DEF NameIn, OwnerIn
  <2>5. NameIn(u.nbrs, e.dest) = GetMac(s.nbrs[pos])
    <3> HIDE DEF u, pos, e
    <3> QED BY <1>1, <2>2, <2>4, SameOwner
  <2>6. Wanted(D, s.pool, e)
    BY <1>1, <1>2 DEF Stocked, Fair
  <2> HIDE DEF u, pos, D
  <2>7. ASSUME Knows(s, e.id, s.nbrs[pos]) PROVE Turns(me, pid, free, 0, s, DoSendEnd(u))
    <3>1. free \/ e.id # pid
      <4>1. SUFFICES ASSUME ~free, e.id = pid PROVE FALSE
        OBVIOUS
      <4>2. PICK m \in Node : m # me /\ Leads(me, m, pid) /\ e.dest \in Macs(m)
        BY <2>6, <4>1, LegOfNode DEF Bound, Wanted, D
      <4> HIDE DEF e
      <4>3. NameIn(s.nbrs, e.dest) \in Macs(m)
        BY <1>1, <2>4, <4>1, <4>2, NameOfNode DEF Bound
      <4> QED BY <2>4, <2>7, <4>1, <4>2, <4>3 DEF Bound, Uninformed, Knows
    <3>2. Unmoved(u, DoSendEnd(u))
      BY <2>1, DoSendEndUnmoved
    <3>3. LET q == DoSendEnd(u)
          IN  /\ q.queue = Tail(s.queue) /\ q.rtqueue = s.rtqueue /\ q.macq = s.macq
              /\ Running(q) => Running(s)
      BY <2>2, <3>2 DEF Unmoved, SameMemory, Running
    <3> QED BY <1>1, <3>1, <3>3, DroppedTurns
  <2>8. ASSUME ~Knows(s, e.id, s.nbrs[pos]) PROVE Turns(me, pid, free, 0, s, SendData(u, e))
    <3>1. <<e.id, NameIn(u.nbrs, e.dest)>> \notin u.info
      BY <2>2, <2>5, <2>8 DEF Knows, SameMemory
    <3>2. Wanted(D, u.pool, e)
      BY <2>2, <2>6 DEF SameMemory, Wanted
    <3>3. free \/ Room
      BY DEF Bound
    <3> HIDE DEF e
    <3>4. TurnsFrom(me, pid, free, u, e, SendData(u, e))
      BY <1>2, <2>1, <2>2, <2>3, <3>1, <3>2, <3>3, SendDataTurns
    <3> QED BY <1>1, <2>2, <3>4, DequeuedTurns DEF SameMemory, e
  <2> QED BY <2>7, <2>8
<1>7. ASSUME NEW q, ~Running(q) PROVE Turns(me, pid, free, 0, s, q)
  BY <1>7 DEF Turns
<1> HIDE DEF u, pos, e, r
<1> QED BY <1>3, <1>5, <1>6, <1>7 DEF r, e


\* A hello is sent, or waits for its radio.
LEMMA SendHelloEntryTurns ==
  ASSUME NEW me \in Node, NEW X, NEW s \in Typed(me, X), NEW free, NEW pid, s.queue # <<>>,
         Head(s.queue).hello
  PROVE  Turns(me, pid, free, 0, s, SendHelloEntry(s, Head(s.queue)))
<1> DEFINE e == Head(s.queue)
           d == e.iface
           f == HelloFrame(s, d)
           r == SendHelloEntry(s, e)
<1>1. s.queue \in Bounded(Entry) /\ s.me = me /\ s.macq \in [Devices(me) -> Seq(Frame)]
  BY Fields
<1>2. CASE e.iface \notin DevicesIf(s)
  <2>1. Unmoved(s, r)
    BY <1>2 DEF SendHelloEntry, Unmoved
  <2> QED BY <2>1, UnmovedTurns
<1>3. CASE e.iface \in DevicesIf(s)
  <2>1. d \in Devices(me)
    BY <1>1, <1>3 DEF DevicesIf
  <2>2. f \in Frame
    <3>1. RadiosOf[me] \in Seq(Trinity) /\ d \in 1..Len(RadiosOf[me])
      BY <2>1, RadiosAssumption DEF Devices
    <3>2. RadiosOf[me][d] \in Trinity
      BY <3>1
    <3> QED BY <1>1, <2>1, <3>2 DEF Frame, HelloFrame, Trinity, Broadcast
  <2>3. f \notin PlainOf(pid) /\ f \notin CodedOf(pid)
    <3>1. f.natives = {}
      BY DEF HelloFrame
    <3>2. pid \notin Contents(f)
      BY <3>1 DEF Contents
    <3> QED BY <3>2 DEF PlainOf, CodedOf
  <2>4. /\ r.macq = [s.macq EXCEPT ![d] = Append(@, f)] /\ r.queue = Tail(s.queue)
        /\ r.rtqueue = s.rtqueue /\ r.abort = s.abort
    BY <1>3 DEF SendHelloEntry, ForwardDown, Typed, IState
  <2> HIDE DEF r, f, d
  <2>5. /\ Cardinality(Spots(me, r, PlainOf(pid))) = Cardinality(Spots(me, s, PlainOf(pid)))
        /\ Cardinality(Spots(me, r, CodedOf(pid))) = Cardinality(Spots(me, s, CodedOf(pid)))
    <3>1. Adds(s, r, d, f)
      BY <2>4 DEF Adds
    <3>2. ASSUME NEW C, f \notin C
          PROVE  Cardinality(Spots(me, r, C)) = Cardinality(Spots(me, s, C))
      <4>1. Cardinality(Spots(me, r, C)) =
              Cardinality(Spots(me, s, C)) + (IF f \in C THEN 1 ELSE 0)
        BY <2>1, <2>2, <3>1, SpotsAdd
      <4>2. Cardinality(Spots(me, s, C)) \in Nat
        BY SpotsFinite
      <4> QED BY <3>2, <4>1, <4>2
    <3> QED BY <2>3, <3>2
  <2>6. Waits(Range(r.queue), pid) = Waits(Range(s.queue), pid)
    <3>1. Range(Tail(s.queue)) = Range(s.queue) \ {e} /\ e \in Range(s.queue) /\ Distinct(s.queue)
      BY <1>1, WaitingTail DEF Bounded
    <3>2. e.hello
      OBVIOUS
    <3> HIDE DEF e
    <3>3. Data(Range(s.queue) \ {e}) = Data(Range(s.queue))
      BY <3>2 DEF Data
    <3> QED BY <2>4, <3>1, <3>3 DEF Waits
  <2>7. ASSUME NEW k \in Nat PROVE LifeOf(me, pid, r, k + 0) = LifeOf(me, pid, s, k)
    <3>1. k + 0 = k
      OBVIOUS
    <3> QED BY <2>4, <2>5, <2>6, <3>1 DEF LifeOf, LifeIn
  <2> QED BY <2>4, <2>7, ReachesSelf DEF Turns, Running, r, e
<1> QED BY <1>2, <1>3

\* A sending attempt.
LEMMA TrySendTurns ==
  ASSUME NEW me \in Node, NEW X, NEW s, Healthy(me, X, s), NEW free, NEW pid,
         Bound(free, me, pid, s)
  PROVE  Turns(me, pid, free, 0, s, TrySend(s))
<1> DEFINE e == Head(s.queue)
           u == [s EXCEPT !.queue = Tail(@)]
           h == SendHelloEntry(s, e)
           D == Duty(me)
<1>1. s \in Typed(me, X) /\ s.queue \in Bounded(Entry) /\ Tied(s) /\ Stocked(me, D, s)
  BY Fields DEF Good, Healthy
<1>2. CASE ~(Running(s) /\ DevicesIf(s) # {} /\ s.queue # <<>>)
  <2>1. Unmoved(s, TrySend(s))
    BY <1>2 DEF TrySend, Unmoved
  <2> QED BY <2>1, UnmovedTurns
<1>3. CASE Running(s) /\ DevicesIf(s) # {} /\ s.queue # <<>>
  <2>1. TrySend(s) = IF e.hello THEN DoSendEnd(h)
                     ELSE IF e.dest = Broadcast THEN SendData(u, e)
                     ELSE SendUnicast(s, e)
    BY <1>3 DEF TrySend, DoSend
  <2>5. e \in Range(s.queue)
    BY <1>1, <1>3, WaitingTail
  <2>2. ASSUME e.hello PROVE Turns(me, pid, free, 0, s, DoSendEnd(h))
    <3>1. h \in Typed(me, X) /\ Turns(me, pid, free, 0, s, h)
      BY <1>1, <1>3, <2>2, SendHelloEntryTyped, SendHelloEntryTurns
    <3> HIDE DEF h
    <3>2. Turns(me, pid, free, 0, h, DoSendEnd(h))
      BY <3>1, DoSendEndUnmoved, UnmovedTurns
    <3>3. Turns(me, pid, free, 0 + 0, s, DoSendEnd(h))
      BY <3>1, <3>2, TurnsChain
    <3> QED BY <3>3
  <2>3. ASSUME ~e.hello, e.dest = Broadcast PROVE Turns(me, pid, free, 0, s, SendData(u, e))
    <3>1. /\ Tail(s.queue) \in Bounded(Entry)
          /\ Waiting(Tail(s.queue)) = Waiting(s.queue) \ {e} /\ e \in Entry
          /\ e \in Range(s.queue) /\ Range(Tail(s.queue)) \subseteq Range(s.queue)
          /\ Accepts(Tail(s.queue), e)
      BY <1>1, <1>3, TailBounded, WaitingTail
    <3>2. /\ u.nbrs = s.nbrs /\ u.queue = Tail(s.queue) /\ u.rtqueue = s.rtqueue
          /\ u.abort = s.abort /\ u.timer = s.timer /\ SameMemory(s, u)
      BY <1>1 DEF Typed, IState, SameMemory
    <3>3. u \in Typed(me, X) /\ Running(u)
      <4>1. u \in Typed(me, X)
        BY <1>1, <3>1, UpdateTyped, Zenon
      <4> QED BY <1>3, <3>2, <4>1 DEF Running
    <3> HIDE DEF u, D
    <3>4. Tied(u)
      <4>1. Waiting(u.queue) = Waiting(s.queue)
        BY <2>3, <3>1, <3>2 DEF Waiting
      <4> QED BY <1>1, <3>2, <4>1, SameKeeps DEF Same, Keeps
    <3>5. Wanted(D, u.pool, e)
      BY <1>1, <2>3, <3>1, <3>2 DEF Stocked, Fair, SameMemory
    <3>6. free \/ Room
      BY DEF Bound
    <3>7. TurnsFrom(me, pid, free, u, e, SendData(u, e))
      <4> HIDE DEF e
      <4> QED BY <2>3, <3>1, <3>2, <3>3, <3>4, <3>5, <3>6, SendDataTurns
    <3> QED BY <1>1, <1>3, <3>2, <3>7, DequeuedTurns DEF SameMemory, Running
  <2>4. ASSUME ~e.hello, e.dest # Broadcast PROVE Turns(me, pid, free, 0, s, SendUnicast(s, e))
    BY <1>3, <2>4, SendUnicastTurns
  <2> HIDE DEF h, u, e
  <2> QED BY <2>1, <2>2, <2>3, <2>4
<1> QED BY <1>2, <1>3

\* What happens to the queues when IP sends a packet.
LEMMA QueuedMoves ==
  ASSUME NEW me \in Node, NEW X, NEW s \in Good(me, X), NEW x \in Sendable(me)
  PROVE  LET r == Queued(s, x)
         IN  /\ r.macq = s.macq /\ r.rtqueue = s.rtqueue /\ (Running(r) => Running(s))
             /\ \/ ~Accepts(s.queue, x) /\ r.queue = s.queue
                \/ /\ Accepts(s.queue, x)
                   /\ \E e : /\ e.id = x.id /\ e.retry = 0 /\ ~e.hello
                             /\ Range(r.queue) = Range(s.queue) \union {e}
<1> DEFINE e == [id |-> x.id, dest |-> x.dest, iface |-> x.iface, retry |-> 0, hello |-> FALSE]
           q == EnqueueBack(s.queue, e)
           a == [s EXCEPT !.queue = q]
           u == [a EXCEPT !.pool = @ \union {x.id}]
           pos == SearchMac(u.nbrs, x.dest)
           nbr == [pairs |-> {[ip |-> NoIP, mac |-> x.dest, channel |-> Channel(u, x.iface)]},
                   vq |-> <<e>>]
           v == [u EXCEPT !.nbrs = AddNeighbor(@, nbr)]
           w == AddVirtualQueueEntry(u, pos, e)
           r == Queued(s, x)
<1>1. s \in Typed(me, X) /\ s.queue \in Bounded(Entry)
  BY Fields DEF Good
<1>2. x.id \in Pid /\ x.dest \in Nat /\ x.iface \in Nat \ {0}
  BY DEF Sendable, IPSend
<1>3. e \in Entry /\ e.id = x.id /\ e.retry = 0 /\ ~e.hello
  BY <1>2 DEF Entry, MaxRetry
<1>4. r = IF ~Accepts(s.queue, e) THEN s
          ELSE IF x.dest = Broadcast THEN u
          ELSE IF pos = 0 THEN v
          ELSE w
  BY <1>1 DEF Queued, AddVirtual, Typed, IState
<1> HIDE DEF e
<1>5. q \in Bounded(Entry) /\ (Accepts(s.queue, e) => Range(q) = Range(s.queue) \union {e})
  BY <1>1, <1>3, EnqueueBackBounded, WaitingEnqueue
<1>6. Accepts(s.queue, e) <=> Accepts(s.queue, x)
  BY <1>3 DEF Accepts
<1> HIDE DEF q
<1>7. a \in Good(me, X)
  BY <1>5, UpdateGood
<1>8. u \in Typed(me, X)
  <2> HIDE DEF a
  <2> QED BY <1>2, <1>7, PoolGrows DEF Good
<1>9. u.macq = s.macq /\ u.queue = q /\ u.rtqueue = s.rtqueue /\ u.abort = s.abort
  BY <1>1 DEF Typed, IState
<1> HIDE DEF u, nbr
<1>10. Relearned(u, u)
  BY DEF Relearned, SameMemory
<1>11. Relearned(u, v)
  BY <1>8 DEF Relearned, SameMemory, Typed, IState, Running
<1>12. pos # 0 => Relearned(u, w)
  <2>1. pos # 0 => pos \in DOMAIN u.nbrs
    BY <1>8, Fields, SearchMacProperties
  <2> HIDE DEF pos
  <2> QED BY <1>3, <1>8, <2>1, VirtualEntryMemory DEF Relearned
<1> HIDE DEF v, w, pos, r
<1>13. Accepts(s.queue, e) => Relearned(u, r)
  BY <1>4, <1>10, <1>11, <1>12
<1>14. CASE Accepts(s.queue, e)
  <2>1. /\ r.macq = s.macq /\ r.rtqueue = s.rtqueue /\ r.queue = q
        /\ Running(r) => Running(s)
    BY <1>9, <1>13, <1>14 DEF Relearned, SameMemory, Running
  <2> QED BY <1>3, <1>5, <1>6, <1>14, <2>1 DEF r
<1>15. CASE ~Accepts(s.queue, e)
  BY <1>4, <1>6, <1>15 DEF r
<1> QED BY <1>14, <1>15

\* How often IP sends pid when it sends what x says.
Asking(x, pid) == IF x # NoSend /\ x.id = pid THEN 1 ELSE 0

\* IP sends a packet, which joins the output queue if it is not there yet.
LEMMA QueuedTurns ==
  ASSUME NEW me \in Node, NEW X, NEW s \in Good(me, X), NEW x \in Sendable(me), NEW free,
         NEW pid, free \/ (Room /\ Unlike(s.queue, pid))
  PROVE  Turns(me, pid, free, Asking(x, pid), s, Queued(s, x))
<1> DEFINE r == Queued(s, x)
           W == Waits(Range(s.queue), pid)
           V == Waits(Range(r.queue), pid)
<1>1. /\ r.macq = s.macq /\ r.rtqueue = s.rtqueue /\ (Running(r) => Running(s))
      /\ \/ ~Accepts(s.queue, x) /\ r.queue = s.queue
         \/ /\ Accepts(s.queue, x)
            /\ \E e : /\ e.id = x.id /\ e.retry = 0 /\ ~e.hello
                      /\ Range(r.queue) = Range(s.queue) \union {e}
  BY QueuedMoves
<1>2. s.queue \in Bounded(Entry) /\ x.id \in Pid
  BY Fields DEF Good, Sendable, IPSend
<1>3. /\ W # {} => pid \in Ids(s.queue)
      /\ pid \in Ids(s.queue) => W # {} \/ free
  BY WaitsNone
<1> HIDE DEF r
<1>4. x.id # pid => V = W
  <2>1. SUFFICES ASSUME x.id # pid, Accepts(s.queue, x) PROVE V = W
    BY <1>1
  <2>2. PICK e : e.id = x.id /\ Range(r.queue) = Range(s.queue) \union {e}
    BY <1>1, <2>1
  <2>3. Waits(Range(s.queue) \union {e}, pid) =
          Waits(Range(s.queue), pid) \union (IF e.id = pid /\ ~e.hello THEN {e.retry} ELSE {})
    BY WaitsAdd
  <2> QED BY <2>1, <2>2, <2>3
<1>5. x.id = pid /\ Accepts(s.queue, x) => W = {} /\ V = {0}
  <2>1. SUFFICES ASSUME x.id = pid, Accepts(s.queue, x) PROVE W = {} /\ V = {0}
    OBVIOUS
  <2>2. W = {}
    BY <1>3, <2>1 DEF Accepts
  <2>3. PICK e : /\ e.id = x.id /\ e.retry = 0 /\ ~e.hello
                 /\ Range(r.queue) = Range(s.queue) \union {e}
    BY <1>1, <2>1
  <2>4. Waits(Range(s.queue) \union {e}, pid) =
          Waits(Range(s.queue), pid) \union (IF e.id = pid /\ ~e.hello THEN {e.retry} ELSE {})
    BY WaitsAdd
  <2> QED BY <2>1, <2>2, <2>3, <2>4
<1>6. x.id = pid /\ ~Accepts(s.queue, x) => V = W /\ (W # {} \/ free)
  <2>1. SUFFICES ASSUME x.id = pid, ~Accepts(s.queue, x) PROVE V = W /\ (W # {} \/ free)
    OBVIOUS
  <2>2. V = W
    BY <1>1, <2>1
  <2>3. ASSUME Room, W = {}, ~free PROVE FALSE
    <3>1. Len(s.queue) # QueueMax
      BY <1>2, <1>3, <2>1, <2>3, RoomForOne
    <3> QED BY <1>3, <2>1, <2>3, <3>1 DEF Accepts
  <2> QED BY <2>2, <2>3
<1>7. ASSUME NEW k \in Nat
      PROVE  Reaches(free, LifeOf(me, pid, s, k), LifeOf(me, pid, r, k + Asking(x, pid)))
  <2> DEFINE A == Retries(Range(s.rtqueue), pid)
             m == Cardinality(Spots(me, s, PlainOf(pid)))
             n == Cardinality(Spots(me, s, CodedOf(pid)))
             v == LifeOf(me, pid, s, k)
             w == LifeOf(me, pid, r, k + Asking(x, pid))
             a == AskedFor(v)
             g == GivenUp(a)
  <2>1. v = [wait |-> W, again |-> A, plain |-> m, coded |-> n, asked |-> k]
    BY DEF LifeOf, LifeIn
  <2>2. w = [wait |-> V, again |-> A, plain |-> m, coded |-> n, asked |-> k + Asking(x, pid)]
    BY <1>1 DEF LifeOf, LifeIn, Spots
  <2> HIDE DEF A, m, n, v, w, W, V
  <2>3. CASE x.id # pid
    <3>1. k + Asking(x, pid) = k
      BY <2>3 DEF Asking
    <3>2. w = v
      BY <1>4, <2>1, <2>2, <2>3, <3>1
    <3>3. Reaches(free, v, w)
      BY <3>2, ReachesSelf
    <3> QED BY <3>3 DEF v, w
  <2>4. CASE x.id = pid
    <3>1. x # NoSend
      BY DEF Sendable, IPSend, NoSend
    <3>2. k + Asking(x, pid) = k + 1
      BY <2>4, <3>1 DEF Asking
    <3>3. a = [wait |-> IF W = {} THEN {0} ELSE W, again |-> A, plain |-> m, coded |-> n,
               asked |-> k + 1]
      BY <2>1 DEF AskedFor
    <3>4. g = [wait |-> {}, again |-> A, plain |-> m, coded |-> n, asked |-> k + 1]
      BY <3>3 DEF GivenUp
    <3>5. w = [wait |-> V, again |-> A, plain |-> m, coded |-> n, asked |-> k + 1]
      BY <2>2, <3>2
    <3>6. w = a \/ (free /\ w = g)
      <4> HIDE DEF a, g
      <4> QED BY <1>5, <1>6, <2>4, <3>3, <3>4, <3>5
    <3>7. Reaches(free, v, a) /\ (free => Reaches(free, a, g))
      <4>1. Reaches(free, v, a)
        BY ReachesStep
      <4> HIDE DEF a
      <4> QED BY <4>1, ReachesStep
    <3> HIDE DEF a, g
    <3>8. Reaches(free, v, w)
      BY <3>6, <3>7, ReachesChain
    <3> QED BY <3>8 DEF v, w
  <2> QED BY <2>3, <2>4
<1> QED BY <1>1, <1>7 DEF Turns, r

\* What is in order stays so.
LEMMA SoundOn ==
  ASSUME WellConfigured, NEW me, NEW X, NEW Y, NEW s, Healthy(me, X, s), NEW r \in Good(me, Y),
         Keeps(s, r), NEW I, NEW K, NEW N,
         Learns(me, Duty(me), I, K, N, s, r) \/ Stays(me, Duty(me), s, r)
  PROVE  Healthy(me, Y, r)
BY DEF Healthy, Keeps, Learns, Stays

\* IP sends a packet, which may be sent at once.
LEMMA EnqueueDataTurns ==
  ASSUME WellConfigured, NEW me \in Node, NEW X, NEW s, Healthy(me, X, s), NEW x \in Sendable(me),
         <<x.dest, x.id>> \in Duty(me).legs, NEW free, NEW pid, Bound(free, me, pid, s)
  PROVE  Turns(me, pid, free, Asking(x, pid), s, EnqueueData(s, x))
<1> DEFINE u == Queued(s, x)
           a == Asking(x, pid)
<1>1. s \in Good(me, X) /\ Tied(s) /\ (free \/ (Room /\ Unlike(s.queue, pid)))
  BY UnlikeHellos DEF Healthy, Bound
<1>2. Keeps(s, u) /\ u \in Good(me, X) /\ EnqueueData(s, x) = TrySend(u)
  BY QueuedKeeps DEF Healthy
<1>3. Learns(me, Duty(me), {x.id}, {}, {}, s, u)
  BY QueuedLearns DEF Healthy
<1>4. Turns(me, pid, free, a, s, u)
  BY <1>1, QueuedTurns
<1> HIDE DEF u, a
<1>5. Healthy(me, X, u)
  BY <1>2, <1>3, SoundOn
<1>6. u.info = s.info
  BY <1>3 DEF Learns
<1>7. Bound(free, me, pid, u)
  BY <1>6 DEF Bound, Uninformed
<1>8. Turns(me, pid, free, 0, u, TrySend(u))
  BY <1>5, <1>7, TrySendTurns
<1>9. a \in Nat /\ a + 0 = a
  BY DEF a, Asking
<1>10. Turns(me, pid, free, a + 0, s, TrySend(u))
  BY <1>4, <1>8, <1>9, TurnsChain
<1> QED BY <1>2, <1>9, <1>10 DEF a

\* A hello joins the output queue, whose first entry may be sent.
LEMMA EnqueueHelloTurns ==
  ASSUME WellConfigured, NEW me \in Node, NEW X, NEW s, Healthy(me, X, s), NEW d \in Devices(me),
         NEW id \in HelloIds, NEW free, NEW pid, Bound(free, me, pid, s)
  PROVE  Turns(me, pid, free, 0, s, EnqueueHello(s, d, id))
<1> DEFINE e == [id |-> id, dest |-> Broadcast, iface |-> d, retry |-> 0, hello |-> TRUE]
           q == EnqueueFront(s.queue, e)
           a == [s EXCEPT !.queue = q]
           D == Duty(me)
<1>1. /\ s \in Typed(me, X) /\ s.queue \in Bounded(Entry) /\ s \in Good(me, X) /\ Tied(s)
      /\ Whole(s) /\ Stocked(me, D, s)
  BY Fields DEF Good, Healthy
<1>2. e \in Entry /\ e.hello /\ e.id \in HelloIds
  <2>1. d \in Nat \ {0} /\ id \in Pid
    BY MediumAssumption DEF Devices
  <2> QED BY <2>1 DEF Entry, MaxRetry, Broadcast
<1>3. EnqueueHello(s, d, id) = IF ~Running(s) THEN s ELSE TrySend(a)
  BY DEF EnqueueHello
<1> HIDE DEF e, D
<1>4. q \in Bounded(Entry) /\ (q = s.queue \/ Range(q) = Range(s.queue) \union {e})
  BY <1>1, <1>2, EnqueueFrontBounded, WaitingEnqueue
<1> HIDE DEF q
<1>5. a \in Good(me, X)
  BY <1>1, <1>4, UpdateGood
<1>6. /\ a.nbrs = s.nbrs /\ a.queue = q /\ a.rtqueue = s.rtqueue /\ a.abort = s.abort
      /\ a.timer = s.timer /\ SameMemory(s, a)
  BY <1>1 DEF Typed, IState, SameMemory
<1> HIDE DEF a
<1>7. Keeps(s, a)
  <2>1. Same(s, a)
    BY <1>2, <1>4, <1>6 DEF Same, Waiting
  <2> QED BY <1>1, <2>1, SameKeeps
<1>8. Stays(me, D, s, a)
  BY <1>2, <1>4, <1>6 DEF Stays, Stocked, Fair, SameMemory
<1>9. Healthy(me, X, a)
  BY <1>5, <1>7, <1>8, SoundOn DEF D
<1>10. Bound(free, me, pid, a)
  BY <1>6 DEF Bound, Uninformed, SameMemory
<1>11. Turns(me, pid, free, 0, s, a)
  <2>1. Waits(Range(s.queue) \union {e}, pid) = Waits(Range(s.queue), pid)
    BY <1>2, WaitsAdd
  <2>2. Waits(Range(a.queue), pid) = Waits(Range(s.queue), pid)
    BY <1>4, <1>6, <2>1
  <2>3. ASSUME NEW k \in Nat PROVE LifeOf(me, pid, a, k + 0) = LifeOf(me, pid, s, k)
    <3>1. k + 0 = k
      OBVIOUS
    <3> QED BY <1>6, <2>2, <3>1 DEF LifeOf, LifeIn, Spots, SameMemory
  <2> QED BY <1>6, <2>3, ReachesSelf DEF Turns, Running
<1>12. Turns(me, pid, free, 0, a, TrySend(a))
  BY <1>9, <1>10, TrySendTurns
<1>13. Turns(me, pid, free, 0 + 0, s, TrySend(a))
  BY <1>11, <1>12, TurnsChain
<1>14. Turns(me, pid, free, 0, s, s)
  BY UnmovedTurns DEF Unmoved
<1> QED BY <1>3, <1>13, <1>14

\* A hello for every radio.
LEMMA SendHelloTurns ==
  ASSUME WellConfigured, NEW me \in Node, NEW X, NEW s, Healthy(me, X, s),
         NEW ids \in [Devices(me) -> HelloIds], NEW free, NEW pid, Bound(free, me, pid, s)
  PROVE  Turns(me, pid, free, 0, s, SendHello(s, ids))
<1> DEFINE n == Len(RadiosOf[me])
<1>1. PICK f : /\ HellosBy(f, me, s, ids)
               /\ \A i \in 0..n : f[i] \in Good(me, X)
  <2>1. ids \in [Devices(me) -> Pid] /\ s \in Good(me, X)
    BY MediumAssumption DEF Healthy
  <2> QED BY <2>1, SendHelloRuns
<1>2. n \in Nat /\ Devices(me) = 1..n
  <2>1. RadiosOf[me] \in Seq(Trinity)
    BY RadiosAssumption
  <2> QED BY <2>1 DEF Devices
<1> DEFINE T == {i \in 0..n : /\ Healthy(me, X, f[i]) /\ f[i].info = s.info
                              /\ Turns(me, pid, free, 0, s, f[i])}
<1>3. 0 \in T
  <2>1. f[0] = s
    BY <1>1 DEF HellosBy
  <2>2. Turns(me, pid, free, 0, s, s)
    BY UnmovedTurns DEF Unmoved
  <2> QED BY <1>2, <2>1, <2>2
<1>4. ASSUME NEW i \in 1..n, i - 1 \in T PROVE i \in T
  <2> DEFINE r == f[i - 1]
             q == f[i]
  <2>6. i \in 0..n /\ i \in Devices(me)
    BY <1>2
  <2>7. q = EnqueueHello(r, i, ids[i])
    BY <1>1 DEF HellosBy
  <2>8. Healthy(me, X, r) /\ r.info = s.info /\ Turns(me, pid, free, 0, s, r)
    BY <1>4
  <2>9. ids[i] \in HelloIds /\ ids[i] \in Pid
    BY <2>6, MediumAssumption
  <2>10. q \in Good(me, X)
    BY <1>1, <2>6
  <2>1. /\ q = EnqueueHello(r, i, ids[i]) /\ Healthy(me, X, r) /\ r.info = s.info
        /\ Turns(me, pid, free, 0, s, r) /\ i \in Devices(me)
        /\ ids[i] \in HelloIds /\ ids[i] \in Pid /\ q \in Good(me, X) /\ i \in 0..n
    BY <2>6, <2>7, <2>8, <2>9, <2>10
  <2> HIDE DEF r, q
  <2>2. Keeps(r, q) /\ Stays(me, Duty(me), r, q)
    BY <2>1, EnqueueHelloKeeps, EnqueueHelloStays DEF Healthy
  <2>3. Healthy(me, X, q) /\ q.info = s.info
    BY <2>1, <2>2, SoundOn DEF Stays
  <2>4. Turns(me, pid, free, 0, r, q)
    <3>1. Bound(free, me, pid, r)
      BY <2>1 DEF Bound, Uninformed
    <3> QED BY <2>1, <3>1, EnqueueHelloTurns
  <2>5. Turns(me, pid, free, 0 + 0, s, q)
    BY <2>1, <2>4, TurnsChain
  <2> QED BY <2>1, <2>3, <2>5 DEF q
<1>5. f[n] = SendHello(s, ids)
  BY <1>1 DEF HellosBy
<1>6. n \in T
  <2> HIDE DEF T
  <2>1. 0..n \subseteq T
    BY <1>2, <1>3, <1>4, RangeInduction
  <2> QED BY <1>2, <2>1
<1> QED BY <1>5, <1>6

\* What Retried does to the queues.
LEMMA RetriedMoves ==
  ASSUME NEW me \in Node, NEW X, NEW s \in Good(me, X), s.rtqueue # <<>>
  PROVE  LET r == Retried(s)
             e == Retry(Head(s.rtqueue))
         IN  /\ r.macq = s.macq /\ r.rtqueue = Tail(s.rtqueue) /\ (Running(r) => Running(s))
             /\ IF Accepts(s.queue, e) THEN Range(r.queue) = Range(s.queue) \union {e}
                ELSE r.queue = s.queue
<1> DEFINE h == Head(s.rtqueue)
           e == Retry(h)
           rt == Tail(s.rtqueue)
           q == EnqueueFront(s.queue, e)
           a == [s EXCEPT !.rtqueue = rt]
           b == [a EXCEPT !.queue = q]
           u == [b EXCEPT !.timer = "running"]
           pos == SearchMac(s.nbrs, e.dest)
           lost == Abort(u, "NeighborLost")
           w == AddVirtualQueueEntryFront(u, pos, e)
<1>1. /\ s \in Typed(me, X) /\ s.rtqueue \in Bounded(RtEntry) /\ s.queue \in Bounded(Entry)
      /\ s.nbrs \in Seq(Neighbor)
  BY Fields DEF Good
<1>2. Retried(s) = IF ~Accepts(s.queue, e) THEN u ELSE IF pos = 0 THEN lost ELSE w
  BY <1>1 DEF Retried, Typed, IState
<1>3. h \in RtEntry /\ rt \in Bounded(RtEntry)
  <2>1. s.rtqueue \in Seq(RtEntry) /\ Distinct(s.rtqueue)
    BY <1>1 DEF Bounded
  <2> QED BY <1>1, <2>1, TailRange, TailBounded
<1>4. e \in Entry
  BY <1>3 DEF Retry, RtEntry, Entry, MaxRetry
<1> HIDE DEF h, e
<1>5. q \in Bounded(Entry)
  BY <1>1, <1>4, EnqueueFrontBounded
<1>6. IF Accepts(s.queue, e) THEN Range(q) = Range(s.queue) \union {e} ELSE q = s.queue
  BY <1>1, <1>4, WaitingEnqueue
<1>7. /\ u.nbrs = s.nbrs /\ u.queue = q /\ u.rtqueue = rt /\ u.abort = s.abort
      /\ u.macq = s.macq
  BY <1>1 DEF Typed, IState
<1> HIDE DEF q, rt
<1>8. u \in Typed(me, X)
  <2>1. a \in Typed(me, X)
    BY <1>1, <1>3, UpdateTyped
  <2> HIDE DEF a
  <2>2. b \in Typed(me, X)
    BY <1>5, <2>1, UpdateTyped
  <2> HIDE DEF b
  <2> QED BY <2>2, UpdateTyped DEF Timer
<1> HIDE DEF u
<1>9. Relearned(u, lost)
  BY <1>8, RelearnedBy DEF Aborts
<1>10. pos # 0 => Relearned(u, w)
  <2>1. pos # 0 => pos \in DOMAIN u.nbrs
    BY <1>1, <1>7, SearchMacProperties
  <2> HIDE DEF pos
  <2> QED BY <1>4, <1>8, <2>1, VirtualEntryMemory DEF Relearned
<1>11. Relearned(u, u)
  BY DEF Relearned, SameMemory
<1> HIDE DEF lost, w, pos
<1>12. Relearned(u, Retried(s))
  BY <1>2, <1>9, <1>10, <1>11
<1>13. /\ Retried(s).macq = s.macq /\ Retried(s).rtqueue = rt /\ Retried(s).queue = q
       /\ (Running(Retried(s)) => Running(s))
  BY <1>7, <1>12 DEF Relearned, SameMemory, Running
<1> QED BY <1>6, <1>13 DEF h, e, rt

\* The packet that waited longest is to be sent again, unless it is already
\* or there is no room for it.
LEMMA RetriedTurns ==
  ASSUME NEW me \in Node, NEW X, NEW s \in Good(me, X), Tied(s), s.rtqueue # <<>>, NEW free,
         NEW pid, free \/ (Room /\ Unlike(s.queue, pid))
  PROVE  Turns(me, pid, free, 0, s, Retried(s))
<1> DEFINE h == Head(s.rtqueue)
           e == Retry(h)
           r == Retried(s)
           W == Waits(Range(s.queue), pid)
           A == Retries(Range(s.rtqueue), pid)
<1>1. /\ r.macq = s.macq /\ r.rtqueue = Tail(s.rtqueue) /\ (Running(r) => Running(s))
      /\ IF Accepts(s.queue, e) THEN Range(r.queue) = Range(s.queue) \union {e}
         ELSE r.queue = s.queue
  BY RetriedMoves
<1>2. s.rtqueue \in Bounded(RtEntry) /\ s.queue \in Bounded(Entry)
  BY Fields DEF Good
<1>3. h \in RtEntry /\ h \in Range(s.rtqueue) /\ Range(r.rtqueue) = Range(s.rtqueue) \ {h}
  <2>1. s.rtqueue \in Seq(RtEntry) /\ Distinct(s.rtqueue)
    BY <1>2 DEF Bounded
  <2> QED BY <1>1, <2>1, TailRange
<1>4. e.id = h.id /\ e.retry = h.retry + 1 /\ h.id \in Pid /\ ~e.hello
  <2>1. ~h.hello
    BY <1>3 DEF Tied, Waiting
  <2> QED BY <1>3, <2>1 DEF Retry, RtEntry, Entry
<1> HIDE DEF r, h, e
<1>5. /\ h.id = pid => A = {h.retry} /\ Retries(Range(r.rtqueue), pid) = {}
      /\ h.id # pid => Retries(Range(r.rtqueue), pid) = A
  <2>1. Distinct(s.rtqueue)
    BY <1>2 DEF Bounded
  <2>2. /\ h.id = pid => /\ Retries(Range(s.rtqueue), pid) = {h.retry}
                         /\ Retries(Range(s.rtqueue) \ {h}, pid) = {}
        /\ h.id # pid => Retries(Range(s.rtqueue) \ {h}, pid) = Retries(Range(s.rtqueue), pid)
    BY <1>3, <2>1, RetriesRemove
  <2> QED BY <1>3, <2>2
<1>6. Waits(Range(s.queue) \union {e}, pid) = W \union (IF e.id = pid THEN {e.retry} ELSE {})
  BY <1>4, WaitsAdd
<1>7. (W # {} => pid \in Ids(s.queue)) /\ (pid \in Ids(s.queue) => W # {} \/ free)
  BY WaitsNone
<1>8. ASSUME NEW k \in Nat PROVE Reaches(free, LifeOf(me, pid, s, k), LifeOf(me, pid, r, k))
  <2> DEFINE v == LifeOf(me, pid, s, k)
  <2>1. /\ v.wait = W /\ v.again = A
        /\ v = [wait |-> W, again |-> A, plain |-> v.plain, coded |-> v.coded, asked |-> v.asked]
    BY DEF LifeOf, LifeIn
  <2>2. LifeOf(me, pid, r, k) =
          [wait |-> Waits(Range(r.queue), pid), again |-> Retries(Range(r.rtqueue), pid),
           plain |-> v.plain, coded |-> v.coded, asked |-> v.asked]
    BY <1>1 DEF LifeOf, LifeIn, Spots
  <2> HIDE DEF v, W, A
  <2>3. CASE h.id # pid
    <3>1. Waits(Range(r.queue), pid) = W
      BY <1>1, <1>4, <1>6, <2>3 DEF W
    <3> QED BY <1>5, <2>1, <2>2, <2>3, <3>1, ReachesSelf DEF v
  <2>4. CASE h.id = pid
    <3> DEFINE w == SentAgain(v, h.retry)
    <3>1. Reaches(free, v, w)
      BY <1>5, <2>1, <2>4, ReachesStep
    <3>2. w = [wait |-> IF W = {} THEN {h.retry + 1} ELSE W, again |-> {}, plain |-> v.plain,
               coded |-> v.coded, asked |-> v.asked]
      BY <2>1 DEF SentAgain
    <3>3. CASE Accepts(s.queue, e) \/ W # {}
      <4>1. Waits(Range(r.queue), pid) = IF W = {} THEN {h.retry + 1} ELSE W
        <5>1. CASE Accepts(s.queue, e)
          <6>1. W = {}
            BY <1>4, <1>7, <2>4, <5>1 DEF Accepts
          <6> QED BY <1>1, <1>4, <1>6, <2>4, <5>1, <6>1
        <5>2. CASE ~Accepts(s.queue, e)
          BY <1>1, <3>3, <5>2 DEF W
        <5> QED BY <5>1, <5>2
      <4>2. LifeOf(me, pid, r, k) = w
        BY <1>5, <2>2, <2>4, <3>2, <4>1
      <4> QED BY <3>1, <4>2 DEF v
    <3>4. CASE ~Accepts(s.queue, e) /\ W = {}
      <4>1. free \/ (pid \notin Ids(s.queue) /\ Len(s.queue) = QueueMax)
        BY <1>4, <1>7, <2>4, <3>4 DEF Accepts
      <4>2. free
        BY <1>2, <1>4, <2>4, <4>1, RoomForOne
      <4> HIDE DEF w
      <4>3. Reaches(free, w, GivenUp(w))
        BY <4>2, ReachesStep
      <4>4. GivenUp(w) = [wait |-> {}, again |-> {}, plain |-> v.plain, coded |-> v.coded,
                          asked |-> v.asked]
        BY <3>2 DEF GivenUp
      <4>5. Waits(Range(r.queue), pid) = {}
        BY <1>1, <3>4 DEF W
      <4>6. LifeOf(me, pid, r, k) = GivenUp(w)
        BY <1>5, <2>2, <2>4, <4>4, <4>5
      <4> QED BY <3>1, <4>3, <4>6, ReachesChain DEF v
    <3> QED BY <3>3, <3>4
  <2> QED BY <2>3, <2>4
<1>9. ASSUME NEW k \in Nat
      PROVE  Reaches(free, LifeOf(me, pid, s, k), LifeOf(me, pid, r, k + 0))
  <2>1. k + 0 = k
    OBVIOUS
  <2> QED BY <1>8, <2>1
<1> QED BY <1>1, <1>9 DEF Turns, r

\* The retransmission timer expires.
LEMMA RetransmitTurns ==
  ASSUME WellConfigured, NEW me \in Node, NEW X, NEW s, Healthy(me, X, s), NEW free, NEW pid,
         Bound(free, me, pid, s)
  PROVE  Turns(me, pid, free, 0, s, Retransmit(s))
<1>1. s \in Typed(me, X) /\ s \in Good(me, X) /\ Tied(s)
  BY DEF Good, Healthy
<1>2. CASE s.rtqueue = <<>>
  <2>1. Unmoved(s, Retransmit(s))
    BY <1>1, <1>2 DEF Retransmit, Unmoved, Running, Typed, IState
  <2> QED BY <2>1, UnmovedTurns
<1>3. CASE s.rtqueue # <<>>
  <2> DEFINE u == Retried(s)
  <2>1. Keeps(s, u) /\ u \in Good(me, X) /\ Retransmit(s) = TrySend(u)
    BY <1>1, <1>3, RetriedKeeps DEF Healthy
  <2>2. Stays(me, Duty(me), s, u)
    BY <1>3, RetriedStays DEF Healthy
  <2>3. Turns(me, pid, free, 0, s, u)
    <3>1. free \/ (Room /\ Unlike(s.queue, pid))
      BY UnlikeHellos DEF Bound
    <3> QED BY <1>1, <1>3, <3>1, RetriedTurns
  <2> HIDE DEF u
  <2>4. Healthy(me, X, u) /\ Bound(free, me, pid, u)
    BY <2>1, <2>2, SoundOn DEF Stays, Bound, Uninformed
  <2>5. Turns(me, pid, free, 0, u, TrySend(u))
    BY <2>4, TrySendTurns
  <2>6. Turns(me, pid, free, 0 + 0, s, TrySend(u))
    BY <2>3, <2>5, TurnsChain
  <2> QED BY <2>1, <2>6
<1> QED BY <1>2, <1>3

-------------------------------------------------------------------------------
(* Receiving                                                               *)

\* What a header does to the queues.
LEMMA HeaderMoves ==
  ASSUME NEW me \in Node, NEW s \in Good(me, {}), Running(s), Tied(s), NEW d \in Devices(me),
         NEW f \in Frame
  PROVE  LET r == RecvHeader(s, d, f)
         IN  /\ r.queue = s.queue /\ r.macq = s.macq
             /\ Range(r.rtqueue) \subseteq Range(s.rtqueue)
             /\ \A e \in Range(s.rtqueue) : e \in Range(r.rtqueue) \/ e.id \in Acked(me, f)
<1> DEFINE ip == NodeIP(f.from)
           u == SMNeighbors(s, ip, f.src, Channel(s, d))
           mac == GetMac(u.nbrs[SearchIP(u.nbrs, ip)])
           pids == {a.pid : a \in Range(f.acks)} \union f.reports
           v == EraseAcked(u, f)
           r == SetItems(v, pids, mac)
           h == RecvHeader(s, d, f)
<1>1. s \in Typed(me, {}) /\ s \in IState(me) /\ s.me = me /\ s.nbrs \in Seq(Neighbor)
  BY Fields DEF Good, Typed
<1>2. ip \in Nat /\ f.src \in Nat \ {0} /\ Channel(s, d) \in Nat
  <2>1. RadiosOf[me] \in Seq(Trinity) /\ d \in 1..Len(RadiosOf[me])
    BY RadiosAssumption DEF Devices
  <2>2. RadiosOf[me][d] \in Trinity
    BY <2>1
  <2> QED BY <1>1, <2>2, FrameFields, NodeIPType DEF Channel, Trinity
<1>3. s = [x \in DOMAIN s |-> s[x]] /\ "nbrs" \in DOMAIN s
  BY <1>1 DEF IState
<1>4. h = IF Running(u) THEN r ELSE u
  BY DEF RecvHeader
<1> HIDE DEF ip, pids, h
<1>5. \/ \E n \in Seq(Neighbor) : u = [s EXCEPT !.nbrs = n]
      \/ \E a \in {"DuplicateVirtual", "NewNeighbor"} : u = Abort(s, a)
  BY <1>1, <1>2, <1>3, SMNeighborsResult
<1> HIDE DEF u
<1>6. Relearned(s, u) /\ u \in Good(me, {})
  <2>1. \/ \E n \in Seq(Neighbor) : u = [s EXCEPT !.nbrs = n]
        \/ \E a \in Aborts : a # "none" /\ u = Abort(s, a)
    BY <1>5 DEF Aborts
  <2> QED BY <1>1, <2>1, RelearnedBy, UpdateGood, AbortGood
<1>7. u \in Typed(me, {}) /\ u.macq = s.macq /\ u.queue = s.queue /\ u.rtqueue = s.rtqueue
  BY <1>6 DEF Good, Relearned, SameMemory
<1>8. PICK q \in Bounded(RtEntry) :
         /\ v = [u EXCEPT !.rtqueue = q]
         /\ Range(q) \subseteq Range(u.rtqueue)
         /\ \A e \in Range(u.rtqueue) : e \in Range(q) \/ \E i \in 1..Len(f.acks) :
              f.acks[i].ip = NodeIP(me) /\ f.acks[i].pid = e.id
  BY <1>7, EraseAckedResult
<1>9. r.macq = u.macq /\ r.queue = u.queue /\ r.rtqueue = q
  BY <1>7, <1>8 DEF SetItems, Typed, IState
<1> HIDE DEF r, v
<1>10. \A e \in Range(u.rtqueue) : e \in Range(q) \/ e.id \in Acked(me, f)
  <2>1. f.acks \in Seq(Ack)
    BY FrameFields
  <2>2. \A i \in 1..Len(f.acks) : f.acks[i] \in Range(f.acks)
    BY <2>1 DEF Range
  <2> QED BY <1>8, <2>2 DEF Acked
<1> QED BY <1>4, <1>7, <1>8, <1>9, <1>10 DEF h

\* Only what is acknowledged ceases to wait.
LEMMA HeaderTurns ==
  ASSUME NEW me \in Node, NEW s \in Good(me, {}), Running(s), Tied(s), NEW d \in Devices(me),
         NEW f \in Frame, NEW free, NEW pid, free \/ pid \notin Acked(me, f)
  PROVE  Turns(me, pid, free, 0, s, RecvHeader(s, d, f))
<1> DEFINE r == RecvHeader(s, d, f)
           A == Retries(Range(s.rtqueue), pid)
           B == Retries(Range(r.rtqueue), pid)
<1>1. /\ r.queue = s.queue /\ r.macq = s.macq
      /\ Range(r.rtqueue) \subseteq Range(s.rtqueue)
      /\ \A e \in Range(s.rtqueue) : e \in Range(r.rtqueue) \/ e.id \in Acked(me, f)
  BY HeaderMoves
<1>2. Distinct(s.rtqueue)
  BY Fields DEF Good, Bounded
<1> HIDE DEF r
<1>3. B = A \/ (B = {} /\ free)
  <2>1. CASE pid \notin Acked(me, f)
    BY <1>1, <2>1 DEF Retries
  <2>2. CASE pid \notin Ids(r.rtqueue) /\ free
    BY <2>2, RetriesNone
  <2>3. CASE pid \in Ids(r.rtqueue)
    <3>1. PICK x \in Range(r.rtqueue) : x.id = pid
      BY <2>3, IdsOfRange
    <3>2. Retries(Range(s.rtqueue), pid) = {x.retry}
      BY <1>1, <1>2, <3>1, RetriesRemove
    <3>3. B \subseteq A /\ x.retry \in B
      BY <1>1, <3>1 DEF Retries
    <3> QED BY <3>2, <3>3
  <2> QED BY <2>1, <2>2, <2>3
<1>4. ASSUME NEW k \in Nat
      PROVE  Reaches(free, LifeOf(me, pid, s, k), LifeOf(me, pid, r, k + 0))
  <2> DEFINE v == LifeOf(me, pid, s, k)
             w == LifeOf(me, pid, r, k)
  <2>1. k + 0 = k
    OBVIOUS
  <2>2. B = A => w = v
    BY <1>1 DEF LifeOf, LifeIn, Spots
  <2>3. B = {} => w = Thanks(v)
    BY <1>1 DEF LifeOf, LifeIn, Spots, Thanks
  <2> HIDE DEF v, w, A, B
  <2>4. Reaches(free, v, w)
    BY <1>3, <2>2, <2>3, ReachesSelf, ReachesStep
  <2> QED BY <2>1, <2>4 DEF v, w
<1> QED BY <1>4 DEF Turns, r

\* A packet is held.
LEMMA HoldTurns ==
  ASSUME NEW me \in Node, NEW X, NEW s \in Typed(me, X), NEW p, NEW mac, NEW free, NEW pid
  PROVE  Turns(me, pid, free, 0, s, Hold(s, p, mac))
<1>1. Unmoved(s, Hold(s, p, mac))
  BY DEF Hold, SetItems, Unmoved, Running, Typed, IState
<1> QED BY <1>1, UnmovedTurns

\* How often IP sends packet pid because of frame f.
Answered(me, s, d, f, sends, pid) ==
  IF AmINext(s, f) /\ (Coded(f) => Cardinality(Missing(s, f)) = 1) /\ ReachesIP(me, d, f)
  THEN Asking(sends, pid) ELSE 0

\* IP gets the packet and may answer at once.
LEMMA ForwardUpTurns ==
  ASSUME WellConfigured, NEW me \in Node, NEW X, NEW s, Healthy(me, X, s), NEW d, NEW f,
         f.dest # Broadcast, NEW sends \in Sendable(me) \union {NoSend},
         NEW I, Answers(Duty(me), I, sends), NEW free, NEW pid, Bound(free, me, pid, s)
  PROVE  Turns(me, pid, free, IF ReachesIP(me, d, f) THEN Asking(sends, pid) ELSE 0,
               s, ForwardUp(s, d, f, sends))
<1>1. s.me = me
  BY Fields DEF Healthy, Good
<1>2. Turns(me, pid, free, 0, s, s)
  BY UnmovedTurns DEF Unmoved
<1>3. sends # NoSend => Turns(me, pid, free, Asking(sends, pid), s, EnqueueData(s, sends))
  BY EnqueueDataTurns DEF Answers
<1>4. CASE sends = NoSend
  BY <1>2, <1>4 DEF ForwardUp, Asking
<1>5. CASE ~ReachesIP(me, d, f)
  BY <1>1, <1>2, <1>5 DEF ForwardUp, ReachesIP
<1>6. CASE ~Running(s)
  BY <1>6 DEF ForwardUp, Turns
<1>7. CASE sends # NoSend /\ ReachesIP(me, d, f) /\ Running(s)
  BY <1>1, <1>3, <1>7 DEF ForwardUp, ReachesIP
<1> QED BY <1>4, <1>5, <1>6, <1>7

\* An acknowledgment that the node owes.
LEMMA AddAckSound ==
  ASSUME WellConfigured, NEW me \in Node, NEW s, Healthy(me, {}, s), NEW ip \in Nat, NEW p \in Pid,
         [ip |-> ip, pid |-> p] \in Duty(me).due
  PROVE  LET u == AddAck(s, ip, p)
         IN  Healthy(me, {p}, u) /\ u.info = s.info /\ Unmoved(s, u)
<1> DEFINE u == AddAck(s, ip, p)
           k == [ip |-> ip, pid |-> p]
           D == Duty(me)
<1>1. s \in Typed(me, {}) /\ s \in Good(me, {}) /\ s.acks \in Seq(Ack) /\ k \in Ack
  BY Fields DEF Healthy, Good, Ack
<1>2. u \in Good(me, {p})
  BY <1>1, AddAckGood
<1>3. /\ u.macq = s.macq /\ u.info = s.info /\ u.pool = s.pool /\ u.queue = s.queue
      /\ u.rtqueue = s.rtqueue /\ u.nbrs = s.nbrs /\ u.abort = s.abort /\ u.timer = s.timer
      /\ u.acks = Append(s.acks, k)
  BY <1>1 DEF AddAck, Typed, IState
<1>4. k \in D.due
  OBVIOUS
<1> HIDE DEF u, k, D
<1>5. Range(u.acks) \subseteq Range(s.acks) \union D.due
  BY <1>1, <1>3, <1>4, AppendRange
<1>6. Keeps(s, u)
  <2>1. Same(s, u) /\ Tied(s)
    BY <1>3 DEF Same, Healthy
  <2> QED BY <1>1, <2>1, SameKeeps
<1>7. Stays(me, D, s, u)
  BY <1>3, <1>5 DEF Stays, Stocked
<1>8. Healthy(me, {p}, u)
  BY <1>2, <1>6, <1>7, SoundOn DEF D
<1> QED BY <1>3, <1>8 DEF u, Unmoved, Running

\* A coded frame.
LEMMA RecvCodedTurns ==
  ASSUME WellConfigured, NEW me \in Node, NEW s, Healthy(me, {}, s), NEW d, NEW f \in Frame,
         Coded(f), f.dest # Broadcast, NEW K, Spoken(K, f), NEW mac,
         NEW sends \in Sendable(me) \union {NoSend}, Answers(Duty(me), Contents(f), sends),
         Owes(Duty(me), s, f), NEW free, NEW pid, Bound(free, me, pid, s)
  PROVE  Turns(me, pid, free, Answered(me, s, d, f, sends, pid), s,
               RecvCoded(s, d, f, mac, sends))
<1> DEFINE p == NativeForMe(s, f)
           h == Hash(Decoded(s, f))
           u == AddAck(s, NodeIP(f.from), p)
           w == ForwardUp(u, d, f, sends)
           t == Hold(w, p, mac)
           a == Answered(me, s, d, f, sends, pid)
           r == RecvCoded(s, d, f, mac, sends)
           one == Cardinality(Missing(s, f)) = 1
<1>1. s \in Typed(me, {})
  BY DEF Healthy, Good
<1>2. r = IF ~one THEN s
          ELSE IF \E x \in f.natives : x.mac = Broadcast THEN Abort(s, "BroadcastCoded")
          ELSE IF ~AmINext(s, f) THEN Hold(s, h, mac)
          ELSE IF p \notin Missing(s, f) THEN Abort(s, "DecodedOther")
          ELSE IF p # h THEN Abort(s, "DecodedHash")
          ELSE t
  BY DEF RecvCoded
<1>3. ~one \/ ~AmINext(s, f) => a = 0
  BY DEF Answered
<1>4. one /\ AmINext(s, f) => a = IF ReachesIP(me, d, f) THEN Asking(sends, pid) ELSE 0
  BY DEF Answered
<1>5. \A where \in {"BroadcastCoded", "DecodedOther", "DecodedHash"} :
        Turns(me, pid, free, a, s, Abort(s, where))
  BY <1>1 DEF Turns, Abort, Running, Typed, IState
<1>6. ASSUME AmINext(s, f), one PROVE Turns(me, pid, free, a, s, t)
  <2>1. p \in Pid /\ NodeIP(f.from) \in Nat /\ [ip |-> NodeIP(f.from), pid |-> p] \in Duty(me).due
    BY <1>1, <1>6, NativeForMeType, FrameFields, NodeIPType DEF Owes
  <2> HIDE DEF p
  <2>2. Healthy(me, {p}, u) /\ u.info = s.info /\ Unmoved(s, u)
    BY <2>1, AddAckSound
  <2> HIDE DEF u
  <2>3. Turns(me, pid, free, 0, s, u)
    BY <2>2, UnmovedTurns
  <2>4. Turns(me, pid, free, a, u, w)
    <3>1. Bound(free, me, pid, u)
      BY <2>2 DEF Bound, Uninformed
    <3> QED BY <1>4, <1>6, <2>2, <3>1, ForwardUpTurns
  <2>5. Turns(me, pid, free, 0, w, t)
    <3>1. w \in Typed(me, {p})
      BY <2>2, ForwardUpGood DEF Healthy, Good
    <3> HIDE DEF w
    <3> QED BY <3>1, HoldTurns
  <2> HIDE DEF t, w
  <2>6. a \in Nat /\ 0 + a = a /\ a + 0 = a
    BY DEF Answered, Asking
  <2>7. Turns(me, pid, free, 0 + a, s, w)
    <3> HIDE DEF a
    <3> QED BY <2>3, <2>4, <2>6, TurnsChain
  <2>8. Turns(me, pid, free, a + 0, s, t)
    <3> HIDE DEF a
    <3> QED BY <2>5, <2>6, <2>7, TurnsChain
  <2> QED BY <2>6, <2>8
<1>7. Turns(me, pid, free, 0, s, s)
  BY UnmovedTurns DEF Unmoved
<1>8. Turns(me, pid, free, 0, s, Hold(s, h, mac))
  <2> HIDE DEF h
  <2> QED BY <1>1, HoldTurns
<1> HIDE DEF p, h, t, w, u, one, a
<1> QED BY <1>2, <1>3, <1>5, <1>6, <1>7, <1>8 DEF a

\* A frame with one native.
LEMMA RecvPlainTurns ==
  ASSUME WellConfigured, NEW me \in Node, NEW s, Healthy(me, {}, s), NEW d, NEW f \in Frame,
         ~Coded(f), f.dest # Broadcast, \A x \in f.natives : x.mac # Broadcast, NEW mac,
         NEW sends \in Sendable(me) \union {NoSend}, Answers(Duty(me), Contents(f), sends),
         NEW free, NEW pid, Bound(free, me, pid, s)
  PROVE  Turns(me, pid, free, Answered(me, s, d, f, sends, pid), s,
               RecvPlain(s, d, f, mac, sends))
<1> DEFINE p == NativeForMe(s, f)
           h == Hash(f.payload)
           w == ForwardUp(s, d, f, sends)
           t == Hold(w, p, mac)
           a == Answered(me, s, d, f, sends, pid)
           r == RecvPlain(s, d, f, mac, sends)
<1>1. s \in Typed(me, {})
  BY DEF Healthy, Good
<1>2. r = IF ~AmINext(s, f) THEN Hold(s, h, mac)
          ELSE IF p # h THEN Abort(s, "PlainHash")
          ELSE t
  BY DEF RecvPlain
<1>3. ~AmINext(s, f) => a = 0
  BY DEF Answered
<1>4. AmINext(s, f) => a = IF ReachesIP(me, d, f) THEN Asking(sends, pid) ELSE 0
  BY DEF Answered
<1>5. Turns(me, pid, free, a, s, Abort(s, "PlainHash"))
  BY <1>1 DEF Turns, Abort, Running, Typed, IState
<1>6. ASSUME AmINext(s, f) PROVE Turns(me, pid, free, a, s, t)
  <2>1. Turns(me, pid, free, a, s, w)
    BY <1>4, <1>6, ForwardUpTurns
  <2>2. w \in Typed(me, {})
    BY ForwardUpGood DEF Healthy, Good
  <2> HIDE DEF w, p
  <2>3. Turns(me, pid, free, 0, w, t)
    BY <2>2, HoldTurns
  <2> HIDE DEF t
  <2>4. a \in Nat /\ a + 0 = a
    BY DEF Answered, Asking
  <2>5. Turns(me, pid, free, a + 0, s, t)
    <3> HIDE DEF a
    <3> QED BY <2>1, <2>3, <2>4, TurnsChain
  <2> QED BY <2>4, <2>5
<1>7. Turns(me, pid, free, 0, s, Hold(s, h, mac))
  <2> HIDE DEF h
  <2> QED BY <1>1, HoldTurns
<1> HIDE DEF p, h, t, w, a
<1> QED BY <1>2, <1>3, <1>5, <1>6, <1>7 DEF a

\* A data frame.
LEMMA RecvDataTurns ==
  ASSUME WellConfigured, NEW me \in Node, NEW s, Healthy(me, {}, s), Running(s),
         NEW d \in Devices(me), NEW f \in Frame, ~f.hello, Readable(s, f),
         f.dest # Broadcast, \A x \in f.natives : x.mac # Broadcast,
         NEW K, Spoken(K, f), NEW sends \in Sendable(me) \union {NoSend},
         Answers(Duty(me), Contents(f), sends), Owes(Duty(me), s, f),
         NEW free, NEW pid, Bound(free, me, pid, RecvData(s, d, f, sends)),
         free \/ pid \notin Acked(me, f)
  PROVE  Turns(me, pid, free, Answered(me, s, d, f, sends, pid), s, RecvData(s, d, f, sends))
<1> DEFINE u == RecvHeader(s, d, f)
           mac == GetMac(u.nbrs[SearchIP(u.nbrs, NodeIP(f.from))])
           v == IF Coded(f) THEN RecvCoded(u, d, f, mac, sends)
                ELSE RecvPlain(u, d, f, mac, sends)
           N == Macs(f.from)
           I == Contents(f)
           D == Duty(me)
           a == Answered(me, s, d, f, sends, pid)
<1>1. /\ s \in Good(me, {}) /\ Tied(s) /\ Whole(s) /\ Stocked(me, D, s) /\ s.me = me
      /\ f.src \in Macs(f.from)
  BY Fields DEF Healthy, Good, Spoken
<1>2. /\ u \in Good(me, {}) /\ Running(u) /\ mac \in Nat /\ Tied(u) /\ Keeps(s, u)
      /\ mac \in N /\ Learns(me, D, I, K, N, s, u) /\ u.me = me /\ u.pool = s.pool
  BY <1>1, RecvHeaderGood, RecvHeaderKeeps, HeaderLearns
<1>3. RecvData(s, d, f, sends) = TrySend(v)
  BY <1>2 DEF RecvData
<1>4. Turns(me, pid, free, 0, s, u)
  BY <1>1, HeaderTurns
<1> HIDE DEF u, mac, N
<1>5. /\ AmINext(u, f) = AmINext(s, f) /\ NativeForMe(u, f) = NativeForMe(s, f)
      /\ Missing(u, f) = Missing(s, f)
  BY <1>1, <1>2 DEF AmINext, NativeForMe, Missing
<1>6. Healthy(me, {}, u) /\ Owes(D, u, f) /\ Readable(u, f) /\ Answers(D, I, sends)
      /\ Stocked(me, D, u)
  <2>1. Healthy(me, {}, u)
    BY <1>1, <1>2, SoundOn DEF D
  <2>2. Readable(u, f)
    BY <1>1, <1>2 DEF Readable
  <2> QED BY <1>5, <2>1, <2>2 DEF Owes, Healthy
<1>7. Answered(me, u, d, f, sends, pid) = a
  BY <1>5 DEF Answered
<1> HIDE DEF I, D
<1>8. v \in Good(me, {}) /\ Keeps(u, v) /\ Learns(me, D, I, K, N, u, v)
  <2>1. v \in Good(me, {}) /\ Keeps(u, v)
    BY <1>2, <1>6, RecvCodedGood, RecvPlainGood, RecvCodedKeeps, RecvPlainKeeps
  <2>2. Learns(me, D, I, K, N, u, v)
    BY <1>2, <1>6, RecvCodedLearns, RecvPlainLearns DEF I
  <2> QED BY <2>1, <2>2
<1>9. Healthy(me, {}, v)
  BY <1>6, <1>8, SoundOn DEF D
<1> DEFINE r == TrySend(v)
<1>10. Bound(free, me, pid, v) /\ Bound(free, me, pid, u)
  <2>1. Stays(me, D, v, r)
    BY <1>9, TrySendStays DEF Healthy, D
  <2>2. Bound(free, me, pid, r)
    BY <1>3
  <2> HIDE DEF v, r
  <2>3. Bound(free, me, pid, v)
    BY <2>1, <2>2, BoundBefore DEF Stays
  <2> QED BY <1>8, <2>3, BoundBefore DEF Learns
<1>11. Turns(me, pid, free, a, u, v)
  <2>1. Coded(f) => Turns(me, pid, free, a, u, RecvCoded(u, d, f, mac, sends))
    BY <1>6, <1>7, <1>10, RecvCodedTurns DEF D, I
  <2>2. ~Coded(f) => Turns(me, pid, free, a, u, RecvPlain(u, d, f, mac, sends))
    BY <1>6, <1>7, <1>10, RecvPlainTurns DEF D, I
  <2> QED BY <2>1, <2>2
<1>12. Turns(me, pid, free, 0, v, r)
  BY <1>9, <1>10, TrySendTurns
<1> HIDE DEF v, r
<1>13. a \in Nat /\ 0 + a = a /\ a + 0 = a
  BY DEF Answered, Asking
<1> HIDE DEF a
<1>14. Turns(me, pid, free, 0 + a, s, v)
  BY <1>4, <1>11, <1>13, TurnsChain
<1>15. Turns(me, pid, free, a + 0, s, r)
  BY <1>12, <1>13, <1>14, TurnsChain
<1> QED BY <1>3, <1>13, <1>15 DEF a, r

\* Every frame of another node.
LEMMA RecvTurns ==
  ASSUME WellConfigured, NEW me \in Node, NEW s, Healthy(me, {}, s), Running(s),
         NEW d \in Devices(me), NEW f \in Frame, f.src \notin Macs(me), Readable(s, f),
         ~f.hello => f.dest # Broadcast, \A x \in f.natives : x.mac # Broadcast,
         NEW K, Spoken(K, f), NEW sends \in Sendable(me) \union {NoSend},
         Answers(Duty(me), Contents(f), sends), Owes(Duty(me), s, f),
         NEW free, NEW pid, Bound(free, me, pid, Recv(s, d, f, sends)),
         free \/ pid \notin Acked(me, f)
  PROVE  Turns(me, pid, free,
               IF Brings(s, d, f) /\ ReachesIP(me, d, f) THEN Asking(sends, pid) ELSE 0,
               s, Recv(s, d, f, sends))
<1> DEFINE u == NeighborLearn(s, RadiosOf[f.from])
           W == Waiting(s.queue)
           a == IF Brings(s, d, f) /\ ReachesIP(me, d, f) THEN Asking(sends, pid) ELSE 0
           r == Recv(s, d, f, sends)
<1>1. s.me = me /\ s \in Typed(me, {}) /\ s.nbrs \in Seq(Neighbor) /\ Linked(s.nbrs, W)
  BY Fields DEF Healthy, Good, Tied
<1>2. r = IF f.hello THEN TrySend(u)
          ELSE IF ForOtherRadio(s, d, f) THEN s
          ELSE RecvData(s, d, f, sends)
  BY <1>1 DEF Recv
<1>3. CASE f.hello
  <2>1. r = TrySend(u) /\ a = 0
    BY <1>2, <1>3 DEF Brings
  <2>2. PICK n \in Seq(Neighbor) :
          /\ u = [s EXCEPT !.nbrs = n]
          /\ Linked(n, W)
          /\ \A M : WellConfigured /\ Complete(s.nbrs, W, M) => Complete(n, W, M)
    <3> HIDE DEF W
    <3>1. f.from \in Node
      BY FrameFields
    <3> QED BY <1>1, <3>1, NeighborLearnTaught
  <2> HIDE DEF u
  <2>3. u \in Good(me, {})
    BY <2>2, UpdateGood DEF Healthy
  <2>4. /\ u.nbrs = n /\ u.macq = s.macq /\ u.pool = s.pool /\ u.info = s.info
        /\ u.queue = s.queue /\ u.rtqueue = s.rtqueue /\ u.timer = s.timer
        /\ u.abort = s.abort /\ u.acks = s.acks
    BY <1>1, <2>2 DEF Typed, IState
  <2>5. Tied(u) /\ Stays(me, Duty(me), s, u)
    BY <2>2, <2>4, FewerStays DEF Tied, Healthy
  <2>6. Keeps(s, u)
    <3>1. WellConfigured /\ Whole(s) => Whole(u)
      BY <2>2, <2>4 DEF Whole, Awaited
    <3> QED BY <2>4, <2>5, <3>1 DEF Keeps
  <2>7. Healthy(me, {}, u)
    BY <2>3, <2>5, <2>6, SoundOn
  <2>8. Stays(me, Duty(me), u, TrySend(u))
    BY <2>7, TrySendStays DEF Healthy
  <2>9. Bound(free, me, pid, u)
    BY <2>1, <2>8, BoundBefore DEF Stays
  <2>10. Turns(me, pid, free, 0, u, TrySend(u))
    BY <2>7, <2>9, TrySendTurns
  <2>11. Turns(me, pid, free, 0, s, u)
    BY <2>4, UnmovedTurns DEF Unmoved, Running
  <2>12. Turns(me, pid, free, 0 + 0, s, TrySend(u))
    BY <2>10, <2>11, TurnsChain
  <2> QED BY <2>1, <2>12
<1>4. CASE ~f.hello /\ ForOtherRadio(s, d, f)
  <2>1. r = s /\ a = 0
    BY <1>2, <1>4 DEF Brings
  <2>2. Turns(me, pid, free, 0, s, s)
    BY UnmovedTurns DEF Unmoved
  <2> QED BY <2>1, <2>2
<1>5. CASE ~f.hello /\ ~ForOtherRadio(s, d, f)
  <2>1. r = RecvData(s, d, f, sends) /\ a = Answered(me, s, d, f, sends, pid)
    BY <1>2, <1>5 DEF Brings, Answered
  <2>2. Bound(free, me, pid, RecvData(s, d, f, sends))
    BY <2>1
  <2>3. Turns(me, pid, free, Answered(me, s, d, f, sends, pid), s, RecvData(s, d, f, sends))
    BY <1>5, <2>2, RecvDataTurns
  <2> QED BY <2>1, <2>3
<1> QED BY <1>3, <1>4, <1>5

\* What there was of a packet was v, and is w now that frame f has left.
Departs(v, w, pid, f) ==
  /\ w.wait = v.wait /\ w.again = v.again /\ w.asked = v.asked
  /\ v.plain = w.plain + (IF f \in PlainOf(pid) THEN 1 ELSE 0)
  /\ v.coded = w.coded + (IF f \in CodedOf(pid) THEN 1 ELSE 0)

\* The first frame of a MAC queue leaves it, and nothing else happens.
LEMMA TailDeparts ==
  ASSUME NEW me \in Node, NEW X, NEW s \in Typed(me, X), NEW d \in Devices(me),
         s.macq[d] # <<>>, NEW r \in Typed(me, X), r.macq[d] = Tail(s.macq[d]),
         \A e \in Devices(me) : e # d => r.macq[e] = s.macq[e],
         r.queue = s.queue, r.rtqueue = s.rtqueue, NEW pid, NEW k
  PROVE  Departs(LifeOf(me, pid, s, k), LifeOf(me, pid, r, k), pid, Head(s.macq[d]))
<1> DEFINE C == PlainOf(pid)
           D == CodedOf(pid)
<1>1. Cardinality(Spots(me, s, C)) =
        Cardinality(Spots(me, r, C)) + (IF Head(s.macq[d]) \in C THEN 1 ELSE 0)
  <2> HIDE DEF C
  <2> QED BY SpotsTail
<1>2. Cardinality(Spots(me, s, D)) =
        Cardinality(Spots(me, r, D)) + (IF Head(s.macq[d]) \in D THEN 1 ELSE 0)
  <2> HIDE DEF D
  <2> QED BY SpotsTail
<1> QED BY <1>1, <1>2 DEF Departs, LifeOf, LifeIn

\* A frame leaves the MAC queue.
LEMMA SentDeparts ==
  ASSUME NEW me \in Node, NEW s, Lives(me, s), NEW d \in Devices(me), s.macq[d] # <<>>,
         NEW r, r = [s EXCEPT !.macq[d] = Tail(@)], NEW pid, NEW k
  PROVE  /\ Lives(me, r) /\ (Running(r) <=> Running(s))
         /\ Departs(LifeOf(me, pid, s, k), LifeOf(me, pid, r, k), pid, Head(s.macq[d]))
<1>1. Lives(me, r) /\ r \in Typed(me, {}) /\ s \in Typed(me, {})
  BY MacSendGoes DEF Goes, Lives, Good
<1>2. /\ r.macq = [s.macq EXCEPT ![d] = Tail(@)] /\ r.queue = s.queue
      /\ r.rtqueue = s.rtqueue /\ r.abort = s.abort
  BY <1>1 DEF Typed, IState
<1>3. r.macq[d] = Tail(s.macq[d]) /\ \A e \in Devices(me) : e # d => r.macq[e] = s.macq[e]
  <2>1. s.macq \in [Devices(me) -> Seq(Frame)]
    BY <1>1, Fields
  <2> QED BY <1>2, <2>1
<1>4. Departs(LifeOf(me, pid, s, k), LifeOf(me, pid, r, k), pid, Head(s.macq[d]))
  BY <1>1, <1>2, <1>3, TailDeparts
<1> QED BY <1>1, <1>2, <1>4 DEF Running

-------------------------------------------------------------------------------
(* The network                                                             *)

\* An address names one node, so a packet has one next hop.
LEMMA LeadsToOne ==
  ASSUME WellConfigured, NEW n \in Node, NEW m \in Node, NEW k \in Node, NEW pid,
         Leads(n, m, pid), Leads(n, k, pid)
  PROVE  m = k
BY DEF Leads, WellConfigured

\* The next hop of a packet that is sent on.
LEMMA NextNodeLeads ==
  ASSUME Routed, NEW n \in Node, NEW pid \in Pid, Forwards(n, pid)
  PROVE  NextNode(n, pid) \in Node /\ Leads(n, NextNode(n, pid), pid)
<1>1. \E m \in Node : Leads(n, m, pid)
  BY DEF Routed
<1> QED BY <1>1 DEF NextNode

\* It is another node.
LEMMA LeadsAway ==
  ASSUME WellConfigured, Routed, NEW n \in Node, NEW m \in Node, NEW pid \in Pid,
         Leads(n, m, pid)
  PROVE  m # n /\ Forwards(n, pid)
<1>1. Forwards(n, pid)
  BY DEF Leads
<1>2. PICK k \in Node \ {n} : Leads(n, k, pid)
  BY <1>1 DEF Routed
<1>3. k = m
  BY <1>2, LeadsToOne
<1> QED BY <1>1, <1>2, <1>3 DEF Routed

\* The lemmas about handlers hold of a node that lives.
LEMMA LivesSound ==
  ASSUME NEW n, NEW s, Lives(n, s)
  PROVE  Healthy(n, {}, s)
BY DEF Lives, Healthy

\* What a frame is to node m that hears it with radio e: IP reacts with sends.
Heard(m, s, e, f, K, sends) ==
  /\ Healthy(m, {}, s) /\ s \in Typed(m, {}) /\ Running(s) /\ e \in Devices(m)
  /\ f \in Frame /\ f.src \notin Macs(m) /\ Readable(s, f) /\ Spoken(K, f)
  /\ ~f.hello => f.dest # Broadcast
  /\ \A x \in f.natives : x.mac # Broadcast
  /\ sends \in Sendable(m) \union {NoSend} /\ Answers(Duty(m), Contents(f), sends)
  /\ Owes(Duty(m), s, f)

\* Whoever hears a frame can read it, and its IP answers as it may.
LEMMA HearsFrame ==
  ASSUME WellConfigured, TwoHops, NInv, Simulating, NEW n \in Node, NEW d \in Devices(n),
         NEW f \in Range(cope[n].macq[d]), NEW m \in Node, m # n, Ear(m, n, d) # 0
  PROVE  Heard(m, cope[m], Ear(m, n, d), f, cope[n].pool, IPReaction(cope[m], f))
<1> DEFINE s == cope[m]
           K == cope[n].pool
           e == Ear(m, n, d)
           sends == IPReaction(s, f)
<1>1. Lives(m, s) /\ Lives(n, cope[n]) /\ Running(s) /\ Running(cope[n])
  BY DEF NInv, Simulating
<1>2. /\ f \in Frame /\ f.from = n /\ Spoken(K, f) /\ Genuine(n, d, Duty(n), K, f)
      /\ \A x \in f.natives : x.mac # Broadcast
  BY <1>1, SpeaksOfItself
<1>3. Healthy(m, {}, s) /\ s \in Typed(m, {})
  <2> HIDE DEF s
  <2> QED BY <1>1, LivesSound DEF Healthy, Good
<1>4. e \in Devices(m)
  BY <1>3, DeviceOnProperties DEF Ear
<1>5. /\ sends \in Sendable(m) \union {NoSend} /\ Answers(Duty(m), Contents(f), sends)
      /\ Owes(Duty(m), s, f)
  <2> HIDE DEF s, K
  <2> QED BY <1>1, <1>2, IPAnswers, OwesNextHop
<1>6. Readable(s, f)
  <2>1. s.me = m
    BY <1>3, Fields
  <2>2. \A x, y \in f.natives : x # y /\ x.mac \in Macs(m) => y.pid \in s.pool
    BY DEF NInv, Decodable
  <2> HIDE DEF s
  <2> QED BY <1>2, <2>1, <2>2 DEF Readable, Spoken, Sums
<1>7. f.src \notin Macs(m)
  BY <1>2 DEF Spoken, WellConfigured
<1>8. ~f.hello => f.dest # Broadcast
  BY <1>2 DEF Genuine, Directed
<1> HIDE DEF s, K, e, sends
<1>9. Heard(m, s, e, f, K, sends)
  BY <1>1, <1>2, <1>3, <1>4, <1>5, <1>6, <1>7, <1>8 DEF Heard
<1> QED BY <1>9 DEF s, K, e, sends

\* A node that hears a frame does to a packet of its own what it may, and
\* asks for it again when IP is given it.
LEMMA HearsTurns ==
  ASSUME WellConfigured, TwoHops, NInv, Simulating, NEW n \in Node, NEW d \in Devices(n),
         NEW f \in Range(cope[n].macq[d]), NEW m \in Node, m # n, Ear(m, n, d) # 0,
         NEW free, NEW pid, Bound(free, m, pid, Hears(m, n, d, f)),
         free \/ pid \notin Acked(m, f)
  PROVE  Turns(m, pid, free,
               IF Brings(cope[m], Ear(m, n, d), f) /\ ReachesIP(m, Ear(m, n, d), f)
               THEN Asking(IPReaction(cope[m], f), pid) ELSE 0,
               cope[m], Hears(m, n, d, f))
<1> DEFINE s == cope[m]
           K == cope[n].pool
           e == Ear(m, n, d)
           sends == IPReaction(s, f)
<1>1. Heard(m, s, e, f, K, sends)
  BY HearsFrame
<1>2. Hears(m, n, d, f) = Recv(s, e, f, sends)
  BY DEF Hears
<1> HIDE DEF s, K, e, sends
<1>3. Bound(free, m, pid, Recv(s, e, f, sends))
  BY <1>2
<1>4. Turns(m, pid, free,
            IF Brings(s, e, f) /\ ReachesIP(m, e, f) THEN Asking(sends, pid) ELSE 0,
            s, Recv(s, e, f, sends))
  BY <1>1, <1>3, RecvTurns DEF Heard
<1> QED BY <1>2, <1>4 DEF s, e, sends

-------------------------------------------------------------------------------
(* What a step does to a packet of one node                                *)

\* given counts.
Counted == given \in [Node -> [Pid -> Nat]]

\* m, which hears frame f of radio d of node n, gives pid to IP.
Lifts(m, n, d, f, pid) ==
  /\ Brings(cope[m], Ear(m, n, d), f)
  /\ ReachesIP(m, Ear(m, n, d), f)
  /\ NativeForMe(cope[m], f) = pid

\* Radio d of n has sent frame f, and hearers have heard it.
Flies(n, d, hearers, f) ==
  /\ Simulating /\ cope[n].macq[d] # <<>> /\ f \in Range(cope[n].macq[d])
  /\ f \in Frame /\ f.from = n /\ Spoken(cope[n].pool, f)
  /\ Genuine(n, d, Duty(n), cope[n].pool, f)
  /\ cope'[n] = [cope[n] EXCEPT !.macq[d] = Tail(@)]
  /\ n \notin hearers /\ \A m \in hearers : m \in Node /\ Ear(m, n, d) # 0
  /\ \A m \in hearers : cope'[m] = Hears(m, n, d, f)
  /\ \A m \in Node \ {n} : m \notin hearers => cope'[m] = cope[m]
  /\ todo' = todo /\ Counted'
  /\ \A m \in Node, pid \in Pid :
       given'[m][pid] = given[m][pid] +
         (IF m \in hearers /\ Lifts(m, n, d, f, pid) THEN 1 ELSE 0)

\* The frame of a step of the medium, and who makes what of it.
LEMMA MacSendFlies ==
  ASSUME TwoHops, NInv, Counted, NEW n \in Node, NEW d \in Devices(n),
         NEW hearers \in SUBSET Listeners(n, d), MacSend(n, d, hearers)
  PROVE  Flies(n, d, hearers, Head(cope[n].macq[d]))
<1> DEFINE f == Head(cope[n].macq[d])
           brought == {m \in hearers : Brings(cope[m], Ear(m, n, d), f)}
           upward == {m \in brought : ReachesIP(m, Ear(m, n, d), f)}
<1>1. /\ Simulating /\ cope[n].macq[d] # <<>> /\ todo' = todo
      /\ cope' = [m \in Node |->
                    IF m = n THEN [cope[n] EXCEPT !.macq[d] = Tail(@)]
                    ELSE IF m \in hearers THEN Hears(m, n, d, f)
                    ELSE cope[m]]
      /\ given' = [m \in Node |->
                     IF m \in upward THEN [given[m] EXCEPT ![NativeForMe(cope[m], f)] = @ + 1]
                     ELSE given[m]]
  BY DEF MacSend
<1>2. Lives(n, cope[n]) /\ Running(cope[n]) /\ f \in Range(cope[n].macq[d])
  BY <1>1, MacSendGoes DEF NInv, Simulating
<1>3. /\ f \in Frame /\ f.from = n /\ Spoken(cope[n].pool, f)
      /\ Genuine(n, d, Duty(n), cope[n].pool, f)
  <2> HIDE DEF f
  <2> QED BY <1>2, SpeaksOfItself
<1>4. n \notin hearers /\ \A m \in hearers : m \in Node /\ m # n /\ Ear(m, n, d) # 0
  BY NearAssumption DEF Listeners
<1>5. \A m \in upward :
        /\ m \in hearers /\ m \in Node
        /\ Brings(cope[m], Ear(m, n, d), f) /\ ReachesIP(m, Ear(m, n, d), f)
  BY <1>4
<1>6. \A m \in hearers : \A pid :
        Lifts(m, n, d, f, pid) <=> m \in upward /\ NativeForMe(cope[m], f) = pid
  BY DEF Lifts
<1> HIDE DEF upward, f
<1>7. ASSUME NEW m \in upward PROVE NativeForMe(cope[m], f) \in Pid
  <2>1. m \in Node /\ AmINext(cope[m], f)
    BY <1>5 DEF Brings
  <2>2. cope[m] \in Typed(m, {})
    BY <2>1 DEF NInv, Lives, Good
  <2> QED BY <1>3, <2>1, <2>2, NativeForMeType
<1>8. Counted'
  BY <1>1, <1>7 DEF Counted
<1>9. ASSUME NEW m \in Node, NEW pid \in Pid
      PROVE  given'[m][pid] = given[m][pid] +
               (IF m \in hearers /\ Lifts(m, n, d, f, pid) THEN 1 ELSE 0)
  <2>1. given[m] \in [Pid -> Nat] /\ given[m][pid] \in Nat
    BY DEF Counted
  <2>2. CASE m \in upward
    <3>1. given'[m] = [given[m] EXCEPT ![NativeForMe(cope[m], f)] = @ + 1]
      BY <1>1, <2>2
    <3>2. m \in hearers /\ (Lifts(m, n, d, f, pid) <=> NativeForMe(cope[m], f) = pid)
      BY <1>5, <1>6, <2>2
    <3> QED BY <2>1, <3>1, <3>2
  <2>3. CASE m \notin upward
    <3>1. given'[m] = given[m]
      BY <1>1, <2>3
    <3>2. ~(m \in hearers /\ Lifts(m, n, d, f, pid))
      BY <1>6, <2>3
    <3> QED BY <2>1, <3>1, <3>2
  <2> QED BY <2>2, <2>3
<1>10. \A m \in hearers : cope'[m] = Hears(m, n, d, f)
  BY <1>1, <1>4
<1>11. \A m \in Node \ {n} : m \notin hearers => cope'[m] = cope[m]
  BY <1>1
<1>12. cope'[n] = [cope[n] EXCEPT !.macq[d] = Tail(@)]
  BY <1>1
<1>13. Flies(n, d, hearers, f)
  BY <1>1, <1>2, <1>3, <1>4, <1>8, <1>9, <1>10, <1>11, <1>12 DEF Flies
<1> QED BY <1>13 DEF f

\* What a node holds and what it believes, it never forgets.
LEMMA NextLearns ==
  ASSUME WellConfigured, TwoHops, NInv, [Next]_vars, NEW n \in Node
  PROVE  cope[n].pool \subseteq cope'[n].pool /\ cope[n].info \subseteq cope'[n].info
<1>1. cope' = cope \/ (\E k \in Node : Heeds(k)) \/ \E x \in Flow : SetsOut(x)
  BY NextGoes
<1>2. ASSUME NEW k \in Node, Heeds(k)
      PROVE  cope[n].pool \subseteq cope'[n].pool /\ cope[n].info \subseteq cope'[n].info
  BY <1>2 DEF Heeds, Goes, Learns
<1>3. ASSUME NEW x \in Flow, SetsOut(x)
      PROVE  cope[n].pool \subseteq cope'[n].pool /\ cope[n].info \subseteq cope'[n].info
  <2>1. /\ cope' = [cope EXCEPT ![x.node] = cope'[x.node]]
        /\ Goes(x.node, {x.pid}, {}, {}, cope[x.node], cope'[x.node])
    BY <1>3 DEF SetsOut
  <2>2. CASE n = x.node
    BY <2>1, <2>2 DEF Goes, Learns
  <2>3. CASE n # x.node
    <3>1. cope'[n] = cope[n]
      BY <2>1, <2>3 DEF NInv
    <3> QED BY <3>1
  <2> QED BY <2>2, <2>3
<1> QED BY <1>1, <1>2, <1>3

\* Radio d of n has sent a frame.
Airs(n) == \E d \in Devices(n) : \E hearers \in SUBSET Listeners(n, d) : MacSend(n, d, hearers)

\* A step that is none of the medium.
LEMMA OwnStepTurns ==
  ASSUME WellConfigured, TwoHops, NInv, [Next]_vars, \A k \in Node : ~Airs(k),
         NEW n \in Node, NEW pid \in Pid, Forwards(n, pid), Counted,
         NEW free, Bound(free, n, pid, cope'[n])
  PROVE  \E a \in {0, 1} : /\ Asks(n, pid)' = Asks(n, pid) + a
                           /\ Turns(n, pid, free, a, cope[n], cope'[n])
<1> DEFINE fl == [node |-> n, pid |-> pid]
<1>1. /\ cope = [m \in Node |-> cope[m]] /\ todo \subseteq Flow
      /\ Lives(n, cope[n]) /\ Healthy(n, {}, cope[n]) /\ n \in DOMAIN cope
  <2>1. Lives(n, cope[n]) /\ cope = [m \in Node |-> cope[m]]
    BY DEF NInv
  <2> QED BY <2>1, LivesSound DEF NInv
<1>2. Bound(free, n, pid, cope[n])
  <2>1. cope[n].info \subseteq cope'[n].info
    BY NextLearns
  <2> QED BY <2>1, BoundBefore
<1>3. given[n][pid] \in Nat
  BY DEF Counted
<1>4. ASSUME todo' = todo, given' = given, Turns(n, pid, free, 0, cope[n], cope'[n])
      PROVE  \E a \in {0, 1} : /\ Asks(n, pid)' = Asks(n, pid) + a
                               /\ Turns(n, pid, free, a, cope[n], cope'[n])
  <2>1. Asks(n, pid)' = Asks(n, pid) + 0
    BY <1>3, <1>4 DEF Asks
  <2> QED BY <1>4, <2>1
<1>5. ASSUME cope'[n] = cope[n] PROVE Turns(n, pid, free, 0, cope[n], cope'[n])
  BY <1>5, UnmovedTurns DEF Unmoved
<1>6. ASSUME NEW x \in todo, Originate(x)
      PROVE  \E a \in {0, 1} : /\ Asks(n, pid)' = Asks(n, pid) + a
                               /\ Turns(n, pid, free, a, cope[n], cope'[n])
  <2> DEFINE y == Route[x.node][x.pid]
  <2>1. x \in Flow /\ x.node \in Node /\ x.pid \in Pid /\ x = [node |-> x.node, pid |-> x.pid]
    BY <1>1, FlowAssumption
  <2>2. y # NoSend
    BY <2>1, FlowAssumption
  <2>3. y \in Sendable(x.node) /\ y.id = x.pid
    BY <2>1, <2>2, RouteAssumption DEF Sendable
  <2>4. /\ cope' = [cope EXCEPT ![x.node] = EnqueueData(@, y)]
        /\ todo' = todo \ {x} /\ given' = given
    BY <1>6 DEF Originate, Unheard
  <2>5. <<y.dest, y.id>> \in Duty(x.node).legs
    BY <2>1, <2>2, <2>3, LegsLead DEF Forwards
  <2> HIDE DEF y
  <2>6. CASE x.node # n
    <3>1. cope'[n] = cope[n]
      BY <1>1, <2>4, <2>6
    <3>2. x # fl
      BY <2>6
    <3>3. fl \in Flow \ todo' <=> fl \in Flow \ todo
      BY <2>4, <3>2
    <3>4. Asks(n, pid)' = Asks(n, pid) + 0
      BY <1>3, <2>4, <3>3 DEF Asks
    <3> QED BY <1>5, <3>1, <3>4
  <2>7. CASE x.node = n
    <3> DEFINE r == EnqueueData(cope[n], y)
    <3>1. cope'[n] = r
      BY <1>1, <2>4, <2>7
    <3>2. y \in Sendable(n) /\ <<y.dest, y.id>> \in Duty(n).legs
      BY <2>3, <2>5, <2>7
    <3>3. Turns(n, pid, free, Asking(y, pid), cope[n], r)
      BY <1>1, <1>2, <3>2, EnqueueDataTurns
    <3>4. Asking(y, pid) = IF x.pid = pid THEN 1 ELSE 0
      BY <2>2, <2>3 DEF Asking, y
    <3>5. Asks(n, pid)' = Asks(n, pid) + Asking(y, pid)
      <4>1. CASE x.pid = pid
        <5>1. x = fl
          BY <2>1, <2>7, <4>1
        <5>2. fl \notin Flow \ todo /\ fl \in Flow \ todo'
          BY <2>1, <2>4, <5>1
        <5> QED BY <1>3, <2>4, <3>4, <4>1, <5>2 DEF Asks
      <4>2. CASE x.pid # pid
        <5>1. x # fl
          BY <4>2
        <5>2. fl \in Flow \ todo' <=> fl \in Flow \ todo
          BY <2>4, <5>1
        <5> QED BY <1>3, <2>4, <3>4, <4>2, <5>2 DEF Asks
      <4> QED BY <4>1, <4>2
    <3> HIDE DEF r
    <3>6. Asking(y, pid) \in {0, 1}
      BY <3>4
    <3> QED BY <3>1, <3>3, <3>5, <3>6
  <2> QED BY <2>6, <2>7
<1>7. ASSUME NEW k \in Greeters, NEW ids \in [Devices(k) -> HelloIds], HelloTimerExpire(k, ids)
      PROVE  todo' = todo /\ given' = given /\ Turns(n, pid, free, 0, cope[n], cope'[n])
  <2>1. /\ cope' = [cope EXCEPT ![k] = SendHello(@, ids)] /\ todo' = todo /\ given' = given
    BY <1>7 DEF HelloTimerExpire, Unheard
  <2>2. CASE k = n
    <3> DEFINE r == SendHello(cope[n], ids)
    <3>1. cope'[n] = r
      BY <1>1, <2>1, <2>2
    <3>2. ids \in [Devices(n) -> HelloIds]
      BY <2>2
    <3>3. Turns(n, pid, free, 0, cope[n], r)
      BY <1>1, <1>2, <3>2, SendHelloTurns
    <3> HIDE DEF r
    <3> QED BY <2>1, <3>1, <3>3
  <2>3. CASE k # n
    <3>1. cope'[n] = cope[n]
      BY <1>1, <2>1, <2>3
    <3> QED BY <1>5, <2>1, <3>1
  <2> QED BY <2>2, <2>3
<1>8. ASSUME NEW k \in Node, Try(k)
      PROVE  todo' = todo /\ given' = given /\ Turns(n, pid, free, 0, cope[n], cope'[n])
  <2>1. /\ cope' = [cope EXCEPT ![k] = TrySend(@)] /\ todo' = todo /\ given' = given
    BY <1>8 DEF Try, Unheard
  <2>2. CASE k = n
    <3> DEFINE r == TrySend(cope[n])
    <3>1. cope'[n] = r
      BY <1>1, <2>1, <2>2
    <3>2. Turns(n, pid, free, 0, cope[n], r)
      BY <1>1, <1>2, TrySendTurns
    <3> HIDE DEF r
    <3> QED BY <2>1, <3>1, <3>2
  <2>3. CASE k # n
    <3>1. cope'[n] = cope[n]
      BY <1>1, <2>1, <2>3
    <3> QED BY <1>5, <2>1, <3>1
  <2> QED BY <2>2, <2>3
<1>9. ASSUME NEW k \in Node, TimerExpire(k)
      PROVE  todo' = todo /\ given' = given /\ Turns(n, pid, free, 0, cope[n], cope'[n])
  <2>1. /\ cope' = [cope EXCEPT ![k] = Retransmit(@)] /\ todo' = todo /\ given' = given
    BY <1>9 DEF TimerExpire, Unheard
  <2>2. CASE k = n
    <3> DEFINE r == Retransmit(cope[n])
    <3>1. cope'[n] = r
      BY <1>1, <2>1, <2>2
    <3>2. Turns(n, pid, free, 0, cope[n], r)
      BY <1>1, <1>2, RetransmitTurns
    <3> HIDE DEF r
    <3> QED BY <2>1, <3>1, <3>2
  <2>3. CASE k # n
    <3>1. cope'[n] = cope[n]
      BY <1>1, <2>1, <2>3
    <3> QED BY <1>5, <2>1, <3>1
  <2> QED BY <2>2, <2>3
<1>10. ASSUME NEW k \in Node, TimerDue(k)
       PROVE  todo' = todo /\ given' = given /\ Turns(n, pid, free, 0, cope[n], cope'[n])
  <2>1. cope' = [cope EXCEPT ![k].timer = "due"] /\ todo' = todo /\ given' = given
    BY <1>10 DEF TimerDue, Unheard
  <2>2. Unmoved(cope[n], cope'[n])
    <3>1. cope[n] \in IState(n)
      BY <1>1 DEF Lives, Good, Typed
    <3>2. cope'[n] = cope[n] \/ cope'[n] = [cope[n] EXCEPT !.timer = "due"]
      BY <1>1, <2>1
    <3> QED BY <3>1, <3>2 DEF Unmoved, Running, IState
  <2> QED BY <2>1, <2>2, UnmovedTurns
<1>11. CASE UNCHANGED vars
  <2>1. todo' = todo /\ given' = given /\ cope'[n] = cope[n]
    BY <1>11 DEF vars
  <2> QED BY <1>4, <1>5, <2>1
<1> QED BY <1>4, <1>6, <1>7, <1>8, <1>9, <1>10, <1>11 DEF Next, Airs

\* The step of a node that hears a frame, or does not.
LEMMA EarTurns ==
  ASSUME WellConfigured, TwoHops, NInv, Counted,
         NEW k \in Node, NEW d \in Devices(k), NEW hearers \in SUBSET Listeners(k, d),
         MacSend(k, d, hearers),
         NEW n \in Node, n # k, NEW pid \in Pid, Forwards(n, pid),
         NEW free, Bound(free, n, pid, cope'[n]),
         free \/ pid \notin Acked(n, Head(cope[k].macq[d]))
  PROVE  \E a \in {0, 1} : /\ Asks(n, pid)' = Asks(n, pid) + a
                           /\ Turns(n, pid, free, a, cope[n], cope'[n])
<1> DEFINE f == Head(cope[k].macq[d])
           a == IF n \in hearers /\ Lifts(n, k, d, f, pid) THEN 1 ELSE 0
<1>1. /\ Simulating /\ f \in Range(cope[k].macq[d]) /\ todo' = todo
      /\ \A m \in hearers : m \in Node /\ Ear(m, k, d) # 0 /\ cope'[m] = Hears(m, k, d, f)
      /\ n \notin hearers => cope'[n] = cope[n]
      /\ given'[n][pid] = given[n][pid] + a
  <2> HIDE DEF a
  <2>1. Flies(k, d, hearers, f)
    BY MacSendFlies
  <2> HIDE DEF f
  <2>2. given'[n][pid] = given[n][pid] + a
    BY <2>1 DEF Flies, a
  <2> QED BY <2>1, <2>2 DEF Flies
<1>2. given[n][pid] \in Nat
  BY DEF Counted
<1>3. free \/ pid \notin Acked(n, f)
  OBVIOUS
<1> HIDE DEF f
<1>4. a \in {0, 1}
  OBVIOUS
<1>5. Asks(n, pid)' = Asks(n, pid) + a
  <2> HIDE DEF a
  <2> QED BY <1>1, <1>2, <1>4 DEF Asks
<1>6. Turns(n, pid, free, a, cope[n], cope'[n])
  <2>1. CASE n \in hearers
    <3> DEFINE b == IF Brings(cope[n], Ear(n, k, d), f) /\ ReachesIP(n, Ear(n, k, d), f)
                    THEN Asking(IPReaction(cope[n], f), pid) ELSE 0
    <3>1. Bound(free, n, pid, Hears(n, k, d, f)) /\ Ear(n, k, d) # 0
      BY <1>1, <2>1
    <3>2. Turns(n, pid, free, b, cope[n], Hears(n, k, d, f))
      BY <1>1, <1>3, <3>1, HearsTurns
    <3>3. b = a
      <4>1. CASE Brings(cope[n], Ear(n, k, d), f) /\ ReachesIP(n, Ear(n, k, d), f)
        <5> DEFINE p == NativeForMe(cope[n], f)
        <5>1. AmINext(cope[n], f)
          BY <4>1 DEF Brings
        <5>2. cope[n].me = n /\ p \in Pid
          <6>1. cope[n] \in Typed(n, {})
            BY DEF NInv, Lives, Good
          <6>2. f \in Frame
            BY MacSendFlies DEF Flies, f
          <6> QED BY <5>1, <6>1, <6>2, Fields, NativeForMeType
        <5>3. IPReaction(cope[n], f) = Route[n][p]
          BY <5>1, <5>2 DEF IPReaction
        <5>4. Lifts(n, k, d, f, pid) <=> p = pid
          BY <4>1 DEF Lifts
        <5> HIDE DEF p
        <5>5. Route[n][p] # NoSend => Route[n][p].id = p
          BY <5>2, RouteAssumption
        <5>6. Asking(Route[n][p], pid) = IF p = pid THEN 1 ELSE 0
          BY <5>5 DEF Asking, Forwards
        <5> QED BY <2>1, <4>1, <5>3, <5>4, <5>6
      <4>2. CASE ~(Brings(cope[n], Ear(n, k, d), f) /\ ReachesIP(n, Ear(n, k, d), f))
        BY <4>2 DEF Lifts
      <4> QED BY <4>1, <4>2
    <3> HIDE DEF a, b
    <3> QED BY <1>1, <2>1, <3>2, <3>3
  <2>2. CASE n \notin hearers
    <3>1. a = 0 /\ cope'[n] = cope[n]
      BY <1>1, <2>2
    <3> HIDE DEF a
    <3> QED BY <3>1, UnmovedTurns DEF Unmoved
  <2> QED BY <2>1, <2>2
<1> HIDE DEF a
<1> QED BY <1>4, <1>5, <1>6

-------------------------------------------------------------------------------
(* What a frame brings                                                     *)

\* The next hop holds what a frame brings it, and nothing more if it brings
\* nothing.
LEMMA RecvDataPools ==
  ASSUME WellConfigured, NEW me \in Node, NEW s, Healthy(me, {}, s), Running(s),
         NEW d \in Devices(me), NEW f \in Frame, ~f.hello, Readable(s, f),
         \A x \in f.natives : x.mac # Broadcast,
         NEW K, Spoken(K, f), NEW sends \in Sendable(me) \union {NoSend},
         Answers(Duty(me), Contents(f), sends), Owes(Duty(me), s, f), AmINext(s, f)
  PROVE  IF Coded(f) /\ Cardinality(Missing(s, f)) # 1
         THEN RecvData(s, d, f, sends).pool = s.pool
         ELSE Running(RecvData(s, d, f, sends)) =>
                NativeForMe(s, f) \in RecvData(s, d, f, sends).pool
<1> DEFINE u == RecvHeader(s, d, f)
           mac == GetMac(u.nbrs[SearchIP(u.nbrs, NodeIP(f.from))])
           v == IF Coded(f) THEN RecvCoded(u, d, f, mac, sends)
                ELSE RecvPlain(u, d, f, mac, sends)
           N == Macs(f.from)
           I == Contents(f)
           D == Duty(me)
           p == NativeForMe(s, f)
<1>1. /\ s \in Good(me, {}) /\ Tied(s) /\ Whole(s) /\ Stocked(me, D, s) /\ s.me = me
      /\ f.src \in Macs(f.from)
  BY Fields DEF Healthy, Good, Spoken
<1>2. /\ u \in Good(me, {}) /\ Running(u) /\ mac \in Nat /\ Tied(u) /\ Keeps(s, u)
      /\ mac \in N /\ Learns(me, D, I, K, N, s, u) /\ u.me = me /\ u.pool = s.pool
  BY <1>1, RecvHeaderGood, RecvHeaderKeeps, HeaderLearns
<1>3. RecvData(s, d, f, sends) = TrySend(v)
  BY <1>2 DEF RecvData
<1> HIDE DEF u, mac, N
<1>5. /\ AmINext(u, f) = AmINext(s, f) /\ NativeForMe(u, f) = NativeForMe(s, f)
      /\ Missing(u, f) = Missing(s, f)
  BY <1>1, <1>2 DEF AmINext, NativeForMe, Missing
<1>6. Healthy(me, {}, u) /\ Owes(D, u, f) /\ Readable(u, f) /\ Answers(D, I, sends)
      /\ Stocked(me, D, u)
  <2>1. Healthy(me, {}, u)
    BY <1>1, <1>2, SoundOn DEF D
  <2>2. Readable(u, f)
    BY <1>1, <1>2 DEF Readable
  <2> QED BY <1>5, <2>1, <2>2 DEF Owes, Healthy
<1> HIDE DEF I, D, p
<1>8. v \in Good(me, {}) /\ Keeps(u, v) /\ Learns(me, D, I, K, N, u, v)
  <2>1. v \in Good(me, {}) /\ Keeps(u, v)
    BY <1>2, <1>6, RecvCodedGood, RecvPlainGood, RecvCodedKeeps, RecvPlainKeeps
  <2>2. Learns(me, D, I, K, N, u, v)
    BY <1>2, <1>6, RecvCodedLearns, RecvPlainLearns DEF I
  <2> QED BY <2>1, <2>2
<1>9. Healthy(me, {}, v)
  BY <1>6, <1>8, SoundOn DEF D
<1>10. TrySend(v).pool = v.pool /\ (Running(TrySend(v)) => Running(v))
  <2>1. Stays(me, D, v, TrySend(v))
    BY <1>9, TrySendStays DEF Healthy, D
  <2>2. ~Running(v) => TrySend(v) = v
    BY DEF TrySend
  <2> QED BY <2>1, <2>2 DEF Stays
<1>11. ASSUME NEW w, NEW t, t = Hold(w, p, mac), Running(t),
              w \in Typed(me, {p}) \/ w \in Typed(me, {})
       PROVE  p \in t.pool
  <2>1. w \in IState(me)
    BY <1>11 DEF Typed
  <2>2. Running(w)
    BY <1>11 DEF Hold
  <2> QED BY <1>11, <2>1, <2>2 DEF Hold, SetItems, IState
<1>12. CASE Coded(f) /\ Cardinality(Missing(s, f)) # 1
  <2>1. v = u
    BY <1>5, <1>12 DEF RecvCoded
  <2> QED BY <1>2, <1>3, <1>10, <1>12, <2>1
<1>13. ASSUME Coded(f), Cardinality(Missing(s, f)) = 1, Running(v) PROVE p \in v.pool
  <2> DEFINE a == AddAck(u, NodeIP(f.from), p)
             w == ForwardUp(a, d, f, sends)
  <2>1. v = Hold(w, p, mac) \/ \E where \in {"BroadcastCoded", "DecodedOther", "DecodedHash"} :
                                  v = Abort(u, where)
    BY <1>5, <1>13 DEF RecvCoded, p
  <2>2. u \in Typed(me, {}) /\ u \in IState(me)
    BY <1>2 DEF Good, Typed
  <2>3. \A where \in {"BroadcastCoded", "DecodedOther", "DecodedHash"} : ~Running(Abort(u, where))
    BY <2>2 DEF Abort, Running, IState
  <2>4. p \in Pid /\ NodeIP(f.from) \in Nat /\ [ip |-> NodeIP(f.from), pid |-> p] \in Duty(me).due
    <3>1. s \in Typed(me, {})
      BY <1>1 DEF Good
    <3> QED BY <1>13, <3>1, NativeForMeType, FrameFields, NodeIPType DEF Owes, p
  <2>5. Healthy(me, {p}, a)
    BY <1>6, <2>4, AddAckSound
  <2>6. w \in Typed(me, {p})
    <3> HIDE DEF a
    <3> QED BY <2>5, ForwardUpGood DEF Healthy, Good
  <2> HIDE DEF v, w
  <2> QED BY <1>11, <1>13, <2>1, <2>3, <2>6
<1>14. ASSUME ~Coded(f), Running(v) PROVE p \in v.pool
  <2> DEFINE w == ForwardUp(u, d, f, sends)
  <2>1. v = Hold(w, p, mac) \/ v = Abort(u, "PlainHash")
    BY <1>5, <1>14 DEF RecvPlain, p
  <2>2. u \in IState(me)
    BY <1>2 DEF Good, Typed
  <2>3. ~Running(Abort(u, "PlainHash"))
    BY <2>2 DEF Abort, Running, IState
  <2>4. w \in Typed(me, {})
    BY <1>6, ForwardUpGood DEF Healthy, Good
  <2> HIDE DEF v, w
  <2> QED BY <1>11, <1>14, <2>1, <2>3, <2>4
<1> HIDE DEF v
<1> QED BY <1>3, <1>10, <1>12, <1>13, <1>14 DEF p

\* A hello brings no packet.
LEMMA HelloPools ==
  ASSUME NEW me \in Node, NEW s, Healthy(me, {}, s), Running(s), NEW from \in Node
  PROVE  TrySend(NeighborLearn(s, RadiosOf[from])).pool = s.pool
<1> DEFINE u == NeighborLearn(s, RadiosOf[from])
           W == Waiting(s.queue)
<1>1. s \in Typed(me, {}) /\ s.nbrs \in Seq(Neighbor) /\ Linked(s.nbrs, W)
  BY Fields DEF Healthy, Good, Tied
<1>2. PICK n \in Seq(Neighbor) : u = [s EXCEPT !.nbrs = n] /\ Linked(n, W)
  <2> HIDE DEF W
  <2> QED BY <1>1, NeighborLearnTaught
<1> HIDE DEF u
<1>3. u \in Good(me, {})
  BY <1>2, UpdateGood DEF Healthy
<1>4. /\ u.nbrs = n /\ u.macq = s.macq /\ u.pool = s.pool /\ u.info = s.info
      /\ u.queue = s.queue /\ u.rtqueue = s.rtqueue /\ u.timer = s.timer /\ u.abort = s.abort
      /\ u.acks = s.acks
  BY <1>1, <1>2 DEF Typed, IState
<1>5. Tied(u) /\ Stays(me, Duty(me), s, u)
  BY <1>2, <1>4, FewerStays DEF Tied, Healthy
<1>6. Stays(me, Duty(me), u, TrySend(u))
  BY <1>3, <1>5, TrySendStays DEF Stays, Healthy
<1> QED BY <1>4, <1>6 DEF Stays, u

\* The next hop holds what it is brought; it holds nothing new when it is
\* brought nothing, and a coded frame brings it something new.
LEMMA HearsPools ==
  ASSUME WellConfigured, TwoHops, NInv, Simulating, NEW n \in Node, NEW d \in Devices(n),
         NEW f \in Range(cope[n].macq[d]), NEW m \in Node, m # n, Ear(m, n, d) # 0,
         AmINext(cope[m], f)
  PROVE  /\ ~Brings(cope[m], Ear(m, n, d), f) => Hears(m, n, d, f).pool = cope[m].pool
         /\ Brings(cope[m], Ear(m, n, d), f) =>
              /\ Running(Hears(m, n, d, f)) => NativeForMe(cope[m], f) \in Hears(m, n, d, f).pool
              /\ Coded(f) => NativeForMe(cope[m], f) \notin cope[m].pool
<1> DEFINE s == cope[m]
           K == cope[n].pool
           e == Ear(m, n, d)
           sends == IPReaction(s, f)
           r == Hears(m, n, d, f)
<1>1. Heard(m, s, e, f, K, sends)
  BY HearsFrame
<1>2. r = Recv(s, e, f, sends)
  BY DEF Hears
<1>3. AmINext(s, f)
  OBVIOUS
<1> HIDE DEF s, K, e, sends, r
<1>4. s.me = m
  BY <1>1, Fields DEF Heard
<1>5. r = IF f.hello THEN TrySend(NeighborLearn(s, RadiosOf[f.from]))
          ELSE IF ForOtherRadio(s, e, f) THEN s
          ELSE RecvData(s, e, f, sends)
  BY <1>1, <1>2, <1>4 DEF Recv, Heard
<1>6. CASE f.hello
  <2>1. r.pool = s.pool
    BY <1>1, <1>5, <1>6, HelloPools, FrameFields DEF Heard
  <2> QED BY <1>6, <2>1 DEF Brings, s, r, e
<1>7. CASE ~f.hello /\ ForOtherRadio(s, e, f)
  <2>1. r = s /\ ~Brings(s, e, f)
    BY <1>5, <1>7 DEF Brings
  <2> QED BY <2>1 DEF s, r, e
<1>8. CASE ~f.hello /\ ~ForOtherRadio(s, e, f)
  <2>1. r = RecvData(s, e, f, sends)
    BY <1>5, <1>8
  <2>2. Brings(s, e, f) <=> (Coded(f) => Cardinality(Missing(s, f)) = 1)
    BY <1>3, <1>8 DEF Brings
  <2>3. IF Coded(f) /\ Cardinality(Missing(s, f)) # 1
        THEN RecvData(s, e, f, sends).pool = s.pool
        ELSE Running(RecvData(s, e, f, sends)) =>
               NativeForMe(s, f) \in RecvData(s, e, f, sends).pool
    BY <1>1, <1>3, <1>8, RecvDataPools DEF Heard
  <2>4. Coded(f) /\ Cardinality(Missing(s, f)) = 1 => NativeForMe(s, f) \in Missing(s, f)
    BY <1>1, <1>3, ReadableCoded DEF Heard
  <2>5. Coded(f) /\ Cardinality(Missing(s, f)) = 1 => NativeForMe(s, f) \notin s.pool
    BY <2>4 DEF Missing
  <2>6. /\ ~Brings(s, e, f) => r.pool = s.pool
        /\ Brings(s, e, f) =>
             /\ Running(r) => NativeForMe(s, f) \in r.pool
             /\ Coded(f) => NativeForMe(s, f) \notin s.pool
    BY <2>1, <2>2, <2>3, <2>5
  <2> QED BY <2>6 DEF s, r, e
<1> QED BY <1>6, <1>7, <1>8

-------------------------------------------------------------------------------
(* How often a packet is sent uncoded                                      *)

\* What a node may still send uncoded of a packet: the packet in its queue,
\* the one in the retransmission queue, and the frames on their way.
Weight(v) ==
  (IF v.wait = {} THEN 0 ELSE 1) + (IF v.again = {} THEN 0 ELSE 1) + v.plain

\* What a node has of a packet.
LEMMA LivesLife ==
  ASSUME NEW n \in Node, NEW s, Lives(n, s), NEW pid, NEW k \in Nat
  PROVE  LifeOf(n, pid, s, k) \in Life
<1>1. s \in Typed(n, {}) /\ s.queue \in Seq(Entry) /\ s.rtqueue \in Seq(RtEntry)
  BY Fields DEF Lives, Good
<1>2. Range(s.queue) \union {} \subseteq Entry /\ Range(s.rtqueue) \subseteq Entry
  BY <1>1 DEF Range, RtEntry
<1>3. 0..MaxRetry \subseteq Nat
  OBVIOUS
<1>4. /\ Waits(Range(s.queue) \union {}, pid) \in SUBSET Nat
      /\ Retries(Range(s.rtqueue), pid) \in SUBSET Nat
  BY <1>2, <1>3, RetriesType
<1>5. /\ Cardinality(Spots(n, s, PlainOf(pid))) \in Nat
      /\ Cardinality(Spots(n, s, CodedOf(pid))) \in Nat
  BY <1>1, SpotsFinite
<1> QED BY <1>4, <1>5 DEF LifeOf, LifeIn, Life

\* Whatever a node does to a packet, what it may still send grows only with
\* what IP asks for.
LEMMA WeightCloses ==
  ASSUME NEW b \in Nat, NEW c \in Nat
  PROVE  Closed(TRUE, {v \in Life : Weight(v) + b <= v.asked + c})
<1> DEFINE Z == {v \in Life : Weight(v) + b <= v.asked + c}
<1>1. ASSUME NEW v \in Z
      PROVE  /\ v.wait \in SUBSET Nat /\ v.again \in SUBSET Nat
             /\ v.plain \in Nat /\ v.coded \in Nat /\ v.asked \in Nat
             /\ (IF v.wait = {} THEN 0 ELSE 1) + (IF v.again = {} THEN 0 ELSE 1) + v.plain + b
                  <= v.asked + c
  BY DEF Life, Weight
<1>2. ASSUME NEW W \in SUBSET Nat, NEW A \in SUBSET Nat,
             NEW p \in Nat, NEW q \in Nat, NEW k \in Nat,
             (IF W = {} THEN 0 ELSE 1) + (IF A = {} THEN 0 ELSE 1) + p + b <= k + c
      PROVE  [wait |-> W, again |-> A, plain |-> p, coded |-> q, asked |-> k] \in Z
  BY <1>2 DEF Life, Weight
<1> HIDE DEF Z
<1>3. ASSUME NEW v \in Z, v.wait # {} PROVE SentAlone(v) \in Z /\ SentCoded(v) \in Z
  <2>1. SentAlone(v) \in Z
    <3> DEFINE q == v.plain + 1
    <3>1. (IF {} = {} THEN 0 ELSE 1) + (IF v.again = {} THEN 0 ELSE 1) + q + b <= v.asked + c
      BY <1>1, <1>3
    <3>2. q \in Nat /\ v.again \in SUBSET Nat /\ v.coded \in Nat /\ v.asked \in Nat
      BY <1>1
    <3>3. SentAlone(v) = [wait |-> {}, again |-> v.again, plain |-> q, coded |-> v.coded,
                          asked |-> v.asked]
      BY DEF SentAlone
    <3> HIDE DEF q
    <3>4. [wait |-> {}, again |-> v.again, plain |-> q, coded |-> v.coded, asked |-> v.asked] \in Z
      BY <1>2, <3>1, <3>2
    <3> QED BY <3>3, <3>4
  <2>2. SentCoded(v) \in Z
    <3> DEFINE A == IF v.again = {} THEN v.wait \ {MaxRetry} ELSE v.again
    <3>1. A \in SUBSET Nat
      BY <1>1
    <3>2. (IF {} = {} THEN 0 ELSE 1) + (IF A = {} THEN 0 ELSE 1) + v.plain + b <= v.asked + c
      <4>1. (IF A = {} THEN 0 ELSE 1) \in {0, 1}
        OBVIOUS
      <4>2. (IF A = {} THEN 0 ELSE 1) <= (IF v.again = {} THEN 0 ELSE 1) + 1
        OBVIOUS
      <4> HIDE DEF A
      <4> QED BY <1>1, <1>3, <4>1, <4>2
    <3>3. SentCoded(v) = [wait |-> {}, again |-> A, plain |-> v.plain, coded |-> v.coded + 1,
                          asked |-> v.asked]
      BY DEF SentCoded
    <3> HIDE DEF A
    <3>4. v.plain \in Nat /\ v.coded + 1 \in Nat /\ v.asked \in Nat /\ {} \in SUBSET Nat
      BY <1>1
    <3> DEFINE q == v.coded + 1
    <3>5. q \in Nat
      BY <3>4
    <3> HIDE DEF q
    <3>6. [wait |-> {}, again |-> A, plain |-> v.plain, coded |-> q, asked |-> v.asked] \in Z
      BY <1>2, <3>1, <3>2, <3>4, <3>5
    <3> QED BY <3>3, <3>6 DEF q
  <2> QED BY <2>1, <2>2
<1>4. ASSUME NEW v \in Z, NEW x \in v.again PROVE SentAgain(v, x) \in Z
  <2> DEFINE W == IF v.wait = {} THEN {x + 1} ELSE v.wait
  <2>1. W \in SUBSET Nat /\ W # {}
    BY <1>1
  <2>2. SentAgain(v, x) = [wait |-> W, again |-> {}, plain |-> v.plain, coded |-> v.coded,
                           asked |-> v.asked]
    BY DEF SentAgain
  <2>3. v.again # {}
    BY <1>4
  <2> HIDE DEF W
  <2>4. (IF W = {} THEN 0 ELSE 1) + (IF {} = {} THEN 0 ELSE 1) + v.plain + b <= v.asked + c
    BY <1>1, <2>1, <2>3
  <2>5. v.plain \in Nat /\ v.coded \in Nat /\ v.asked \in Nat /\ {} \in SUBSET Nat
    BY <1>1
  <2>6. [wait |-> W, again |-> {}, plain |-> v.plain, coded |-> v.coded, asked |-> v.asked] \in Z
    BY <1>2, <2>1, <2>4, <2>5
  <2> QED BY <2>2, <2>6
<1>5. ASSUME NEW v \in Z PROVE AskedFor(v) \in Z
  <2> DEFINE W == IF v.wait = {} THEN {0} ELSE v.wait
             k == v.asked + 1
  <2>1. W \in SUBSET Nat /\ W # {}
    BY <1>1
  <2>2. AskedFor(v) = [wait |-> W, again |-> v.again, plain |-> v.plain, coded |-> v.coded,
                       asked |-> k]
    BY DEF AskedFor
  <2> HIDE DEF W
  <2>3. (IF W = {} THEN 0 ELSE 1) + (IF v.again = {} THEN 0 ELSE 1) + v.plain + b <= k + c
    BY <1>1, <2>1
  <2>4. v.again \in SUBSET Nat /\ v.plain \in Nat /\ v.coded \in Nat /\ k \in Nat
    BY <1>1
  <2> HIDE DEF k
  <2>5. [wait |-> W, again |-> v.again, plain |-> v.plain, coded |-> v.coded, asked |-> k] \in Z
    BY <1>2, <2>1, <2>3, <2>4
  <2> QED BY <2>2, <2>5
<1>6. ASSUME NEW v \in Z PROVE GivenUp(v) \in Z /\ Thanks(v) \in Z
  <2>1. /\ v.wait \in SUBSET Nat /\ v.again \in SUBSET Nat /\ v.plain \in Nat
        /\ v.coded \in Nat /\ v.asked \in Nat /\ {} \in SUBSET Nat
    BY <1>1
  <2>2. (IF {} = {} THEN 0 ELSE 1) + (IF v.again = {} THEN 0 ELSE 1) + v.plain + b <= v.asked + c
    BY <1>1
  <2>3. (IF v.wait = {} THEN 0 ELSE 1) + (IF {} = {} THEN 0 ELSE 1) + v.plain + b <= v.asked + c
    BY <1>1
  <2>4. GivenUp(v) \in Z
    BY <1>2, <2>1, <2>2 DEF GivenUp
  <2>5. Thanks(v) \in Z
    BY <1>2, <2>1, <2>3 DEF Thanks
  <2> QED BY <2>4, <2>5
<1>7. Closed(TRUE, Z)
  BY <1>3, <1>4, <1>5, <1>6 DEF Closed
<1> QED BY <1>7 DEF Z

\* What node n in state s may still send of pid uncoded.
Burden(n, pid, s) == IF Running(s) THEN Weight(LifeOf(n, pid, s, 0)) ELSE 0

\* It is a number.
LEMMA BurdenType ==
  ASSUME NEW n \in Node, NEW s, Lives(n, s), NEW pid
  PROVE  Burden(n, pid, s) \in Nat /\ Weight(LifeOf(n, pid, s, 0)) \in Nat
<1>1. LifeOf(n, pid, s, 0) \in Life
  BY LivesLife
<1>2. Weight(LifeOf(n, pid, s, 0)) \in Nat
  BY <1>1 DEF Weight, Life
<1> QED BY <1>2 DEF Burden

\* It grows only with what IP asks for.
LEMMA TurnsWeigh ==
  ASSUME NEW n \in Node, NEW s, Lives(n, s), NEW r, Lives(n, r), NEW pid, NEW a \in Nat,
         Turns(n, pid, TRUE, a, s, r),
         NEW b \in Nat, NEW c \in Nat, NEW k \in Nat, Burden(n, pid, s) + b <= k + c
  PROVE  Burden(n, pid, r) + b <= (k + a) + c
<1>1. CASE ~Running(r)
  <2>1. Burden(n, pid, r) = 0 /\ Burden(n, pid, s) \in Nat
    BY <1>1, BurdenType DEF Burden
  <2> QED BY <2>1
<1>2. CASE Running(r)
  <2> DEFINE Z == {v \in Life : Weight(v) + b <= v.asked + c}
             v == LifeOf(n, pid, s, k)
             w == LifeOf(n, pid, r, k + a)
  <2>1. Running(s) /\ Reaches(TRUE, v, w)
    BY <1>2 DEF Turns
  <2>2. Closed(TRUE, Z)
    BY WeightCloses
  <2>3. v \in Life /\ v.asked = k /\ Weight(v) = Weight(LifeOf(n, pid, s, 0))
    <3>1. v \in Life
      BY LivesLife
    <3> QED BY <3>1 DEF LifeOf, LifeIn, Weight
  <2>4. w.asked = k + a /\ Weight(w) = Weight(LifeOf(n, pid, r, 0))
    BY DEF LifeOf, LifeIn, Weight
  <2>5. v \in Z
    <3> HIDE DEF v
    <3> QED BY <2>1, <2>3 DEF Burden
  <2> HIDE DEF Z, v, w
  <2>6. w \in Z
    BY <2>1, <2>2, <2>5 DEF Reaches
  <2>7. Weight(w) + b <= w.asked + c
    BY <2>6 DEF Z
  <2> QED BY <1>2, <2>4, <2>7 DEF Burden
<1> QED BY <1>1, <1>2

-------------------------------------------------------------------------------
(* How often the next hop gives a packet to IP                             *)

Single(n) == \A a, b \in Hops(n) : a = b

\* A node with one next hop sends no coded frame.
LEMMA SingleSendsPlain ==
  ASSUME NEW n \in Node, Single(n), NEW d, NEW K, NEW f, Genuine(n, d, Duty(n), K, f)
  PROVE  ~Coded(f)
<1>1. ASSUME NEW x \in f.natives PROVE x.mac \in Hops(n)
  <2>1. <<x.mac, x.pid>> \in Duty(n).legs
    BY DEF Genuine
  <2>2. x.pid \in Pid /\ Forwards(n, x.pid) /\ Route[n][x.pid].dest = x.mac
    BY <2>1, LegsLead, Zenon
  <2> QED BY <2>2 DEF Hops
<1>2. \A x, y \in f.natives : x = y
  BY <1>1 DEF Single, Genuine, Directed
<1> QED BY <1>2 DEF Coded

\* IP is given a packet by the next hop of who sent it.
LEMMA LiftsLead ==
  ASSUME WellConfigured, TwoHops, NInv, NEW k \in Node, NEW d \in Devices(k), NEW hearers,
         NEW f, Flies(k, d, hearers, f), NEW m \in hearers, NEW pid, Lifts(m, k, d, f, pid)
  PROVE  Leads(k, m, pid) /\ pid \in Contents(f) /\ AmINext(cope[m], f) /\ m # k
<1>1. /\ f \in Range(cope[k].macq[d]) /\ Running(cope[k]) /\ m \in Node /\ m # k
      /\ Lives(k, cope[k]) /\ Lives(m, cope[m]) /\ f \in Frame /\ Spoken(cope[k].pool, f)
  BY DEF Flies, Simulating, NInv
<1>2. AmINext(cope[m], f) /\ NativeForMe(cope[m], f) = pid
  BY DEF Lifts, Brings
<1>3. Leads(k, m, pid)
  BY <1>1, <1>2, OwesNextHop
<1>4. cope[m] \in Typed(m, {})
  BY <1>1 DEF Lives, Good
<1>5. pid \in Contents(f)
  BY <1>1, <1>2, <1>4, HeardIsSpoken, Zenon
<1> QED BY <1>1, <1>2, <1>3, <1>5

\* Nothing happens any more once an assertion has failed.
LEMMA NextRuns ==
  ASSUME [Next]_vars
  PROVE  Simulating \/ (UNCHANGED <<cope, todo, missed, given, bypassed>>)
<1>1. CASE Next
  <2>1. ASSUME NEW x \in todo, Originate(x) PROVE Simulating
    BY <2>1 DEF Originate
  <2>2. ASSUME NEW n, NEW ids, HelloTimerExpire(n, ids) PROVE Simulating
    BY <2>2 DEF HelloTimerExpire
  <2>3. ASSUME NEW n \in Node, Try(n) \/ TimerDue(n) \/ TimerExpire(n) PROVE Simulating
    BY <2>3 DEF Try, TimerDue, TimerExpire
  <2>4. ASSUME NEW n \in Node, NEW d \in Devices(n), NEW hearers \in SUBSET Listeners(n, d),
               MacSend(n, d, hearers)
        PROVE  Simulating
    BY <2>4 DEF MacSend
  <2> QED BY <1>1, <2>1, <2>2, <2>3, <2>4 DEF Next
<1>2. CASE UNCHANGED vars
  BY <1>2 DEF vars
<1> QED BY <1>1, <1>2

\* What the medium does not do, it does not count.
LEMMA OwnStepUnheard ==
  ASSUME [Next]_vars, \A k \in Node : ~Airs(k)
  PROVE  UNCHANGED <<missed, given, bypassed>>
BY DEF Next, Airs, Originate, HelloTimerExpire, Try, TimerDue, TimerExpire, Unheard, vars

\* One coded frame in excess of what was asked for brings the next hop, in
\* state s, a packet: the one that brings it the packet it does not hold.
Spare(n, pid, s) == IF Single(n) \/ (Running(s) /\ pid \notin s.pool) THEN 0 ELSE 1

\* What was given to IP and what may still be sent uncoded was asked for.
GInv ==
  /\ Counted
  /\ \A m \in Node, pid \in Pid : given[m][pid] > 0 => \E n \in Node : Leads(n, m, pid)
  /\ \A n, m \in Node, pid \in Pid :
       Leads(n, m, pid) =>
         Burden(n, pid, cope[n]) + given[m][pid] <= Asks(n, pid) + Spare(n, pid, cope[m])

\* A packet is nowhere in a node that is new.
LEMMA FreshLife ==
  ASSUME Init, NEW n \in Node, NEW pid, NEW k
  PROVE  LifeOf(n, pid, cope[n], k) =
           [wait |-> {}, again |-> {}, plain |-> 0, coded |-> 0, asked |-> k]
<1>1. /\ cope[n].queue = <<>> /\ cope[n].rtqueue = <<>>
      /\ \A d \in Devices(n) : cope[n].macq[d] = <<>>
  BY DEF Init, Init0
<1>2. Range(<<>>) = {} /\ Len(<<>>) = 0
  BY DEF Range
<1>3. ASSUME NEW C PROVE Cardinality(Spots(n, cope[n], C)) = 0
  <2>1. Spots(n, cope[n], C) = {}
    <3> SUFFICES ASSUME NEW p \in Spots(n, cope[n], C) PROVE FALSE
      OBVIOUS
    <3>1. p[1] \in Devices(n) /\ p[2] \in Nat /\ p[2] # 0 /\ p[2] <= Len(cope[n].macq[p[1]])
      BY DEF Spots
    <3> QED BY <1>1, <1>2, <3>1
  <2> QED BY <2>1, FS_EmptySet
<1>4. Waits(Range(cope[n].queue) \union {}, pid) = {} /\ Retries(Range(cope[n].rtqueue), pid) = {}
  BY <1>1, <1>2 DEF Retries, Waits, Data
<1> QED BY <1>3, <1>4 DEF LifeOf, LifeIn

\* Nothing is given and nothing is waiting at first.
LEMMA GInit == Init /\ NInv => GInv
<1> SUFFICES ASSUME Init, NInv PROVE GInv
  OBVIOUS
<1>1. /\ \A m \in Node, pid \in Pid : given[m][pid] = 0
      /\ given = [n \in Node |-> [pid \in Pid |-> 0]]
      /\ cope = [n \in Node |-> Init0(n)]
  BY DEF Init
<1>2. Counted
  BY <1>1 DEF Counted
<1>3. ASSUME NEW n \in Node, NEW m \in Node, NEW pid \in Pid
      PROVE  Burden(n, pid, cope[n]) + given[m][pid] <= Asks(n, pid) + Spare(n, pid, cope[m])
  <2> DEFINE v == LifeOf(n, pid, cope[n], 0)
  <2>1. v.wait = {} /\ v.again = {} /\ v.plain = 0
    <3>1. v = [wait |-> {}, again |-> {}, plain |-> 0, coded |-> 0, asked |-> 0]
      BY FreshLife
    <3> QED BY <3>1
  <2> HIDE DEF v
  <2>2. Burden(n, pid, cope[n]) = 0
    BY <2>1 DEF Burden, Weight, v
  <2>3. Asks(n, pid) \in Nat /\ Spare(n, pid, cope[m]) \in Nat
    BY <1>1 DEF Asks, Spare
  <2> QED BY <1>1, <2>2, <2>3
<1> QED BY <1>1, <1>2, <1>3 DEF GInv

\* The numbers of a step of the medium, for its sender: a frame that brings
\* a packet was waiting uncoded, or brings it once.
LEMMA SenderWeighs ==
  ASSUME WellConfigured, TwoHops, NInv, GInv, NEW n \in Node, NEW d \in Devices(n), NEW hearers,
         NEW f, f = Head(cope[n].macq[d]), Flies(n, d, hearers, f),
         NEW m \in Node, NEW pid \in Pid, Leads(n, m, pid), m # n,
         cope[m].pool \subseteq cope'[m].pool
  PROVE  Burden(n, pid, cope'[n]) + given'[m][pid] <= Asks(n, pid)' + Spare(n, pid, cope'[m])
<1> DEFINE s == cope[n]
           r == cope'[n]
           v == LifeOf(n, pid, s, 0)
           w == LifeOf(n, pid, r, 0)
           lifted == m \in hearers /\ Lifts(m, n, d, f, pid)
           plain == f \in PlainOf(pid)
<1>1. /\ Lives(n, s) /\ s.macq[d] # <<>> /\ r = [s EXCEPT !.macq[d] = Tail(@)]
      /\ Running(s) /\ Running(cope[m]) /\ f \in Frame /\ todo' = todo
      /\ n \notin hearers /\ f \in Range(cope[n].macq[d]) /\ Simulating
      /\ \A k \in hearers : Ear(k, n, d) # 0 /\ cope'[k] = Hears(k, n, d, f)
  BY DEF Flies, NInv, Simulating
<1>2. /\ given'[n][pid] = given[n][pid] + 0
      /\ given'[m][pid] = given[m][pid] + (IF lifted THEN 1 ELSE 0)
  <2>1. \A k \in Node, p \in Pid :
          given'[k][p] = given[k][p] + (IF k \in hearers /\ Lifts(k, n, d, f, p) THEN 1 ELSE 0)
    BY DEF Flies
  <2> QED BY <1>1, <2>1
<1>3. Lives(n, r) /\ Running(r) /\ Departs(v, w, pid, f)
  <2> HIDE DEF s, r
  <2> QED BY <1>1, SentDeparts DEF s
<1>4. /\ v.plain \in Nat /\ w.plain \in Nat /\ given[m][pid] \in Nat /\ given[n][pid] \in Nat
      /\ v.plain = w.plain + (IF plain THEN 1 ELSE 0) /\ Weight(v) \in Nat /\ Weight(w) \in Nat
      /\ Weight(v) = Weight(w) + (IF plain THEN 1 ELSE 0)
  <2>1. v \in Life /\ w \in Life
    <3> HIDE DEF s, r
    <3> QED BY <1>1, <1>3, LivesLife
  <2> HIDE DEF v, w
  <2>2. Weight(v) = Weight(w) + (IF plain THEN 1 ELSE 0) /\ Weight(v) \in Nat /\ Weight(w) \in Nat
    BY <1>3, <2>1 DEF Departs, Weight, Life
  <2> QED BY <1>3, <2>1, <2>2 DEF GInv, Counted, Departs, Life
<1>5. Asks(n, pid)' = Asks(n, pid) /\ Asks(n, pid) \in Nat
  BY <1>1, <1>2, <1>4 DEF Asks
<1>6. Burden(n, pid, s) + given[m][pid] <= Asks(n, pid) + Spare(n, pid, cope[m])
  BY DEF GInv
<1>7. Burden(n, pid, s) = Burden(n, pid, r) + (IF plain THEN 1 ELSE 0) /\ Burden(n, pid, r) \in Nat
  <2> HIDE DEF plain
  <2> QED BY <1>1, <1>3, <1>4 DEF Burden
<1>8. Spare(n, pid, cope[m]) \in {0, 1} /\ Spare(n, pid, cope'[m]) \in {0, 1}
      /\ Spare(n, pid, cope[m]) <= Spare(n, pid, cope'[m])
  BY <1>1 DEF Spare
<1>9. lifted => plain \/ (Spare(n, pid, cope[m]) = 0 /\ Spare(n, pid, cope'[m]) = 1)
  <2> SUFFICES ASSUME lifted, ~plain
               PROVE  Spare(n, pid, cope[m]) = 0 /\ Spare(n, pid, cope'[m]) = 1
    OBVIOUS
  <2>1. AmINext(cope[m], f) /\ pid \in Contents(f)
    BY LiftsLead
  <2>2. Coded(f)
    BY <1>1, <2>1 DEF PlainOf
  <2>3. ~Single(n)
    BY <2>2, SingleSendsPlain DEF Flies
  <2>4. Brings(cope[m], Ear(m, n, d), f) /\ NativeForMe(cope[m], f) = pid
    BY DEF Lifts
  <2>5. /\ Running(Hears(m, n, d, f)) => pid \in Hears(m, n, d, f).pool
        /\ pid \notin cope[m].pool
    BY <1>1, <2>1, <2>2, <2>4, HearsPools
  <2> QED BY <1>1, <2>3, <2>5 DEF Spare
<1> HIDE DEF s, r, v, w, lifted, plain
<1> DEFINE x == Burden(n, pid, r)
           y == given[m][pid]
           z == Asks(n, pid)
           u == Spare(n, pid, cope[m])
           t == Spare(n, pid, cope'[m])
<1>10. /\ x \in Nat /\ y \in Nat /\ z \in Nat /\ u \in {0, 1} /\ t \in {0, 1} /\ u <= t
       /\ x + (IF plain THEN 1 ELSE 0) + y <= z + u
       /\ lifted => plain \/ (u = 0 /\ t = 1)
  BY <1>4, <1>5, <1>6, <1>7, <1>8, <1>9
<1>11. Burden(n, pid, cope'[n]) = x /\ given'[m][pid] = y + (IF lifted THEN 1 ELSE 0)
       /\ Asks(n, pid)' = z /\ Spare(n, pid, cope'[m]) = t
  BY <1>2, <1>5 DEF r
<1> HIDE DEF x, y, z, u, t
<1>12. x + (y + (IF lifted THEN 1 ELSE 0)) <= z + t
  BY <1>10
<1> QED BY <1>11, <1>12

\* Who does not send only does what it is asked for.
LEMMA OthersWeigh ==
  ASSUME WellConfigured, Routed, NInv, NInv', GInv, NEW n \in Node,
         NEW m \in Node, NEW pid \in Pid, Leads(n, m, pid),
         NEW a \in {0, 1}, Asks(n, pid)' = Asks(n, pid) + a,
         Turns(n, pid, TRUE, a, cope[n], cope'[n]), given'[m][pid] = given[m][pid],
         Spare(n, pid, cope[m]) <= Spare(n, pid, cope'[m])
  PROVE  Burden(n, pid, cope'[n]) + given'[m][pid] <= Asks(n, pid)' + Spare(n, pid, cope'[m])
<1> DEFINE x == Burden(n, pid, cope'[n])
           y == given[m][pid]
           z == Asks(n, pid)
           u == Spare(n, pid, cope[m])
           t == Spare(n, pid, cope'[m])
<1>1. y \in Nat /\ z \in Nat /\ u \in {0, 1} /\ t \in {0, 1} /\ a \in Nat
  BY DEF GInv, Counted, Asks, Spare
<1>2. Lives(n, cope[n]) /\ Lives(n, cope'[n])
  BY DEF NInv
<1>3. Burden(n, pid, cope[n]) + y <= z + u
  BY DEF GInv
<1>4. x + y <= (z + a) + u
  <2> HIDE DEF y, z, u
  <2>1. u \in Nat
    BY <1>1
  <2>2. Burden(n, pid, cope'[n]) + y <= (z + a) + u
    BY <1>1, <1>2, <1>3, <2>1, TurnsWeigh
  <2> QED BY <2>2
<1>5. x \in Nat
  BY <1>2, BurdenType
<1>6. u <= t /\ Asks(n, pid)' = z + a /\ given'[m][pid] = y
  OBVIOUS
<1> HIDE DEF x, y, z, u, t
<1>7. x + y <= (z + a) + t
  BY <1>1, <1>4, <1>5, <1>6
<1> QED BY <1>6, <1>7 DEF x, t

\* Every step keeps the count.
LEMMA GNext ==
  ASSUME WellConfigured, TwoHops, Routed, OnePath, NInv, GInv, [Next]_vars
  PROVE  GInv'
<1>1. NInv' /\ Counted
  BY NextNet DEF GInv
<1>2. \A k \in Node : cope[k].pool \subseteq cope'[k].pool
  BY NextLearns
<1>3. ASSUME NEW n \in Node, NEW m \in Node, NEW pid \in Pid
      PROVE  Spare(n, pid, cope[m]) <= Spare(n, pid, cope'[m])
  <2>1. CASE Simulating
    <3>1. Running(cope[m])
      BY <2>1 DEF Simulating
    <3> QED BY <1>2, <3>1 DEF Spare
  <2>2. CASE UNCHANGED <<cope, todo, missed, given, bypassed>>
    BY <2>2 DEF Spare
  <2> QED BY <2>1, <2>2, NextRuns
<1>4. ASSUME NEW k \in Node, NEW d \in Devices(k), NEW hearers \in SUBSET Listeners(k, d),
             MacSend(k, d, hearers)
      PROVE  GInv'
  <2> DEFINE f == Head(cope[k].macq[d])
  <2>1. Flies(k, d, hearers, f)
    BY <1>1, <1>4, MacSendFlies
  <2>2. f = Head(cope[k].macq[d])
    OBVIOUS
  <2> HIDE DEF f
  <2>3. ASSUME NEW m \in Node, NEW pid \in Pid
        PROVE  \/ given'[m][pid] = given[m][pid]
               \/ Leads(k, m, pid)
    <3>1. given[m][pid] \in Nat
      BY <1>1 DEF Counted
    <3>2. given'[m][pid] =
            given[m][pid] + (IF m \in hearers /\ Lifts(m, k, d, f, pid) THEN 1 ELSE 0)
      BY <2>1 DEF Flies
    <3>3. CASE m \in hearers /\ Lifts(m, k, d, f, pid)
      BY <2>1, <3>3, LiftsLead
    <3>4. CASE ~(m \in hearers /\ Lifts(m, k, d, f, pid))
      BY <3>1, <3>2, <3>4
    <3> QED BY <3>3, <3>4
  <2>4. ASSUME NEW m \in Node, NEW pid \in Pid, given'[m][pid] > 0
        PROVE  \E n \in Node : Leads(n, m, pid)
    BY <2>3, <2>4 DEF GInv
  <2>5. ASSUME NEW n \in Node, NEW m \in Node, NEW pid \in Pid, Leads(n, m, pid)
        PROVE  Burden(n, pid, cope'[n]) + given'[m][pid] <= Asks(n, pid)' + Spare(n, pid, cope'[m])
    <3>1. m # n /\ Forwards(n, pid)
      BY <2>5, LeadsAway
    <3>2. CASE n = k
      <4>1. Flies(n, d, hearers, f) /\ f = Head(cope[n].macq[d]) /\ d \in Devices(n)
        BY <2>1, <2>2, <3>2
      <4> QED BY <1>2, <2>5, <3>1, <4>1, SenderWeighs
    <3>3. CASE n # k
      <4>1. given'[m][pid] = given[m][pid]
        BY <2>3, <2>5, <3>3 DEF OnePath
      <4>2. Bound(TRUE, n, pid, cope'[n])
        BY DEF Bound
      <4>3. PICK a \in {0, 1} : /\ Asks(n, pid)' = Asks(n, pid) + a
                                /\ Turns(n, pid, TRUE, a, cope[n], cope'[n])
        BY <1>1, <1>4, <3>1, <3>3, <4>2, EarTurns
      <4> QED BY <1>1, <1>3, <2>5, <4>1, <4>3, OthersWeigh
    <3> QED BY <3>2, <3>3
  <2>6. Counted'
    BY <2>1 DEF Flies
  <2> QED BY <2>4, <2>5, <2>6 DEF GInv
<1>5. CASE \A k \in Node : ~Airs(k)
  <2>1. given' = given
    BY <1>5, OwnStepUnheard
  <2>2. ASSUME NEW n \in Node, NEW m \in Node, NEW pid \in Pid, Leads(n, m, pid)
        PROVE  Burden(n, pid, cope'[n]) + given'[m][pid] <= Asks(n, pid)' + Spare(n, pid, cope'[m])
    <3>1. Forwards(n, pid)
      BY <2>2, LeadsAway
    <3>2. Bound(TRUE, n, pid, cope'[n])
      BY DEF Bound
    <3>3. PICK a \in {0, 1} : /\ Asks(n, pid)' = Asks(n, pid) + a
                              /\ Turns(n, pid, TRUE, a, cope[n], cope'[n])
      BY <1>1, <1>5, <3>1, <3>2, OwnStepTurns
    <3> QED BY <1>1, <1>3, <2>1, <2>2, <3>3, OthersWeigh
  <2> QED BY <2>1, <2>2 DEF GInv, Counted
<1> QED BY <1>4, <1>5 DEF Airs

\* In a network in which a packet comes to a node from one other node, the
\* numbers are kept.
LEMMA Counting ==
  ASSUME WellConfigured, TwoHops, Routed, OnePath
  PROVE  Spec => []GInv
<1>1. GInv /\ NInv /\ [Next]_vars => GInv'
  BY GNext
<1> QED BY <1>1, GInit, NetInit, NetworkInvariance, PTL DEF Spec

\* What the next hop gave to IP, in numbers.
LEMMA GivenBound ==
  ASSUME NInv, GInv, NEW n \in Node, NEW m \in Node, NEW pid \in Pid, Leads(n, m, pid)
  PROVE  /\ given[m][pid] \in Nat /\ given[n][pid] \in Nat /\ Asks(n, pid) \in Nat
         /\ given[m][pid] <= Asks(n, pid) + 1
         /\ Single(n) => given[m][pid] <= Asks(n, pid)
<1> DEFINE x == Burden(n, pid, cope[n])
           y == given[m][pid]
           z == Asks(n, pid)
           u == Spare(n, pid, cope[m])
<1>1. y \in Nat /\ z \in Nat /\ given[n][pid] \in Nat /\ u \in {0, 1} /\ (Single(n) => u = 0)
  BY DEF GInv, Counted, Asks, Spare
<1>2. x \in Nat
  BY BurdenType DEF NInv
<1>3. x + y <= z + u
  BY DEF GInv
<1> HIDE DEF x, y, z, u
<1>4. y <= z + 1 /\ (Single(n) => y <= z)
  BY <1>1, <1>2, <1>3
<1> QED BY <1>1, <1>4 DEF y, z

\* Retransmit and DoSend, RecvData: however often a packet is retried and
\* however many frames are lost or overheard, the next hop gives IP at most
\* one packet more than IP of the sender has asked for.
THEOREM GivenPerAsk ==
  ASSUME WellConfigured, TwoHops, Routed, OnePath
  PROVE  Spec => []AtMostOnceMore
<1>1. NInv /\ GInv => AtMostOnceMore
  BY GivenBound, NextNodeLeads DEF AtMostOnceMore
<1> QED BY <1>1, Counting, NetworkInvariance, PTL

\* On paths on which one node codes, no packet is given to IP three times.
THEOREM GivenTwice ==
  ASSUME WellConfigured, TwoHops, Routed, OnePath, CodedOnce
  PROVE  Spec => []GivenAtMostTwice
<1>1. NInv /\ GInv => GivenAtMostTwice
  <2> SUFFICES ASSUME NInv, GInv, NEW m \in Node, NEW pid \in Pid PROVE given[m][pid] <= 2
    BY DEF GivenAtMostTwice
  <2>1. given[m][pid] \in Nat
    BY DEF GInv, Counted
  <2>2. ASSUME NEW n \in Node, Leads(n, m, pid) PROVE given[m][pid] <= 2
    <3>1. /\ given[n][pid] \in Nat /\ Asks(n, pid) \in Nat
          /\ given[m][pid] <= Asks(n, pid) + 1
      BY <2>2, GivenBound
    <3>2. CASE given[n][pid] = 0
      <4>1. Asks(n, pid) <= 1
        BY <3>2 DEF Asks
      <4> QED BY <2>1, <3>1, <4>1
    <3>3. CASE given[n][pid] > 0
      <4>1. PICK k \in Node : Leads(k, n, pid)
        BY <3>3 DEF GInv
      <4>2. Forwards(n, pid)
        BY <2>2 DEF Leads
      <4>3. /\ [node |-> n, pid |-> pid] \notin Flow /\ Single(k)
            /\ \A j \in Node : ~Leads(j, k, pid)
        BY <4>1, <4>2 DEF CodedOnce, Single
      <4>4. /\ given[k][pid] \in Nat /\ Asks(k, pid) \in Nat /\ given[n][pid] <= Asks(k, pid)
        BY <4>1, <4>3, GivenBound
      <4>5. given[k][pid] = 0
        BY <4>3, <4>4 DEF GInv
      <4>6. Asks(k, pid) <= 1
        BY <4>5 DEF Asks
      <4>7. Asks(n, pid) = given[n][pid]
        BY <3>1, <4>3 DEF Asks
      <4> QED BY <2>1, <3>1, <4>4, <4>6, <4>7
    <3> QED BY <3>1, <3>2, <3>3
  <2> QED BY <2>1, <2>2 DEF GInv
<1> QED BY <1>1, Counting, NetworkInvariance, PTL

-------------------------------------------------------------------------------
(* Custody                                                                 *)

\* When all radios can hear each other a node has one, and it hears what its
\* neighbours send.
LEMMA OneRadio ==
  ASSUME WellConfigured, OneChannel, NEW n \in Node, NEW d \in Devices(n), NEW m \in Node
  PROVE  /\ \A e \in Devices(n) : e = d
         /\ Macs(n) = {RadiosOf[n][d].mac}
<1>1. \A e \in Devices(n) : RadiosOf[n][e].channel \in Channels
  BY DEF Channels
<1>2. \A e \in Devices(n) : e = d
  BY <1>1 DEF OneChannel, WellConfigured
<1>3. Macs(n) = {RadiosOf[n][d].mac}
  BY <1>2 DEF Macs, Devices
<1> QED BY <1>2, <1>3

\* A node has a radio on the channel everybody uses.
LEMMA EarOpen ==
  ASSUME OneChannel, NEW n \in Node, NEW d \in Devices(n), cope[n].me = n,
         NEW m \in Node, cope[m].me = m
  PROVE  Ear(m, n, d) # 0
<1> DEFINE q == RadiosOf[m]
           channel == Channel(cope[n], d)
           I == {i \in 1..Len(q) : q[i].channel = channel}
<1>1. q \in Seq(Trinity) /\ q # <<>>
  BY RadiosAssumption
<1>2. Ear(m, n, d) = IF I # {} THEN Min(I) ELSE 0
  BY DEF Ear, DeviceOn, SelectInSeq
<1>3. I \in SUBSET (1..Len(q)) /\ Len(q) \in Nat
  BY <1>1
<1>4. 1 \in Devices(m) /\ 1 \in 1..Len(q)
  BY <1>1 DEF Devices
<1>5. q[1].channel \in Channels /\ channel \in Channels
  BY <1>4 DEF Channels, Channel
<1>6. 1 \in I
  BY <1>4, <1>5 DEF OneChannel
<1> HIDE DEF I
<1>7. (IF I # {} THEN Min(I) ELSE 0) # 0 <=> I # {}
  BY <1>3, FirstPosition
<1> QED BY <1>2, <1>6, <1>7

\* The next hop has given the packet to IP, or IP does not see it.
Delivered(m, pid) == given[m][pid] > 0 \/ <<m, pid>> \in bypassed

\* Whom a frame for another radio brings a packet is noted.
LEMMA MacSendBypasses ==
  ASSUME NEW n \in Node, NEW d \in Devices(n), NEW hearers \in SUBSET Listeners(n, d),
         MacSend(n, d, hearers), NEW f, f = Head(cope[n].macq[d])
  PROVE  /\ bypassed \subseteq bypassed'
         /\ \A m \in hearers :
              Brings(cope[m], Ear(m, n, d), f) /\ ~AddressedTo(m, f)
                => <<m, NativeForMe(cope[m], f)>> \in bypassed'
<1> DEFINE brought == {m \in hearers : Brings(cope[m], Ear(m, n, d), f)}
<1>1. bypassed' = bypassed \union
        {<<m, NativeForMe(cope[m], f)>> : m \in {m \in brought : ~AddressedTo(m, f)}}
  BY DEF MacSend
<1>2. bypassed \subseteq bypassed'
  BY <1>1
<1>3. ASSUME NEW m \in hearers, Brings(cope[m], Ear(m, n, d), f), ~AddressedTo(m, f)
      PROVE  <<m, NativeForMe(cope[m], f)>> \in bypassed'
  <2>1. m \in {k \in brought : ~AddressedTo(k, f)}
    BY <1>3
  <2> QED BY <1>1, <2>1
<1> QED BY <1>2, <1>3

\* What a step of the medium delivers stays delivered.
LEMMA DeliveredStays ==
  ASSUME TwoHops, NInv, Counted, [Next]_vars, NEW m \in Node, NEW pid \in Pid, Delivered(m, pid)
  PROVE  Delivered(m, pid)'
<1>1. given[m][pid] \in Nat
  BY DEF Counted
<1>2. ASSUME NEW n \in Node, NEW d \in Devices(n), NEW hearers \in SUBSET Listeners(n, d),
             MacSend(n, d, hearers)
      PROVE  Delivered(m, pid)'
  <2> DEFINE f == Head(cope[n].macq[d])
  <2>1. Flies(n, d, hearers, f)
    BY <1>2, MacSendFlies
  <2>2. bypassed \subseteq bypassed'
    BY <1>2, MacSendBypasses
  <2> HIDE DEF f
  <2>3. given'[m][pid] = given[m][pid] \/ given'[m][pid] = given[m][pid] + 1
    BY <1>1, <2>1 DEF Flies
  <2> QED BY <1>1, <2>2, <2>3 DEF Delivered
<1>3. CASE \A n \in Node : ~Airs(n)
  BY <1>3, OwnStepUnheard DEF Delivered
<1> QED BY <1>2, <1>3 DEF Airs

\* A next hop that hears a frame with its packet has it then.
LEMMA FrameDelivers ==
  ASSUME WellConfigured, TwoHops, OneChannel, NInv, Counted,
         NEW n \in Node, NEW d \in Devices(n), NEW hearers \in SUBSET Listeners(n, d),
         MacSend(n, d, hearers), NEW m \in hearers, NEW pid \in Pid, Leads(n, m, pid),
         pid \in Contents(Head(cope[n].macq[d])), pid \notin cope[m].pool
  PROVE  Delivered(m, pid)'
<1> DEFINE f == Head(cope[n].macq[d])
           e == Ear(m, n, d)
           s == cope[m]
<1>1. Flies(n, d, hearers, f)
  BY MacSendFlies
<1>2. pid \in Contents(f) /\ f = Head(cope[n].macq[d])
  OBVIOUS
<1> HIDE DEF f
<1>3. /\ f \in Frame /\ Genuine(n, d, Duty(n), cope[n].pool, f) /\ Lives(n, cope[n])
      /\ Running(cope[n]) /\ f \in Range(cope[n].macq[d]) /\ m \in Node /\ e # 0 /\ Lives(m, s)
  BY <1>1 DEF Flies, Simulating, NInv
<1>4. s \in Typed(m, {}) /\ s.me = m /\ e \in Devices(m)
  <2>1. s \in Typed(m, {})
    BY <1>3 DEF Lives, Good
  <2> QED BY <1>3, <2>1, Fields, DeviceOnProperties DEF Ear
<1>5. Macs(m) = {RadiosOf[m][e].mac}
  BY <1>3, <1>4, OneRadio
<1>6. PICK x \in f.natives : x.pid = pid
  BY <1>2 DEF Contents
<1>7. x.mac \in Macs(m) /\ x.mac # Broadcast
  <2>1. Forwards(n, x.pid) /\ Route[n][x.pid].dest = x.mac /\ x.mac # Broadcast
    BY <1>3, SpeaksOfItself
  <2> QED BY <1>6, <2>1 DEF Leads
<1>8. AmINext(s, f)
  BY <1>4, <1>7 DEF AmINext
<1>9. Missing(s, f) = {pid}
  <2>1. \A y \in f.natives : y # x => y.pid \in s.pool
    BY <1>3, <1>7 DEF NInv, Decodable
  <2> QED BY <1>6, <2>1 DEF Missing
<1>10. Cardinality(Missing(s, f)) = 1
  BY <1>9, FS_Singleton
<1>11. Brings(s, e, f)
  <2>1. ~f.hello
    BY <1>3 DEF Genuine
  <2>2. ~ForOtherRadio(s, e, f)
    BY <1>4, <1>5, <1>7 DEF ForOtherRadio
  <2> QED BY <1>8, <1>10, <2>1, <2>2 DEF Brings
<1>12. NativeForMe(s, f) = pid
  <2>1. PICK z \in f.natives : z.mac \in Macs(m) /\ NativeForMe(s, f) = z.pid
    BY <1>3, <1>4, <1>8, NativeForMeProperties
  <2>2. z.mac = x.mac
    BY <1>5, <1>7, <2>1
  <2>3. z = x
    BY <1>3, <2>2 DEF Genuine, Directed
  <2> QED BY <1>6, <2>1, <2>3
<1>13. CASE ReachesIP(m, e, f)
  <2>1. Lifts(m, n, d, f, pid)
    BY <1>11, <1>12, <1>13 DEF Lifts
  <2>2. given'[m][pid] = given[m][pid] + 1 /\ given[m][pid] \in Nat
    BY <1>1, <1>3, <2>1 DEF Flies, Counted
  <2> QED BY <2>2 DEF Delivered
<1>14. CASE ~ReachesIP(m, e, f)
  <2>1. f.dest # Broadcast
    BY <1>3, <1>6, <1>7 DEF Genuine, Directed
  <2>2. ~AddressedTo(m, f)
    BY <1>5, <1>14, <2>1 DEF AddressedTo, ReachesIP
  <2>3. <<m, NativeForMe(s, f)>> \in bypassed'
    BY <1>2, <1>11, <2>2, MacSendBypasses
  <2> QED BY <1>12, <2>3 DEF Delivered
<1> QED BY <1>13, <1>14

\* By itself a node comes to hold only what an application sends.
LEMMA OwnPool ==
  ASSUME WellConfigured, NInv, [Next]_vars, \A k \in Node : ~Airs(k),
         NEW m \in Node, NEW pid, pid \in cope'[m].pool, pid \notin cope[m].pool
  PROVE  [node |-> m, pid |-> pid] \in Flow
<1>1. /\ cope = [n \in Node |-> cope[n]] /\ todo \subseteq Flow
      /\ Lives(m, cope[m]) /\ m \in DOMAIN cope
  BY DEF NInv
<1>2. ASSUME NEW r, Goes(m, {}, {}, {}, cope[m], r), NEW k, cope' = [cope EXCEPT ![k] = r], k = m
      PROVE  FALSE
  BY <1>1, <1>2 DEF Goes, Learns
<1>3. ASSUME NEW r, NEW k, cope' = [cope EXCEPT ![k] = r] PROVE k = m
  BY <1>1, <1>3
<1>4. ASSUME NEW x \in todo, Originate(x)
      PROVE  [node |-> m, pid |-> pid] \in Flow
  <2> DEFINE y == Route[x.node][x.pid]
             r == EnqueueData(cope[m], y)
  <2>1. x \in Flow /\ x.node \in Node /\ x.pid \in Pid /\ x = [node |-> x.node, pid |-> x.pid]
    BY <1>1, FlowAssumption
  <2>2. y # NoSend
    BY <2>1, FlowAssumption
  <2>3. cope' = [cope EXCEPT ![x.node] = EnqueueData(@, y)]
    BY <1>4 DEF Originate
  <2>4. x.node = m
    <3> HIDE DEF y
    <3> QED BY <1>3, <2>3
  <2>5. y \in Sendable(m) /\ y.id = x.pid
    BY <2>1, <2>2, <2>4, RouteAssumption DEF Sendable
  <2>6. <<y.dest, y.id>> \in Duty(m).legs
    BY <2>1, <2>2, <2>4, <2>5, LegsLead DEF Forwards
  <2> HIDE DEF y
  <2>7. cope'[m] = r
    BY <1>1, <2>3, <2>4
  <2>8. Goes(m, {y.id}, {}, {}, cope[m], r)
    BY <1>1, <2>5, <2>6, EnqueueDataGoes
  <2> HIDE DEF r
  <2>9. pid = x.pid
    BY <2>5, <2>7, <2>8 DEF Goes, Learns
  <2> QED BY <2>1, <2>4, <2>9
<1>5. ASSUME NEW k \in Greeters, NEW ids \in [Devices(k) -> HelloIds], HelloTimerExpire(k, ids)
      PROVE  FALSE
  <2> DEFINE r == SendHello(cope[k], ids)
  <2>1. cope' = [cope EXCEPT ![k] = r]
    BY <1>5 DEF HelloTimerExpire
  <2>2. k = m
    <3> HIDE DEF r
    <3> QED BY <1>3, <2>1
  <2>3. Goes(m, {}, {}, {}, cope[m], r)
    BY <1>1, <2>1, <2>2, SendHelloGoes
  <2> HIDE DEF r
  <2> QED BY <1>2, <2>1, <2>2, <2>3
<1>6. ASSUME NEW k \in Node, Try(k)
      PROVE  FALSE
  <2> DEFINE r == TrySend(cope[k])
  <2>1. cope' = [cope EXCEPT ![k] = r]
    BY <1>6 DEF Try
  <2>2. k = m
    <3> HIDE DEF r
    <3> QED BY <1>3, <2>1
  <2>3. Goes(m, {}, {}, {}, cope[m], r)
    BY <1>1, <2>2, TrySendGoes
  <2> HIDE DEF r
  <2> QED BY <1>2, <2>1, <2>2, <2>3
<1>7. ASSUME NEW k \in Node, TimerExpire(k)
      PROVE  FALSE
  <2> DEFINE r == Retransmit(cope[k])
  <2>1. cope' = [cope EXCEPT ![k] = r]
    BY <1>7 DEF TimerExpire
  <2>2. k = m
    <3> HIDE DEF r
    <3> QED BY <1>3, <2>1
  <2>3. Goes(m, {}, {}, {}, cope[m], r)
    BY <1>1, <2>2, RetransmitGoes
  <2> HIDE DEF r
  <2> QED BY <1>2, <2>1, <2>2, <2>3
<1>8. ~UNCHANGED vars
  BY DEF vars
<1>9. ASSUME NEW k \in Node, TimerDue(k)
      PROVE  FALSE
  <2> DEFINE r == [cope[k] EXCEPT !.timer = "due"]
  <2>1. cope' = [cope EXCEPT ![k] = r] /\ cope[k].timer = "running"
    BY <1>9 DEF TimerDue
  <2>2. k = m
    <3> HIDE DEF r
    <3> QED BY <1>3, <2>1
  <2>3. Goes(m, {}, {}, {}, cope[m], r)
    BY <1>1, <2>1, <2>2, TimerDueGoes
  <2> HIDE DEF r
  <2> QED BY <1>2, <2>1, <2>2, <2>3
<1> QED BY <1>4, <1>5, <1>6, <1>7, <1>8, <1>9 DEF Next, Airs

\* From others it comes to hold only what a frame carries that it hears.
LEMMA HeardPool ==
  ASSUME WellConfigured, TwoHops, NInv, NEW n \in Node, NEW d \in Devices(n),
         NEW hearers \in SUBSET Listeners(n, d), NEW f, Flies(n, d, hearers, f),
         NEW m \in Node, NEW pid, pid \in cope'[m].pool, pid \notin cope[m].pool
  PROVE  m \in hearers /\ pid \in Contents(f)
<1>1. CASE m = n
  <2>1. cope[n] \in IState(n)
    BY DEF NInv, Lives, Good, Typed
  <2>2. cope'[n].pool = cope[n].pool
    BY <2>1 DEF Flies, IState
  <2> QED BY <1>1, <2>2
<1>2. CASE m # n /\ m \notin hearers
  BY <1>2 DEF Flies
<1>3. CASE m \in hearers
  <2>1. Goes(m, Contents(f), cope[n].pool, Macs(n), cope[m], Hears(m, n, d, f))
    BY <1>3, HearsGoes DEF Flies
  <2>2. cope'[m] = Hears(m, n, d, f)
    BY <1>3 DEF Flies
  <2> QED BY <1>3, <2>1, <2>2 DEF Goes, Learns
<1> QED BY <1>1, <1>2, <1>3

\* The next hop does not hold a packet before it is delivered.
HeldIsDelivered ==
  \A n, m \in Node, pid \in Pid :
    Leads(n, m, pid) /\ pid \in cope[m].pool => Delivered(m, pid)

\* Every step keeps it so.
LEMMA HeldNext ==
  ASSUME WellConfigured, TwoHops, OneChannel, Direct, NInv, Counted, HeldIsDelivered, [Next]_vars
  PROVE  HeldIsDelivered'
<1> SUFFICES ASSUME NEW n \in Node, NEW m \in Node, NEW pid \in Pid, Leads(n, m, pid),
                    pid \in cope'[m].pool
             PROVE  Delivered(m, pid)'
  BY DEF HeldIsDelivered
<1>1. CASE pid \in cope[m].pool
  BY <1>1, DeliveredStays DEF HeldIsDelivered
<1>2. CASE pid \notin cope[m].pool
  <2>1. [node |-> m, pid |-> pid] \notin Flow
    BY DEF Direct
  <2>2. PICK k \in Node : Airs(k)
    BY <1>2, <2>1, OwnPool
  <2>3. PICK d \in Devices(k) : \E hearers \in SUBSET Listeners(k, d) : MacSend(k, d, hearers)
    BY <2>2 DEF Airs
  <2>4. PICK hearers \in SUBSET Listeners(k, d) : MacSend(k, d, hearers)
    BY <2>3
  <2> DEFINE f == Head(cope[k].macq[d])
  <2>5. Flies(k, d, hearers, f) /\ f = Head(cope[k].macq[d])
    BY <2>4, MacSendFlies
  <2> HIDE DEF f
  <2>6. m \in hearers /\ pid \in Contents(f)
    BY <1>2, <2>5, HeardPool
  <2>7. PICK x \in f.natives : x.pid = pid
    BY <2>6 DEF Contents
  <2>8. Forwards(k, pid)
    <3>1. Lives(k, cope[k]) /\ Running(cope[k]) /\ f \in Range(cope[k].macq[d])
      BY <2>5 DEF Flies, Simulating, NInv
    <3> QED BY <2>7, <3>1, SpeaksOfItself
  <2>9. <<k, m>> \in Near
    BY <2>6 DEF Listeners
  <2>10. k = n
    BY <2>8, <2>9 DEF Direct
  <2>11. d \in Devices(n) /\ hearers \in SUBSET Listeners(n, d) /\ MacSend(n, d, hearers)
         /\ pid \in Contents(Head(cope[n].macq[d]))
    BY <2>4, <2>5, <2>6, <2>10
  <2> QED BY <1>2, <2>6, <2>11, FrameDelivers
<1> QED BY <1>1, <1>2

\* How a packet that is not delivered is kept, when M receptions failed: it
\* was not sent more often than receptions failed and frames are on their way,
\* counts no more retries than that, and unless they are used up it waits.
Kept(M) ==
  {v \in Life :
     /\ \A x \in v.wait : x <= M + v.plain + v.coded
     /\ \A x \in v.again : x < M + v.plain + v.coded
     /\ v.asked > 0 =>
          v.wait # {} \/ v.again # {} \/ v.plain > 0 \/ M + v.plain + v.coded > MaxRetry}

\* What is in Kept, field by field.
LEMMA KeptFields ==
  ASSUME NEW M \in Nat, NEW W, NEW A, NEW p, NEW q, NEW k
  PROVE  [wait |-> W, again |-> A, plain |-> p, coded |-> q, asked |-> k] \in Kept(M) <=>
           /\ W \in SUBSET Nat /\ A \in SUBSET Nat /\ p \in Nat /\ q \in Nat /\ k \in Nat
           /\ \A x \in W : x <= M + p + q
           /\ \A x \in A : x < M + p + q
           /\ k > 0 => W # {} \/ A # {} \/ p > 0 \/ M + p + q > MaxRetry
BY DEF Kept, Life

\* As long as nothing is acknowledged and nothing given up, it is kept.
LEMMA KeptCloses ==
  ASSUME NEW M \in Nat
  PROVE  Closed(FALSE, Kept(M))
<1> SUFFICES ASSUME NEW v \in Kept(M)
             PROVE  /\ v.wait # {} => SentAlone(v) \in Kept(M) /\ SentCoded(v) \in Kept(M)
                    /\ \A x \in v.again : SentAgain(v, x) \in Kept(M)
                    /\ AskedFor(v) \in Kept(M)
  BY DEF Closed
<1> DEFINE W == v.wait
           A == v.again
           p == v.plain
           q == v.coded
           k == v.asked
<1>1. /\ W \in SUBSET Nat /\ A \in SUBSET Nat /\ p \in Nat /\ q \in Nat /\ k \in Nat
      /\ \A x \in W : x <= M + p + q
      /\ \A x \in A : x < M + p + q
      /\ k > 0 => W # {} \/ A # {} \/ p > 0 \/ M + p + q > MaxRetry
  BY DEF Kept, Life
<1>2. MaxRetry \in Nat
  BY DEF MaxRetry
<1>3. /\ SentAlone(v) = [wait |-> {}, again |-> A, plain |-> p + 1, coded |-> q, asked |-> k]
      /\ SentCoded(v) = [wait |-> {}, again |-> IF A = {} THEN W \ {MaxRetry} ELSE A,
                         plain |-> p, coded |-> q + 1, asked |-> k]
      /\ \A x : SentAgain(v, x) = [wait |-> IF W = {} THEN {x + 1} ELSE W, again |-> {},
                                   plain |-> p, coded |-> q, asked |-> k]
      /\ AskedFor(v) = [wait |-> IF W = {} THEN {0} ELSE W, again |-> A, plain |-> p,
                        coded |-> q, asked |-> k + 1]
  BY DEF SentAlone, SentCoded, SentAgain, AskedFor
<1> HIDE DEF W, A, p, q, k
<1>4. SentAlone(v) \in Kept(M)
  <2> DEFINE p1 == p + 1
  <2>1. /\ {} \in SUBSET Nat /\ p1 \in Nat /\ p1 > 0
        /\ (\A x \in {} : x <= M + p1 + q) /\ \A x \in A : x < M + p1 + q
    BY <1>1
  <2> HIDE DEF p1
  <2>2. [wait |-> {}, again |-> A, plain |-> p1, coded |-> q, asked |-> k] \in Kept(M)
    BY <1>1, <2>1, KeptFields
  <2> QED BY <1>3, <2>2 DEF p1
<1>5. ASSUME W # {} PROVE SentCoded(v) \in Kept(M)
  <2> DEFINE q1 == q + 1
             B == IF A = {} THEN W \ {MaxRetry} ELSE A
  <2>1. /\ {} \in SUBSET Nat /\ q1 \in Nat /\ B \in SUBSET Nat
        /\ \A x \in {} : x <= M + p + q1
    <3>1. B \in SUBSET Nat
      <4>1. W \ {MaxRetry} \subseteq Nat /\ A \subseteq Nat
        BY <1>1
      <4> QED BY <4>1
    <3>2. q1 \in Nat /\ \A x \in {} : x <= M + p + q1
      BY <1>1
    <3> HIDE DEF q1, B
    <3> QED BY <3>1, <3>2
  <2>2. \A x \in B : x < M + p + q1
    <3>1. \A x \in A : x < M + p + q1
      BY <1>1
    <3>2. \A x \in W : x < M + p + q1
      BY <1>1
    <3> QED BY <3>1, <3>2
  <2>3. B # {} \/ M + p + q1 > MaxRetry
    <3> SUFFICES ASSUME B = {} PROVE M + p + q1 > MaxRetry
      OBVIOUS
    <3>1. MaxRetry \in W
      BY <1>5
    <3>2. MaxRetry <= M + p + q
      BY <1>1, <3>1
    <3> QED BY <1>1, <1>2, <3>2
  <2> HIDE DEF q1, B
  <2>4. [wait |-> {}, again |-> B, plain |-> p, coded |-> q1, asked |-> k] \in Kept(M)
    BY <1>1, <2>1, <2>2, <2>3, KeptFields
  <2> QED BY <1>3, <2>4 DEF q1, B
<1>6. ASSUME NEW y \in A PROVE SentAgain(v, y) \in Kept(M)
  <2> DEFINE V == IF W = {} THEN {y + 1} ELSE W
  <2>1. y \in Nat /\ y < M + p + q
    BY <1>1
  <2>2. /\ {} \in SUBSET Nat /\ V \in SUBSET Nat /\ V # {}
        /\ (\A x \in {} : x < M + p + q) /\ \A x \in V : x <= M + p + q
    BY <1>1, <2>1
  <2> HIDE DEF V
  <2>3. [wait |-> V, again |-> {}, plain |-> p, coded |-> q, asked |-> k] \in Kept(M)
    BY <1>1, <2>2, KeptFields
  <2> QED BY <1>3, <2>3 DEF V
<1>7. AskedFor(v) \in Kept(M)
  <2> DEFINE V == IF W = {} THEN {0} ELSE W
             k1 == k + 1
  <2>1. k1 \in Nat /\ V \in SUBSET Nat /\ V # {} /\ \A x \in V : x <= M + p + q
    BY <1>1
  <2> HIDE DEF V, k1
  <2>2. [wait |-> V, again |-> A, plain |-> p, coded |-> q, asked |-> k1] \in Kept(M)
    BY <1>1, <2>1, KeptFields
  <2> QED BY <1>3, <2>2 DEF V, k1
<1> QED BY <1>4, <1>5, <1>6, <1>7 DEF W, A

\* More failures, more excuses.
LEMMA KeptWider ==
  ASSUME NEW M \in Nat, NEW N \in Nat, M <= N
  PROVE  Kept(M) \subseteq Kept(N)
<1> SUFFICES ASSUME NEW v \in Kept(M) PROVE v \in Kept(N)
  OBVIOUS
<1>1. /\ v \in Life /\ v.wait \in SUBSET Nat /\ v.again \in SUBSET Nat
      /\ v.plain \in Nat /\ v.coded \in Nat /\ v.asked \in Nat
      /\ \A x \in v.wait : x <= M + v.plain + v.coded
      /\ \A x \in v.again : x < M + v.plain + v.coded
      /\ v.asked > 0 =>
           v.wait # {} \/ v.again # {} \/ v.plain > 0 \/ M + v.plain + v.coded > MaxRetry
  BY DEF Kept, Life
<1>2. MaxRetry \in Nat
  BY DEF MaxRetry
<1>3. /\ \A x \in v.wait : x <= N + v.plain + v.coded
      /\ \A x \in v.again : x < N + v.plain + v.coded
  BY <1>1
<1>4. v.asked > 0 =>
        v.wait # {} \/ v.again # {} \/ v.plain > 0 \/ N + v.plain + v.coded > MaxRetry
  BY <1>1, <1>2
<1> QED BY <1>1, <1>3, <1>4 DEF Kept

\* Before IP sends it, a packet is nowhere.
LEMMA KeptFirst ==
  ASSUME Init, NEW n \in Node, NEW pid \in Pid
  PROVE  LifeOf(n, pid, cope[n], Asks(n, pid)) \in Kept(missed)
<1> DEFINE k == Asks(n, pid)
<1>1. k = 0 /\ missed = 0
  BY DEF Init, Asks
<1>2. LifeOf(n, pid, cope[n], k) =
        [wait |-> {}, again |-> {}, plain |-> 0, coded |-> 0, asked |-> k]
  BY FreshLife
<1> HIDE DEF k
<1>3. [wait |-> {}, again |-> {}, plain |-> 0, coded |-> 0, asked |-> k] \in Kept(missed)
  BY <1>1, KeptFields
<1> QED BY <1>2, <1>3 DEF k

\* Failed receptions make up for the coded frames that are sent.
LEMMA KeptDeparts ==
  ASSUME NEW M \in Nat, NEW N \in Nat, NEW c \in Nat, M + c <= N, NEW v \in Kept(M),
         NEW w \in Life, w.wait = v.wait, w.again = v.again, w.asked = v.asked,
         w.plain = v.plain, v.coded = w.coded + c
  PROVE  w \in Kept(N)
<1> DEFINE W == v.wait
           A == v.again
           p == v.plain
           q == w.coded
           k == v.asked
<1>1. /\ W \in SUBSET Nat /\ A \in SUBSET Nat /\ p \in Nat /\ q \in Nat /\ k \in Nat
      /\ \A x \in W : x <= M + p + (q + c)
      /\ \A x \in A : x < M + p + (q + c)
      /\ k > 0 => W # {} \/ A # {} \/ p > 0 \/ M + p + (q + c) > MaxRetry
  BY DEF Kept, Life
<1>2. w = [wait |-> W, again |-> A, plain |-> p, coded |-> q, asked |-> k]
  BY DEF Life
<1> HIDE DEF W, A, p, q, k
<1>3. M + p + (q + c) <= N + p + q /\ M + p + (q + c) \in Nat /\ N + p + q \in Nat
  BY <1>1
<1>4. MaxRetry \in Nat
  BY DEF MaxRetry
<1>5. /\ \A x \in W : x <= N + p + q
      /\ \A x \in A : x < N + p + q
      /\ k > 0 => W # {} \/ A # {} \/ p > 0 \/ N + p + q > MaxRetry
  BY <1>1, <1>3, <1>4
<1> QED BY <1>1, <1>2, <1>5, KeptFields

\* What is not delivered is kept.
CInv ==
  /\ Counted
  /\ missed \in 0..MaxMissed
  /\ HeldIsDelivered
  /\ \A n, m \in Node, pid \in Pid :
       Leads(n, m, pid) /\ ~Delivered(m, pid) /\ Running(cope[n]) =>
         LifeOf(n, pid, cope[n], Asks(n, pid)) \in Kept(missed)

\* Nothing is on its way at first.
LEMMA CInit == Init => CInv
<1> SUFFICES ASSUME Init PROVE CInv
  OBVIOUS
<1>1. Counted /\ missed \in 0..MaxMissed
  BY MediumAssumption DEF Init, Counted
<1>2. HeldIsDelivered
  BY DEF Init, Init0, HeldIsDelivered
<1> QED BY <1>1, <1>2, KeptFirst DEF CInv

\* The receptions that fail are counted, and not too many.
LEMMA MissedCounts ==
  ASSUME IsFiniteSet(Node), missed \in 0..MaxMissed, NEW n \in Node, NEW d \in Devices(n),
         NEW hearers \in SUBSET Listeners(n, d), MacSend(n, d, hearers)
  PROVE  LET deaf == Listeners(n, d) \ hearers
         IN  /\ missed' = missed + Cardinality(deaf) /\ missed' \in 0..MaxMissed
             /\ Cardinality(deaf) \in Nat
             /\ \A m \in deaf : Cardinality(deaf) > 0
<1> DEFINE deaf == Listeners(n, d) \ hearers
<1>1. deaf \in SUBSET Node
  BY DEF Listeners
<1>2. missed' = missed + Cardinality(deaf) /\ missed + Cardinality(deaf) <= MaxMissed
  BY DEF MacSend
<1> HIDE DEF deaf
<1>3. IsFiniteSet(deaf) /\ Cardinality(deaf) \in Nat
  BY <1>1, FS_Subset, FS_CardinalityType
<1>4. ASSUME NEW m \in deaf PROVE Cardinality(deaf) > 0
  BY <1>3, FS_EmptySet
<1>5. missed' \in 0..MaxMissed
  BY <1>2, <1>3, MediumAssumption
<1> QED BY <1>2, <1>3, <1>4, <1>5 DEF deaf

\* Every step goes on counting.
LEMMA MissedNext ==
  ASSUME IsFiniteSet(Node), TwoHops, NInv, Counted, missed \in 0..MaxMissed, [Next]_vars
  PROVE  Counted' /\ missed' \in 0..MaxMissed /\ missed <= missed'
<1>1. ASSUME NEW n \in Node, NEW d \in Devices(n), NEW hearers \in SUBSET Listeners(n, d),
             MacSend(n, d, hearers)
      PROVE  Counted' /\ missed' \in 0..MaxMissed /\ missed <= missed'
  <2> DEFINE f == Head(cope[n].macq[d])
             c == Cardinality(Listeners(n, d) \ hearers)
  <2>1. Flies(n, d, hearers, f)
    BY <1>1, MacSendFlies
  <2>2. missed' = missed + c /\ missed' \in 0..MaxMissed /\ c \in Nat
    BY <1>1, MissedCounts
  <2> HIDE DEF f, c
  <2> QED BY <2>1, <2>2, MediumAssumption DEF Flies
<1>2. CASE \A n \in Node : ~Airs(n)
  BY <1>2, OwnStepUnheard, MediumAssumption DEF Counted
<1> QED BY <1>1, <1>2 DEF Airs

\* A node that sends frame f keeps the packet, or the reception failed.
LEMMA SenderKeeps ==
  ASSUME WellConfigured, TwoHops, OneChannel, Routed, Direct, ReliableMac, IsFiniteSet(Node),
         NInv, CInv, [Next]_vars, NEW n \in Node, NEW d \in Devices(n),
         NEW hearers \in SUBSET Listeners(n, d), MacSend(n, d, hearers),
         NEW m \in Node, NEW pid \in Pid, Leads(n, m, pid), ~Delivered(m, pid)'
  PROVE  LifeOf(n, pid, cope'[n], Asks(n, pid)') \in Kept(missed')
<1> DEFINE s == cope[n]
           r == cope'[n]
           f == Head(s.macq[d])
           k == Asks(n, pid)
           v == LifeOf(n, pid, s, k)
           w == LifeOf(n, pid, r, k)
           deaf == Listeners(n, d) \ hearers
           c == Cardinality(deaf)
<1>1. Counted /\ missed \in 0..MaxMissed /\ HeldIsDelivered
  BY DEF CInv
<1>2. Flies(n, d, hearers, f)
  BY <1>1, MacSendFlies
<1>3. /\ Lives(n, s) /\ Running(s) /\ s.macq[d] # <<>> /\ r = [s EXCEPT !.macq[d] = Tail(@)]
      /\ f \in Frame /\ Directed(f) /\ todo' = todo /\ n \notin hearers
  BY <1>2 DEF Flies, NInv, Simulating, Genuine
<1>4. given[n][pid] \in Nat /\ given'[n][pid] = given[n][pid] + 0
  BY <1>1, <1>2, <1>3 DEF Flies, Counted
<1>5. Asks(n, pid)' = k /\ k \in Nat
  BY <1>3, <1>4 DEF Asks
<1>6. ~Delivered(m, pid)
  BY <1>1, DeliveredStays
<1>7. v \in Kept(missed)
  BY <1>3, <1>6 DEF CInv
<1>8. /\ missed' = missed + c /\ missed' \in Nat /\ c \in Nat /\ missed \in Nat
      /\ \A x \in deaf : c > 0
  BY <1>1, MissedCounts, MediumAssumption
<1>9. Lives(n, r) /\ Departs(v, w, pid, f)
  <2> HIDE DEF s, r
  <2> QED BY <1>3, SentDeparts
<1>10. v \in Life /\ w \in Life
  <2> HIDE DEF s, r, k
  <2> QED BY <1>3, <1>5, <1>9, LivesLife
<1>11. CASE pid \notin Contents(f)
  <2>1. /\ w.wait = v.wait /\ w.again = v.again /\ w.asked = v.asked
        /\ w.plain = v.plain /\ v.coded = w.coded + 0
    <3> HIDE DEF f, v, w
    <3> QED BY <1>9, <1>10, <1>11 DEF Departs, PlainOf, CodedOf, Life
  <2>2. missed + 0 <= missed' /\ 0 \in Nat
    <3> HIDE DEF c
    <3> QED BY <1>8
  <2> HIDE DEF v, w
  <2>3. w \in Kept(missed')
    BY <1>7, <1>8, <1>10, <2>1, <2>2, KeptDeparts
  <2> QED BY <1>5, <2>3 DEF w, r, k
<1>12. CASE pid \in Contents(f)
  <2>1. m # n
    BY LeadsAway
  <2>2. m \in Listeners(n, d)
    <3>1. cope[n].me = n /\ cope[m].me = m
      BY Fields DEF NInv, Lives, Good
    <3> QED BY <3>1, EarOpen DEF Listeners, Direct
  <2>3. m \notin hearers
    <3>1. pid \notin cope[m].pool
      BY <1>1, <1>6 DEF HeldIsDelivered
    <3> QED BY <1>1, <1>12, <3>1, FrameDelivers
  <2>4. m \in deaf
    BY <2>2, <2>3
  <2>5. f.dest \notin Macs(m)
    BY <2>4 DEF MacSend
  <2>6. Coded(f)
    <3>1. PICK x \in f.natives : x.pid = pid
      BY <1>12 DEF Contents
    <3>2. x.mac \in Macs(m)
      <4>1. Route[n][x.pid].dest = x.mac
        <5>1. f \in Range(cope[n].macq[d])
          BY <1>2 DEF Flies
        <5> HIDE DEF f
        <5> QED BY <1>3, <3>1, <5>1, SpeaksOfItself
      <4> QED BY <3>1, <4>1 DEF Leads
    <3> HIDE DEF f
    <3> QED BY <1>3, <2>5, <3>2 DEF Directed
  <2>7. /\ w.wait = v.wait /\ w.again = v.again /\ w.asked = v.asked
        /\ w.plain = v.plain /\ v.coded = w.coded + 1
    <3> HIDE DEF f, v, w
    <3> QED BY <1>3, <1>9, <1>10, <1>12, <2>6 DEF Departs, PlainOf, CodedOf, Life
  <2>8. missed + 1 <= missed' /\ 1 \in Nat
    <3> HIDE DEF c, deaf
    <3> QED BY <1>8, <2>4
  <2> HIDE DEF v, w
  <2>9. w \in Kept(missed')
    BY <1>7, <1>8, <1>10, <2>7, <2>8, KeptDeparts
  <2> QED BY <1>5, <2>9 DEF w, r, k
<1> QED BY <1>11, <1>12

\* No node comes to believe that a next hop has a packet that is not
\* delivered.
LEMMA StillBound ==
  ASSUME WellConfigured, Routed, HelloIdsApart, Room, NInv', HeldIsDelivered',
         NEW n \in Node, NEW m \in Node, NEW pid \in Pid, Leads(n, m, pid), ~Delivered(m, pid)'
  PROVE  Bound(FALSE, n, pid, cope'[n])
<1>1. pid \notin HelloIds
  BY DEF HelloIdsApart, Leads
<1>2. pid \notin cope'[m].pool
  BY DEF HeldIsDelivered
<1>3. ASSUME NEW mac \in Macs(m), <<pid, mac>> \in cope'[n].info PROVE FALSE
  <2>1. \A b \in cope'[n].info : b[2] \in Macs(m) => b[1] \in cope'[m].pool
    BY DEF NInv, KnowledgeProofs!Truth, KnowledgeProofs!BeliefsTrue
  <2> QED BY <1>2, <1>3, <2>1
<1>4. Uninformed(n, pid, cope'[n])
  <2> SUFFICES ASSUME NEW k \in Node, Leads(n, k, pid), NEW mac \in Macs(k)
               PROVE  <<pid, mac>> \notin cope'[n].info
    BY DEF Uninformed
  <2>1. k = m
    BY LeadsToOne
  <2> QED BY <1>3, <2>1
<1> QED BY <1>1, <1>4 DEF Bound

\* Nobody acknowledges a packet that is not delivered.
LEMMA StillUnacked ==
  ASSUME WellConfigured, TwoHops, NInv, Counted, HeldIsDelivered, NEW k \in Node,
         NEW d \in Devices(k), NEW f, NEW hearers, Flies(k, d, hearers, f),
         NEW n \in Node, NEW m \in Node, NEW pid \in Pid, Leads(n, m, pid), ~Delivered(m, pid)
  PROVE  pid \notin Acked(n, f)
<1> SUFFICES ASSUME pid \in Acked(n, f) PROVE FALSE
  OBVIOUS
<1>1. PICK a \in Range(f.acks) : a.ip = NodeIP(n) /\ a.pid = pid
  BY DEF Acked
<1>2. Genuine(k, d, Duty(k), cope[k].pool, f) /\ Spoken(cope[k].pool, f)
  BY DEF Flies
<1>3. a \in Duty(k).due
  BY <1>2 DEF Genuine
<1>4. Leads(n, k, pid)
  BY <1>1, <1>3 DEF Duty
<1>5. k = m
  BY <1>4, LeadsToOne
<1>6. pid \in cope[m].pool
  BY <1>1, <1>2, <1>5 DEF Spoken
<1> QED BY <1>6 DEF HeldIsDelivered

\* Who does not send keeps what it keeps.
LEMMA OthersKeep ==
  ASSUME NInv, CInv, NEW n \in Node, NEW m \in Node, NEW pid \in Pid, Leads(n, m, pid),
         ~Delivered(m, pid), missed' \in Nat, missed <= missed', Running(cope'[n]),
         NEW a \in {0, 1}, Asks(n, pid)' = Asks(n, pid) + a,
         Turns(n, pid, FALSE, a, cope[n], cope'[n])
  PROVE  LifeOf(n, pid, cope'[n], Asks(n, pid)') \in Kept(missed')
<1> DEFINE k == Asks(n, pid)
           s == cope[n]
           r == cope'[n]
<1>1. k \in Nat /\ missed \in Nat
  BY MediumAssumption DEF CInv, Counted, Asks
<1>2. /\ Running(s)
      /\ \A x \in Nat : Reaches(FALSE, LifeOf(n, pid, s, x), LifeOf(n, pid, r, x + a))
  BY DEF Turns
<1>3. LifeOf(n, pid, s, k) \in Kept(missed)
  BY <1>2 DEF CInv
<1>4. Asks(n, pid)' = k + a
  OBVIOUS
<1> HIDE DEF k, s, r
<1>5. Reaches(FALSE, LifeOf(n, pid, s, k), LifeOf(n, pid, r, k + a))
  BY <1>1, <1>2
<1>6. Closed(FALSE, Kept(missed))
  BY <1>1, KeptCloses
<1>7. LifeOf(n, pid, r, k + a) \in Kept(missed)
  BY <1>3, <1>5, <1>6 DEF Reaches
<1>8. LifeOf(n, pid, r, k + a) \in Kept(missed')
  BY <1>1, <1>7, KeptWider
<1> QED BY <1>4, <1>8 DEF r

\* Every step keeps what is not delivered.
LEMMA CNext ==
  ASSUME WellConfigured, TwoHops, OneChannel, Routed, Direct, HelloIdsApart, ReliableMac,
         IsFiniteSet(Node), Room, NInv, CInv, [Next]_vars
  PROVE  CInv'
<1>1. NInv' /\ Counted /\ missed \in 0..MaxMissed /\ HeldIsDelivered
  BY NextNet DEF CInv
<1>2. Counted' /\ missed' \in 0..MaxMissed /\ missed <= missed' /\ missed' \in Nat
  BY <1>1, MissedNext, MediumAssumption
<1>3. HeldIsDelivered'
  BY <1>1, HeldNext
<1>4. ASSUME NEW n \in Node, NEW m \in Node, NEW pid \in Pid, Leads(n, m, pid),
             ~Delivered(m, pid)', Running(cope'[n])
      PROVE  LifeOf(n, pid, cope'[n], Asks(n, pid)') \in Kept(missed')
  <2>1. ~Delivered(m, pid)
    BY <1>1, <1>4, DeliveredStays
  <2>2. Bound(FALSE, n, pid, cope'[n])
    BY <1>1, <1>3, <1>4, StillBound
  <2>3. Forwards(n, pid)
    BY <1>4 DEF Leads
  <2>4. ASSUME NEW a \in {0, 1}, Asks(n, pid)' = Asks(n, pid) + a,
               Turns(n, pid, FALSE, a, cope[n], cope'[n])
        PROVE  LifeOf(n, pid, cope'[n], Asks(n, pid)') \in Kept(missed')
    BY <1>2, <1>4, <2>1, <2>4, OthersKeep
  <2>5. ASSUME NEW k \in Node, NEW d \in Devices(k), NEW hearers \in SUBSET Listeners(k, d),
               MacSend(k, d, hearers)
        PROVE  LifeOf(n, pid, cope'[n], Asks(n, pid)') \in Kept(missed')
    <3>1. CASE n = k
      <4>1. d \in Devices(n) /\ hearers \in SUBSET Listeners(n, d) /\ MacSend(n, d, hearers)
        BY <2>5, <3>1
      <4> QED BY <1>4, <4>1, SenderKeeps
    <3>2. CASE n # k
      <4> DEFINE f == Head(cope[k].macq[d])
      <4>1. Flies(k, d, hearers, f)
        BY <1>1, <2>5, MacSendFlies
      <4>2. pid \notin Acked(n, f)
        <5> HIDE DEF f
        <5> QED BY <1>1, <1>4, <2>1, <4>1, StillUnacked
      <4>3. PICK a \in {0, 1} : /\ Asks(n, pid)' = Asks(n, pid) + a
                                /\ Turns(n, pid, FALSE, a, cope[n], cope'[n])
        BY <1>1, <2>2, <2>3, <2>5, <3>2, <4>2, EarTurns
      <4> QED BY <2>4, <4>3
    <3> QED BY <3>1, <3>2
  <2>6. CASE \A k \in Node : ~Airs(k)
    <3>1. PICK a \in {0, 1} : /\ Asks(n, pid)' = Asks(n, pid) + a
                              /\ Turns(n, pid, FALSE, a, cope[n], cope'[n])
      BY <1>1, <2>2, <2>3, <2>6, OwnStepTurns
    <3> QED BY <2>4, <3>1
  <2> QED BY <2>5, <2>6 DEF Airs
<1> QED BY <1>2, <1>3, <1>4 DEF CInv

\* What is kept is in a queue or in a frame.
LEMMA KeptRetains ==
  ASSUME MaxMissed <= MaxRetry, NEW n \in Node, Lives(n, cope[n]), NEW pid \in Pid,
         NEW M \in 0..MaxMissed, NEW k \in Nat, k > 0, LifeOf(n, pid, cope[n], k) \in Kept(M)
  PROVE  Retains(n, pid)
<1> DEFINE s == cope[n]
           v == LifeOf(n, pid, s, k)
<1>1. s \in Typed(n, {})
  BY DEF Lives, Good
<1>2. /\ v.wait = Waits(Range(s.queue), pid) /\ v.again = Retries(Range(s.rtqueue), pid)
      /\ v.plain = Cardinality(Spots(n, s, PlainOf(pid)))
      /\ v.coded = Cardinality(Spots(n, s, CodedOf(pid))) /\ v.asked = k
  <2>1. Range(s.queue) \union {} = Range(s.queue)
    OBVIOUS
  <2> QED BY <2>1 DEF LifeOf, LifeIn
<1>3. /\ v.plain \in Nat /\ v.coded \in Nat
      /\ v.asked > 0 =>
           v.wait # {} \/ v.again # {} \/ v.plain > 0 \/ M + v.plain + v.coded > MaxRetry
  BY DEF Kept, Life
<1>4. ASSUME NEW C, C = PlainOf(pid) \/ C = CodedOf(pid), Cardinality(Spots(n, s, C)) > 0
      PROVE  Retains(n, pid)
  <2>1. Spots(n, s, C) # {}
    BY <1>4, FS_EmptySet
  <2>2. PICK p \in Spots(n, s, C) : TRUE
    BY <2>1
  <2>3. /\ p[1] \in Devices(n) /\ p[2] \in Nat \ {0} /\ p[2] <= Len(s.macq[p[1]])
        /\ s.macq[p[1]][p[2]] \in C
    BY DEF Spots
  <2>4. s.macq[p[1]] \in Seq(Frame)
    BY <1>1, <2>3, Fields
  <2>5. s.macq[p[1]][p[2]] \in Range(s.macq[p[1]])
    BY <2>3, <2>4 DEF Range
  <2>6. pid \in Contents(s.macq[p[1]][p[2]])
    BY <1>4, <2>3 DEF PlainOf, CodedOf
  <2> QED BY <2>3, <2>5, <2>6 DEF Retains, Contents
<1>5. CASE v.wait # {} \/ v.again # {}
  BY <1>2, <1>5, RetriesNone, WaitsNone DEF Retains
<1>6. CASE v.plain > 0 \/ v.coded > 0
  BY <1>2, <1>4, <1>6
<1>7. v.wait # {} \/ v.again # {} \/ v.plain > 0 \/ v.coded > 0
  <2>1. MaxRetry \in Nat /\ MaxMissed \in Nat
    BY MediumAssumption DEF MaxRetry
  <2> HIDE DEF v
  <2> QED BY <1>2, <1>3, <2>1
<1> QED BY <1>5, <1>6, <1>7

\* Retransmit, DoSend, EnqueueForRetransmit and RecvAcks: when no more
\* receptions fail than a coded packet has retries, MAC destinations hear
\* their frames and the queues have room, no packet IP has sent is lost before
\* the next hop has it.
THEOREM CustodyKept ==
  ASSUME WellConfigured, TwoHops, OneChannel, Routed, Direct, HelloIdsApart, ReliableMac,
         MaxMissed <= MaxRetry, IsFiniteSet(Node), Room
  PROVE  Spec => []Custody
<1>1. NInv /\ CInv /\ [Next]_vars => CInv'
  BY CNext
<1>2. NInv /\ CInv => Custody
  <2> SUFFICES ASSUME NInv, CInv, Simulating, NEW n \in Node, NEW pid \in Pid, Asked(n, pid)
               PROVE  LET m == NextNode(n, pid)
                      IN  Retains(n, pid) \/ given[m][pid] > 0 \/ <<m, pid>> \in bypassed
    BY DEF Custody
  <2> DEFINE m == NextNode(n, pid)
  <2>1. m \in Node /\ Leads(n, m, pid)
    BY NextNodeLeads DEF Asked
  <2> HIDE DEF m
  <2>2. CASE Delivered(m, pid)
    BY <2>2 DEF Delivered, m
  <2>3. CASE ~Delivered(m, pid)
    <3>1. LifeOf(n, pid, cope[n], Asks(n, pid)) \in Kept(missed)
      BY <2>1, <2>3 DEF CInv, Simulating
    <3>2. Asks(n, pid) \in Nat /\ Asks(n, pid) > 0
      BY DEF CInv, Counted, Asks, Asked
    <3>3. Retains(n, pid)
      BY <3>1, <3>2, KeptRetains DEF NInv, CInv
    <3> QED BY <3>3
  <2> QED BY <2>2, <2>3
<1> QED BY <1>1, <1>2, CInit, NetInit, NetworkInvariance, PTL DEF Spec
===============================================================================
