------------------------- MODULE IPCopeNetwork_proofs -------------------------
(***************************************************************************)
(* A network of IPCope nodes: what a node sends is what it holds, so that  *)
(* packets and beliefs spread as IPCopeKnowledge says, beliefs are true,   *)
(* coded frames can be decoded, and no node stops.                         *)
(***************************************************************************)
EXTENDS IPCopeNetwork, IPCopeSending_proofs

-------------------------------------------------------------------------------
(* What a node keeps.  D says what IP makes of it: D.legs are the pairs of *)
(* a next hop and a packet that is sent to it, D.due the acknowledgments   *)
(* the node may send.                                                      *)

\* The next hops are two at most.
TwoDests(D) == \A a, b, c \in D.legs : a[1] = b[1] \/ b[1] = c[1] \/ a[1] = c[1]

\* The payload is the sum of what the header lists.
Sums(f) == IsFiniteSet(f.payload) /\ f.payload = {x.pid : x \in f.natives}

\* A packet the node holds, for one of its next hops.
Wanted(D, P, e) == e.id \in P /\ <<e.dest, e.id>> \in D.legs

\* A packet sent alone goes to its next hop; packets sent together go to
\* different next hops, and not to everybody.
Directed(f) ==
  /\ \A x, y \in f.natives : x.mac = y.mac => x = y
  /\ Coded(f) => f.dest # Broadcast
  /\ ~Coded(f) => \A x \in f.natives : x.mac = f.dest

\* A frame of radio d that carries packets of P to their next hops; when there
\* are two at most, the payload is the sum of what the header lists.
Genuine(me, d, D, P, f) ==
  /\ f.from = me /\ f.src = RadiosOf[me][d].mac
  /\ f.hello <=> f.natives = {}
  /\ \A x \in f.natives : x.pid \in P /\ <<x.mac, x.pid>> \in D.legs
  /\ Range(f.acks) \subseteq D.due
  /\ Directed(f)
  /\ TwoDests(D) => Sums(f)

\* An entry is a packet the node holds, or a hello.
Fair(D, P, e) == IF e.hello THEN e.id \in HelloIds ELSE Wanted(D, P, e)

\* Both queues and the frames of a node.
Stocked(me, D, s) ==
  /\ \A e \in Range(s.queue) : Fair(D, s.pool, e)
  /\ \A e \in Range(s.rtqueue) : Wanted(D, s.pool, e)
  /\ Range(s.acks) \subseteq D.due
  /\ \A d \in Devices(me) : \A f \in Range(s.macq[d]) : Genuine(me, d, D, s.pool, f)

\* From s to r the node neither takes in packets nor learns anything.
Stays(me, D, s, r) ==
  /\ r.pool = s.pool /\ r.info = s.info
  /\ Stocked(me, D, s) => Stocked(me, D, r)

\* From s to r the node may take in packets of I and learn of packets of K that
\* who is called by N has them.
Learns(me, D, I, K, N, s, r) ==
  /\ s.pool \subseteq r.pool /\ r.pool \subseteq s.pool \union I
  /\ s.info \subseteq r.info /\ r.info \subseteq s.info \union (K \X N)
  /\ Stocked(me, D, s) => Stocked(me, D, r)

\* One handler after another.
LEMMA StaysChain ==
  ASSUME NEW me, NEW D, NEW s, NEW r, NEW t, Stays(me, D, s, r), Stays(me, D, r, t)
  PROVE  Stays(me, D, s, t)
BY DEF Stays

\* One handler after another, also when they learn.
LEMMA LearnsChain ==
  ASSUME NEW me, NEW D, NEW I, NEW K, NEW N, NEW s, NEW r, NEW t,
         Learns(me, D, I, K, N, s, r), Learns(me, D, I, K, N, r, t)
  PROVE  Learns(me, D, I, K, N, s, t)
BY DEF Learns

\* Who learns nothing may as well learn something.
LEMMA StaysLearns ==
  ASSUME NEW me, NEW D, NEW I, NEW K, NEW N, NEW s, NEW r, Stays(me, D, s, r)
  PROVE  Learns(me, D, I, K, N, s, r)
BY DEF Stays, Learns

\* A larger pool takes nothing away.
LEMMA StocksMove ==
  ASSUME NEW me, NEW D, NEW s, NEW r, Stocked(me, D, s), s.pool \subseteq r.pool,
         \A e \in Range(r.queue) : e \in Range(s.queue) \/ Fair(D, r.pool, e),
         \A e \in Range(r.rtqueue) : e \in Range(s.rtqueue) \/ Wanted(D, r.pool, e),
         Range(r.acks) \subseteq D.due,
         \A d \in Devices(me) : \A f \in Range(r.macq[d]) :
           f \in Range(s.macq[d]) \/ Genuine(me, d, D, r.pool, f)
  PROVE  Stocked(me, D, r)
<1>2. \A d, f : Genuine(me, d, D, s.pool, f) => Genuine(me, d, D, r.pool, f)
  BY DEF Genuine
<1>1. ASSUME NEW e \in Range(r.queue) PROVE Fair(D, r.pool, e)
  <2>1. e \in Range(s.queue) => Fair(D, s.pool, e)
    BY DEF Stocked
  <2>2. Fair(D, s.pool, e) => Fair(D, r.pool, e)
    BY DEF Fair, Wanted
  <2> QED BY <2>1, <2>2
<1>3. ASSUME NEW e \in Range(r.rtqueue) PROVE Wanted(D, r.pool, e)
  <2>1. e \in Range(s.rtqueue) => Wanted(D, s.pool, e)
    BY DEF Stocked
  <2>2. Wanted(D, s.pool, e) => Wanted(D, r.pool, e)
    BY DEF Wanted
  <2> QED BY <2>1, <2>2
<1>4. \A d \in Devices(me) : \A f \in Range(r.macq[d]) : Genuine(me, d, D, r.pool, f)
  BY <1>2 DEF Stocked
<1> QED BY <1>1, <1>3, <1>4 DEF Stocked

\* The queues and frames stay, or entries leave.
LEMMA FewerStays ==
  ASSUME NEW me, NEW D, NEW s, NEW r, r.pool = s.pool, r.info = s.info,
         r.macq = s.macq, r.acks = s.acks,
         Range(r.queue) \subseteq Range(s.queue), Range(r.rtqueue) \subseteq Range(s.rtqueue)
  PROVE  Stays(me, D, s, r)
BY DEF Stays, Stocked

-------------------------------------------------------------------------------
(* Sending                                                                 *)

\* DoSendEnd arms the timer.
LEMMA DoSendEndStays ==
  ASSUME NEW me \in Node, NEW X, NEW s \in Typed(me, X), NEW D
  PROVE  Stays(me, D, s, DoSendEnd(s))
<1> DEFINE r == DoSendEnd(s)
<1>1. s.timer \in {"idle", "running", "due"}
  BY Fields DEF Timer
<1>2. \/ r = s
      \/ r = [s EXCEPT !.timer = "running"]
      \/ s.timer = "due" /\ r = Abort(s, "TimerPending")
  BY <1>1 DEF DoSendEnd
<1>3. /\ r.macq = s.macq /\ r.queue = s.queue /\ r.rtqueue = s.rtqueue
      /\ r.info = s.info /\ r.pool = s.pool /\ r.acks = s.acks
  BY <1>2 DEF Abort, Typed, IState
<1> QED BY <1>3 DEF Stays, Stocked

\* Stopping.
LEMMA AbortStays ==
  ASSUME NEW me \in Node, NEW X, NEW s \in Typed(me, X), NEW D, NEW where
  PROVE  Stays(me, D, s, Abort(s, where))
<1>1. /\ Abort(s, where).pool = s.pool /\ Abort(s, where).info = s.info
      /\ Abort(s, where).macq = s.macq /\ Abort(s, where).timer = s.timer
      /\ Abort(s, where).queue = s.queue /\ Abort(s, where).rtqueue = s.rtqueue
      /\ Abort(s, where).abort = where /\ Abort(s, where).acks = s.acks
  BY DEF Abort, Typed, IState
<1> QED BY <1>1, FewerStays

\* Joining a virtual queue is no matter of the stock.
LEMMA VirtualEntryStays ==
  ASSUME NEW me \in Node, NEW X, NEW s \in Typed(me, X), NEW D, NEW pos \in DOMAIN s.nbrs,
         NEW e \in Entry
  PROVE  /\ Stays(me, D, s, AddVirtualQueueEntry(s, pos, e))
         /\ Stays(me, D, s, AddVirtualQueueEntryFront(s, pos, e))
<1>1. ASSUME NEW r \in {AddVirtualQueueEntry(s, pos, e), AddVirtualQueueEntryFront(s, pos, e)}
      PROVE  Stays(me, D, s, r)
  <2>1. /\ SameMemory(s, r) /\ r.queue = s.queue /\ r.rtqueue = s.rtqueue
    BY VirtualEntryMemory
  <2> QED BY <2>1, FewerStays DEF SameMemory
<1> QED BY <1>1

\* A packet that waits for its acknowledgment is as wanted as before.
LEMMA TakeStays ==
  ASSUME NEW me \in Node, NEW X, NEW s \in Typed(me, X), Tied(s), NEW D, NEW i \in DOMAIN s.nbrs,
         s.nbrs[i].vq # <<>>
  PROVE  /\ Stays(me, D, s, Take(s, i))
         /\ Stocked(me, D, s) => Wanted(D, s.pool, Head(s.nbrs[i].vq))
         /\ Head(s.nbrs[i].vq) \in Range(s.queue)
         /\ Range(Take(s, i).queue) \subseteq Range(s.queue)
<1> DEFINE v == Head(s.nbrs[i].vq)
           rt == IF HitMax(v) THEN s.rtqueue ELSE EnqueueBack(s.rtqueue, v)
           r == Take(s, i)
<1>1. /\ s.nbrs \in Seq(Neighbor) /\ s.nbrs[i].vq \in Seq(Entry)
      /\ s.rtqueue \in Bounded(RtEntry)
  BY Fields, NeighborFields
<1>2. Distinct(s.nbrs[i].vq) /\ Range(s.nbrs[i].vq) \subseteq Waiting(s.queue)
  BY DEF Tied, Linked, Sound
<1>3. v \in Range(s.nbrs[i].vq) /\ v \in Entry
  BY <1>1, <1>2, TailRange
<1>4. v \in Range(s.queue) /\ ~v.hello
  BY <1>2, <1>3 DEF Waiting
<1>5. SameMemory(s, r) /\ Range(r.queue) \subseteq Range(s.queue)
  BY TakeWaits
<1>6. r.rtqueue = rt /\ r.abort = s.abort /\ r.timer = s.timer
  BY DEF Take, Typed, IState
<1> HIDE DEF r, v
<1>7. Range(rt) \subseteq Range(s.rtqueue) \union {v}
  <2>1. CASE HitMax(v)
    BY <2>1
  <2>2. CASE ~HitMax(v)
    <3>1. v \in RtEntry
      BY <1>3, <2>2, EntryFields
    <3> QED BY <1>1, <2>2, <3>1, WaitingEnqueue
  <2> QED BY <2>1, <2>2
<1>8. Stocked(me, D, s) => Wanted(D, s.pool, v)
  BY <1>4 DEF Stocked, Fair
<1>9. Stays(me, D, s, r)
  BY <1>5, <1>6, <1>7, <1>8 DEF Stays, Stocked, SameMemory
<1> QED BY <1>4, <1>5, <1>8, <1>9 DEF r, v

-------------------------------------------------------------------------------
(* Encoding                                                                *)

\* What a frame may carry: packets the node wants at their next hops, and
\* their sum when there are two next hops at most.
Loads(D, P, r) ==
  /\ r.natives # {}
  /\ \A x \in r.natives : x.pid \in P /\ <<x.mac, x.pid>> \in D.legs
  /\ Directed(r)
  /\ TwoDests(D) => Sums(r)

\* e and at most one other packet, and their sum.
OneOrTwo(e, r) ==
  \/ r.natives = {Own(e)} /\ r.payload = {e.id}
  \/ \E v : /\ v.mac # e.dest
            /\ r.natives = {Own(e), v} /\ r.payload = {e.id, v.pid}

\* What the loop of Encode for e, started in s, has gathered.
Mixed(me, D, s, e, r) ==
  /\ Stays(me, D, s, r.s)
  /\ r.first = e.id /\ Own(e) \in r.natives /\ e.id \notin Ids(r.s.queue)
  /\ Directed(r) /\ (r.encoded <=> Coded(r)) /\ (~r.encoded => r.natives = {Own(e)})
  /\ Stocked(me, D, s) =>
       \A x \in r.natives : x.pid \in s.pool /\ <<x.mac, x.pid>> \in D.legs
  /\ Stocked(me, D, s) /\ TwoDests(D) => OneOrTwo(e, r)

\* One or two packets are what a frame may carry.
LEMMA MixedLoads ==
  ASSUME NEW me, NEW D, NEW s, NEW e, NEW r, Mixed(me, D, s, e, r), Stocked(me, D, s)
  PROVE  Loads(D, s.pool, r)
<1>1. /\ Own(e) \in r.natives /\ Directed(r)
      /\ \A x \in r.natives : x.pid \in s.pool /\ <<x.mac, x.pid>> \in D.legs
  BY DEF Mixed
<1>2. ASSUME TwoDests(D) PROVE Sums(r)
  <2>1. Own(e).pid = e.id
    BY DEF Own
  <2>2. OneOrTwo(e, r)
    BY <1>2 DEF Mixed
  <2>3. r.payload = {x.pid : x \in r.natives}
    BY <2>1, <2>2 DEF OneOrTwo
  <2>4. IsFiniteSet(r.payload)
    <3>1. PICK p : r.payload \subseteq {e.id} \union {p}
      BY <2>2 DEF OneOrTwo
    <3> DEFINE T == {e.id} \union {p}
    <3>2. IsFiniteSet(T) /\ r.payload \in SUBSET T
      BY <3>1, FS_Singleton, FS_AddElement
    <3> HIDE DEF T
    <3> QED BY <3>2, FS_Subset
  <2> QED BY <2>3, <2>4 DEF Sums
<1> QED BY <1>1, <1>2 DEF Loads

\* A turn takes in a wanted packet for another next hop, or none.
LEMMA TurnMixes ==
  ASSUME NEW me \in Node, NEW X, NEW n, NEW D, NEW s, NEW e, NEW r \in Codes(me, X, n),
         Tied(r.s), Mixed(me, D, s, e, r), NEW i \in 1..n, NEW q,
         Skips(r, q) \/ Joins(me, r, q, i)
  PROVE  Mixed(me, D, s, e, q)
<1>1. r.s \in Typed(me, X) /\ i \in DOMAIN r.s.nbrs
  BY Fields DEF Codes
<1>2. CASE Skips(r, q)
  <2>1. Stays(me, D, r.s, q.s) /\ q.s.queue = r.s.queue
    <3>1. CASE q.s = r.s
      BY <3>1 DEF Stays
    <3>2. CASE \E where \in Mishaps : q.s = Abort(r.s, where)
      <4>1. PICK where \in Mishaps : q.s = Abort(r.s, where)
        BY <3>2
      <4>3. Stays(me, D, r.s, q.s)
        BY <1>1, <4>1, AbortStays
      <4>4. q.s.queue = r.s.queue
        BY <1>1, <4>1 DEF Abort, Typed, IState
      <4> QED BY <4>3, <4>4
    <3> QED BY <1>2, <3>1, <3>2 DEF Skips
  <2>2. Stays(me, D, s, q.s)
    BY <2>1, StaysChain DEF Mixed
  <2>3. /\ q.natives = r.natives /\ q.first = r.first /\ q.payload = r.payload
        /\ q.dest = r.dest /\ q.encoded = r.encoded
    BY <1>2 DEF Skips
  <2>4. Directed(q) /\ (Coded(q) <=> Coded(r)) /\ (OneOrTwo(e, r) => OneOrTwo(e, q))
    BY <2>3 DEF Directed, Coded, OneOrTwo, Mixed
  <2> QED BY <2>1, <2>2, <2>3, <2>4 DEF Mixed
<1>3. CASE Joins(me, r, q, i)
  <2> DEFINE v == Head(r.s.nbrs[i].vq)
             y == [mac |-> v.dest, pid |-> v.id]
  <2>1. /\ r.s.nbrs[i].vq # <<>> /\ q.s = Take(r.s, i)
        /\ q.natives = r.natives \union {y} /\ \A x \in r.natives : x.mac # v.dest
        /\ q.first = r.first /\ q.payload = XOR({r.first}, {v.id}) /\ q.encoded
        /\ \E t \in r.s.nbrs[i].pairs : t.mac = q.dest
    BY <1>3 DEF Joins, Combines
  <2>2. /\ Stays(me, D, r.s, q.s)
        /\ Stocked(me, D, r.s) => Wanted(D, r.s.pool, v)
        /\ v \in Range(r.s.queue) /\ Range(q.s.queue) \subseteq Range(r.s.queue)
    <3> DEFINE u == r.s
    <3>1. u \in Typed(me, X) /\ Tied(u) /\ i \in DOMAIN u.nbrs /\ u.nbrs[i].vq # <<>>
      BY <1>1, <2>1
    <3> HIDE DEF u
    <3>2. /\ Stays(me, D, u, Take(u, i))
          /\ Stocked(me, D, u) => Wanted(D, u.pool, Head(u.nbrs[i].vq))
          /\ Head(u.nbrs[i].vq) \in Range(u.queue)
          /\ Range(Take(u, i).queue) \subseteq Range(u.queue)
      BY <3>1, TakeStays
    <3> QED BY <2>1, <3>2 DEF u
  <2>3. y.mac = v.dest /\ y.pid = v.id
    OBVIOUS
  <2> HIDE DEF v, y
  <2>4. Stays(me, D, s, q.s)
    BY <2>2, StaysChain DEF Mixed
  <2>5. v.id # e.id /\ e.id \notin Ids(q.s.queue)
    BY <2>2, IdsOfRange DEF Mixed
  <2>6. Stocked(me, D, s) => v.id \in s.pool /\ <<v.dest, v.id>> \in D.legs
    BY <2>2 DEF Mixed, Stays, Wanted
  <2>7. Stocked(me, D, s) =>
          \A x \in q.natives : x.pid \in s.pool /\ <<x.mac, x.pid>> \in D.legs
    BY <2>1, <2>3, <2>6 DEF Mixed
  <2>9. Coded(q) /\ Directed(q)
    <3>1. Own(e) \in q.natives /\ y \in q.natives /\ y # Own(e)
      BY <2>1, <2>3 DEF Mixed
    <3>2. q.dest # Broadcast
      <4>1. r.s.nbrs \in Seq(Neighbor)
        BY <1>1, Fields
      <4>2. r.s.nbrs[i].pairs \in SUBSET Trinity
        BY <1>1, <4>1, NeighborFields
      <4> QED BY <2>1, <4>2 DEF Trinity, Broadcast
    <3>3. \A x, z \in q.natives : x.mac = z.mac => x = z
      BY <2>1, <2>3 DEF Mixed, Directed
    <3> QED BY <3>1, <3>2, <3>3 DEF Coded, Directed
  <2>8. ASSUME Stocked(me, D, s), TwoDests(D) PROVE OneOrTwo(e, q)
    <3>1. Own(e) \in r.natives /\ Own(e).mac = e.dest
      BY DEF Mixed, Own
    <3>2. v.dest # e.dest /\ <<v.dest, v.id>> \in D.legs
      BY <2>1, <2>6, <2>8, <3>1
    <3>3. ASSUME NEW w, w.mac # e.dest, r.natives = {Own(e), w} PROVE FALSE
      <4>1. <<w.mac, w.pid>> \in D.legs /\ <<e.dest, Own(e).pid>> \in D.legs
        BY <2>8, <3>1, <3>3 DEF Mixed
      <4>2. w.mac # v.dest
        BY <2>1, <3>3
      <4> QED BY <2>8, <3>2, <3>3, <4>1, <4>2 DEF TwoDests
    <3>4. r.natives = {Own(e)}
      BY <2>8, <3>3 DEF Mixed, OneOrTwo
    <3>5. q.natives = {Own(e), y}
      BY <2>1, <3>4
    <3>6. q.payload = {e.id, v.id}
      BY <2>1, <2>5 DEF XOR, Mixed
    <3> QED BY <2>3, <3>2, <3>5, <3>6 DEF OneOrTwo
  <2> QED BY <2>1, <2>4, <2>5, <2>7, <2>8, <2>9 DEF Mixed
<1> QED BY <1>2, <1>3

\* Encode for a packet the node wants.
LEMMA EncodeLoads ==
  ASSUME NEW me \in Node, NEW X, NEW s \in Typed(me, X), Tied(s), NEW D, NEW e \in Entry,
         ~e.hello, e.dest # Broadcast, SearchMac(s.nbrs, e.dest) # 0,
         e.id \notin Ids(s.queue), Stocked(me, D, s) => Wanted(D, s.pool, e)
  PROVE  LET r == Encode(s, e)
         IN  /\ Stays(me, D, s, r.s)
             /\ Stocked(me, D, s) => Loads(D, s.pool, r)
             /\ r.encoded <=> Coded(r)
             /\ ~r.encoded => r.natives = {Own(e)}
<1> DEFINE n == Len(s.nbrs)
           Collects0(r) == Coding(s, r) /\ Mixed(me, D, s, e, r)
<1>1. PICK f : /\ EncodesBy(f, s, e)
               /\ \A i \in 0..n : f[i] \in Codes(me, X, n)
  BY EncodeRuns
<1>2. n \in Nat /\ s.nbrs \in Seq(Neighbor)
  BY Fields
<1>3. f[0] = EncodeStart(s, e)
  BY <1>1 DEF EncodesBy
<1>4. Collects0(f[0])
  <2>1. /\ f[0].s = s /\ f[0].natives = {Own(e)} /\ f[0].payload = {e.id}
        /\ f[0].first = e.id /\ f[0].dest = e.dest /\ ~f[0].encoded
    BY <1>3 DEF EncodeStart, Own
  <2>2. Own(e).mac = e.dest /\ Own(e).pid = e.id
    BY DEF Own
  <2>5. Directed(f[0]) /\ ~Coded(f[0])
    BY <2>1, <2>2 DEF Directed, Coded
  <2>6. Stays(me, D, s, f[0].s)
    BY <2>1 DEF Stays
  <2>7. Stocked(me, D, s) =>
          \A x \in f[0].natives : x.pid \in s.pool /\ <<x.mac, x.pid>> \in D.legs
    BY <2>1, <2>2 DEF Wanted
  <2>3. Mixed(me, D, s, e, f[0])
    BY <2>1, <2>2, <2>5, <2>6, <2>7 DEF Mixed, OneOrTwo
  <2>4. Coding(s, f[0])
    BY <1>3, EncodeStartCoding
  <2> QED BY <2>3, <2>4
<1> DEFINE T == {i \in 0..n : Collects0(f[i])}
<1>5. 0 \in T
  BY <1>2, <1>4
<1>6. ASSUME NEW i \in 1..n, i - 1 \in T PROVE i \in T
  <2> DEFINE r == f[i - 1]
             q == f[i]
  <2>1. q = EncodeWith(r, i) /\ r \in Codes(me, X, n) /\ Collects0(r)
    BY <1>1, <1>6 DEF EncodesBy
  <2> HIDE DEF r, q
  <2>2. Coding(s, q)
    BY <2>1, EncodeWithCoding
  <2>3. Skips(r, q) \/ Joins(me, r, q, i)
    BY <2>1, EncodeTurn
  <2>4. Tied(r.s)
    BY <2>1 DEF Coding, Keeps
  <2>5. Mixed(me, D, s, e, q)
    BY <2>1, <2>3, <2>4, TurnMixes
  <2>6. i \in 0..n
    BY <1>2
  <2> QED BY <2>2, <2>5, <2>6 DEF q
<1>7. Collects0(f[n])
  <2> HIDE DEF T
  <2>1. 0..n \subseteq T
    BY <1>2, <1>5, <1>6, RangeInduction
  <2> QED BY <1>2, <2>1 DEF T
<1> DEFINE r == f[n]
           out == Encode(s, e)
<1>8. r \in Codes(me, X, n) /\ r.s \in Typed(me, X)
  <2>1. r \in Codes(me, X, n)
    BY <1>1, <1>2
  <2> QED BY <2>1 DEF Codes
<1>9. out = IF Running(r.s) /\ r.encoded /\ ~HitMax(e)
            THEN [r EXCEPT !.s.rtqueue = EnqueueBack(@, e)]
            ELSE r
  BY <1>1 DEF EncodesBy
<1>10. Mixed(me, D, s, e, r)
  BY <1>7
<1> HIDE DEF r, out, Collects0, T
<1>11. /\ out.natives = r.natives /\ out.payload = r.payload /\ Stays(me, D, s, out.s)
       /\ out.dest = r.dest /\ out.encoded = r.encoded
  <2>1. CASE Running(r.s) /\ r.encoded /\ ~HitMax(e)
    <3> DEFINE b == EnqueueBack(r.s.rtqueue, e)
               u == [r.s EXCEPT !.rtqueue = b]
    <3>1. r.s.rtqueue \in Bounded(RtEntry) /\ e \in RtEntry
      BY <1>8, <2>1, Fields, EntryFields
    <3>2. Range(b) \subseteq Range(r.s.rtqueue) \union {e}
      BY <3>1, WaitingEnqueue
    <3>3. out = [r EXCEPT !.s = u]
      BY <1>9, <2>1
    <3> HIDE DEF b
    <3>4. /\ u.rtqueue = b /\ u.macq = r.s.macq /\ u.queue = r.s.queue /\ u.pool = r.s.pool
          /\ u.acks = r.s.acks /\ u.info = r.s.info /\ u.abort = r.s.abort /\ u.timer = r.s.timer
      BY <1>8 DEF Typed, IState
    <3> HIDE DEF u
    <3>5. Stays(me, D, s, r.s)
      BY <1>10 DEF Mixed
    <3>6. Stays(me, D, s, u)
      BY <3>2, <3>4, <3>5 DEF Stays, Stocked
    <3>7. /\ out.s = u /\ out.natives = r.natives /\ out.payload = r.payload
          /\ out.dest = r.dest /\ out.encoded = r.encoded
      BY <1>8, <3>3 DEF Codes
    <3> QED BY <3>6, <3>7
  <2>2. CASE ~(Running(r.s) /\ r.encoded /\ ~HitMax(e))
    BY <1>9, <1>10, <2>2 DEF Mixed
  <2> QED BY <2>1, <2>2
<1>12. Stocked(me, D, s) => Loads(D, s.pool, r)
  BY <1>10, MixedLoads
<1>13. (r.encoded <=> Coded(r)) /\ (~r.encoded => r.natives = {Own(e)})
  BY <1>10 DEF Mixed
<1> QED BY <1>11, <1>12, <1>13 DEF Loads, Sums, Directed, Coded, out

\* A frame for a radio is one more that the node may send.
LEMMA TransmitStays ==
  ASSUME NEW me \in Node, NEW X, NEW D, NEW r, r.s \in Typed(me, X), r.iface \in Devices(me),
         r.natives \in SUBSET Native, r.payload \in SUBSET Pid, r.dest \in Nat
  PROVE  /\ Transmit(r).pool = r.s.pool /\ Transmit(r).info = r.s.info
         /\ Stocked(me, D, r.s) /\ Loads(D, r.s.pool, r) => Stocked(me, D, Transmit(r))
<1> DEFINE s == r.s
           t == Transmit(r)
           d == r.iface
<1>1. PICK f \in Frame : HandsOver(r, t, f)
  BY TransmitHands
<1>2. /\ t.macq = [s.macq EXCEPT ![d] = Append(@, f)]
      /\ f.natives = r.natives /\ f.payload = r.payload /\ f.dest = r.dest /\ ~f.hello
      /\ Range(s.acks) = Range(t.acks) \union Range(f.acks)
      /\ f.from = s.me /\ f.src = RadiosOf[s.me][d].mac
      /\ t.queue = s.queue /\ t.rtqueue = s.rtqueue /\ t.timer = s.timer
      /\ t.info = s.info /\ t.pool = s.pool /\ t.abort = s.abort
  BY <1>1 DEF HandsOver
<1>3. s.me = me /\ s.macq \in [Devices(me) -> Seq(Frame)] /\ s.macq[d] \in Seq(Frame)
  BY Fields
<1> HIDE DEF t, d
<1>4. Range(Append(s.macq[d], f)) = Range(s.macq[d]) \union {f}
  BY <1>3, AppendRange
<1>5. \A x \in Devices(me) : Range(t.macq[x]) \subseteq
        IF x = d THEN Range(s.macq[d]) \union {f} ELSE Range(s.macq[x])
  BY <1>2, <1>3, <1>4
<1> HIDE DEF s
<1>6. Stocked(me, D, s) /\ Loads(D, s.pool, r) => Genuine(me, d, D, s.pool, f)
  BY <1>2, <1>3 DEF Loads, Genuine, Sums, Directed, Coded, Stocked
<1>7. Stocked(me, D, s) /\ Loads(D, s.pool, r) => Stocked(me, D, t)
  BY <1>2, <1>5, <1>6 DEF Stocked, Fair, Wanted
<1> QED BY <1>2, <1>7 DEF s, t

\* The packet that goes back to the queue is wanted.
LEMMA PutBackStays ==
  ASSUME NEW me \in Node, NEW X, NEW s \in Typed(me, X), NEW D, NEW e \in Entry,
         ~e.hello,
         Stocked(me, D, s) => Wanted(D, s.pool, e)
  PROVE  Stays(me, D, s, PutBack(s, e))
<1> DEFINE q == EnqueueFront(s.queue, e)
           u == [s EXCEPT !.queue = q]
           pos == SearchMac(u.nbrs, e.dest)
<1>1. s.queue \in Bounded(Entry) /\ q \in Bounded(Entry)
  BY Fields, EnqueueFrontBounded
<1>2. Range(q) \subseteq Range(s.queue) \union {e} /\ q[1] \in Entry
  <2>1. Range(q) \subseteq Range(s.queue) \union {e} /\ (Accepts(s.queue, e) => q[1] = e)
    BY <1>1, WaitingEnqueue
  <2>2. ~Accepts(s.queue, e) => q[1] \in Entry
    <3>1. SUFFICES ASSUME ~Accepts(s.queue, e) PROVE s.queue[1] \in Entry
      BY DEF EnqueueFront
    <3>2. s.queue # <<>>
      BY <3>1, BoundsAssumption DEF Accepts, Ids
    <3> QED BY <1>1, <3>2 DEF Bounded
  <2> QED BY <2>1, <2>2
<1>3. PutBack(s, e) = IF e.dest = Broadcast THEN u
                      ELSE IF pos = 0 THEN Abort(u, "NeighborGone")
                      ELSE AddVirtualQueueEntryFront(u, pos, u.queue[1])
  BY DEF PutBack
<1> HIDE DEF q
<1>4. u \in Typed(me, X)
  BY <1>1, UpdateTyped
<1>5. /\ u.queue = q /\ u.rtqueue = s.rtqueue /\ u.abort = s.abort /\ u.timer = s.timer
      /\ u.macq = s.macq /\ u.pool = s.pool /\ u.info = s.info /\ u.acks = s.acks
  BY DEF Typed, IState
<1> HIDE DEF u
<1>6. Stays(me, D, s, u)
  <2>1. ASSUME Stocked(me, D, s) PROVE Stocked(me, D, u)
    <3>1. Fair(D, u.pool, e)
      BY <1>5, <2>1 DEF Fair, Wanted
    <3>2. /\ s.pool \subseteq u.pool
          /\ Range(u.acks) \subseteq D.due
      BY <1>5, <2>1 DEF Stocked
    <3> QED BY <1>2, <1>5, <2>1, <3>1, <3>2, StocksMove
  <2> QED BY <1>5, <2>1 DEF Stays
<1>7. pos # 0 => pos \in DOMAIN u.nbrs
  BY <1>4, Fields, SearchMacProperties
<1> HIDE DEF pos
<1>8. Stays(me, D, u, Abort(u, "NeighborGone"))
  BY <1>4, AbortStays
<1>9. pos # 0 => Stays(me, D, u, AddVirtualQueueEntryFront(u, pos, u.queue[1]))
  BY <1>2, <1>4, <1>5, <1>7, VirtualEntryStays
<1> QED BY <1>3, <1>6, <1>8, <1>9, StaysChain

\* A wanted packet is sent, coded or not, or put back.
LEMMA SendDataStays ==
  ASSUME NEW me \in Node, NEW X, NEW s \in Typed(me, X), Running(s), Tied(s), NEW D,
         NEW e \in Entry, ~e.hello, Accepts(s.queue, e),
         e.dest # Broadcast => /\ SearchMac(s.nbrs, e.dest) # 0
                               /\ <<e.id, NameIn(s.nbrs, e.dest)>> \notin s.info,
         Stocked(me, D, s) => Wanted(D, s.pool, e)
  PROVE  Stays(me, D, s, SendData(s, e))
<1> DEFINE r == IF s.queue # <<>> /\ e.dest # Broadcast THEN Encode(s, e) ELSE Plain(s, e)
           Q == Range(s.queue) \union {e}
           b == PutBack(s, e)
           t == Transmit(r)
           u == r.s
<1>1. /\ u \in Typed(me, X) /\ Composes(me, Q, s, e, r)
      /\ r.natives \in SUBSET Native /\ r.payload \in SUBSET Pid /\ r.dest \in Nat
      /\ Stays(me, D, s, u)
      /\ Stocked(me, D, s) => Loads(D, s.pool, r)
  <2>1. CASE s.queue # <<>> /\ e.dest # Broadcast
    BY <2>1, EncodeType, EncodeComposes, EncodeLoads DEF Accepts
  <2>2. CASE ~(s.queue # <<>> /\ e.dest # Broadcast)
    <3>1. r = Plain(s, e)
      BY <2>2
    <3>2. Composes(me, Q, s, e, r)
      BY <3>1, PlainComposes
    <3>3. /\ r.s = s /\ r.natives = {Own(e)} /\ r.payload = {e.id} /\ r.dest = e.dest
          /\ Own(e).mac = e.dest /\ Own(e).pid = e.id /\ Own(e) \in Native
          /\ e.id \in Pid /\ e.dest \in Nat
      BY <3>1, EntryFields DEF Plain, Own
    <3> HIDE DEF r, Q
    <3>4. Stays(me, D, s, s)
      BY DEF Stays
    <3>5. IsFiniteSet(r.payload) /\ Directed(r)
      BY <3>3, FS_Singleton DEF Directed, Coded
    <3>6. Stocked(me, D, s) => Loads(D, s.pool, r)
      BY <3>3, <3>5 DEF Loads, Wanted, Sums
    <3> QED BY <3>2, <3>3, <3>4, <3>6
  <2> QED BY <2>1, <2>2
<1>2. SendData(s, e) =
        IF ~Running(r.s) THEN r.s
        ELSE IF ~r.encoded /\ e.iface \notin DevicesIf(s) THEN DoSendEnd(PutBack(s, e))
        ELSE DoSendEnd(Transmit(r))
  BY DEF SendData
<1> HIDE DEF r
<1>3. s.me = me
  BY Fields
<1>4. Stays(me, D, s, DoSendEnd(b))
  <2>1. b \in Typed(me, X) /\ Stays(me, D, s, b)
    BY PutBackTyped, PutBackStays
  <2> HIDE DEF b
  <2> QED BY <2>1, DoSendEndStays, StaysChain
<1>5. CASE ~Running(u)
  BY <1>1, <1>2, <1>5
<1>6. CASE Running(u) /\ ~r.encoded /\ e.iface \notin DevicesIf(s)
  BY <1>2, <1>4, <1>6
<1>7. CASE Running(u) /\ ~(~r.encoded /\ e.iface \notin DevicesIf(s))
  <2>1. r.iface \in Devices(me)
    BY <1>1, <1>3, <1>7 DEF Composes, DevicesIf
  <2>2. /\ t.pool = u.pool /\ t.info = u.info
        /\ Stocked(me, D, u) /\ Loads(D, u.pool, r) => Stocked(me, D, t)
    BY <1>1, <2>1, TransmitStays
  <2>3. t \in Typed(me, X)
    BY <1>1, <1>7, TransmitTyped
  <2> HIDE DEF t, u
  <2>4. Stays(me, D, s, t)
    BY <1>1, <2>2 DEF Stays
  <2>5. Stays(me, D, s, DoSendEnd(t))
    BY <2>3, <2>4, DoSendEndStays, StaysChain
  <2> QED BY <1>2, <1>7, <2>5 DEF t, u
<1> QED BY <1>5, <1>6, <1>7

\* A packet for a known next hop leaves both its queues, to be sent or dropped.
LEMMA SendUnicastStays ==
  ASSUME NEW me \in Node, NEW X, NEW s \in Good(me, X), Running(s), Tied(s), NEW D,
         Stocked(me, D, s), s.queue # <<>>, ~Head(s.queue).hello, Head(s.queue).dest # Broadcast
  PROVE  Stays(me, D, s, SendUnicast(s, Head(s.queue)))
<1> DEFINE e == Head(s.queue)
           pos == SearchMac(s.nbrs, e.dest)
           u == Dequeued(s, pos, e.id)
           r == SendUnicast(s, e)
<1>1. s \in Typed(me, X) /\ s.nbrs \in Seq(Neighbor) /\ s.queue \in Bounded(Entry)
  BY Fields DEF Good
<1>2. /\ Range(Tail(s.queue)) \subseteq Range(s.queue) /\ e \in Range(s.queue) /\ e \in Entry
      /\ Accepts(Tail(s.queue), e) /\ ~e.hello /\ e.dest # Broadcast
  BY <1>1, WaitingTail
<1>3. r = IF pos = 0 THEN Abort(s, "NeighborMissing")
          ELSE IF e.id \notin Ids(s.nbrs[pos].vq) THEN Abort(s, "VirtualQueueRemove")
          ELSE IF Knows(s, e.id, s.nbrs[pos]) THEN DoSendEnd(u) ELSE SendData(u, e)
  BY DEF SendUnicast, Dequeued
<1>4. pos # 0 => pos \in DOMAIN s.nbrs /\ HasMac(s.nbrs[pos], e.dest)
  BY <1>1, SearchMacProperties
<1>5. /\ Stays(me, D, s, Abort(s, "NeighborMissing"))
      /\ Stays(me, D, s, Abort(s, "VirtualQueueRemove"))
  BY <1>1, AbortStays
<1>6. ASSUME pos # 0, e.id \in Ids(s.nbrs[pos].vq)
      PROVE  /\ Stays(me, D, s, DoSendEnd(u))
             /\ ~Knows(s, e.id, s.nbrs[pos]) => Stays(me, D, s, SendData(u, e))
  <2>1. u \in Typed(me, X) /\ Running(u) /\ SearchMac(u.nbrs, e.dest) # 0
    <3> HIDE DEF u
    <3>1. SearchMac(s.nbrs, e.dest) = pos
      OBVIOUS
    <3> HIDE DEF pos, e
    <3> QED BY <1>1, <1>4, <1>6, <3>1, DequeueTyped DEF u
  <2>2. /\ SameMemory(s, u) /\ u.rtqueue = s.rtqueue /\ u.queue = Tail(s.queue)
        /\ SameRadios(s.nbrs, u.nbrs) /\ u.abort = s.abort
    <3>1. pos \in DOMAIN s.nbrs
      BY <1>4, <1>6
    <3> HIDE DEF pos, e
    <3> QED BY <1>1, <3>1, DequeueMoves
  <2>3. u.timer = s.timer
    BY <1>1 DEF Dequeued, Typed, IState
  <2>4. Tied(u)
    <3>1. pos \in DOMAIN s.nbrs /\ pos = SearchMac(s.nbrs, e.dest)
      BY <1>4, <1>6
    <3> HIDE DEF pos, u
    <3>2. Keeps(s, Dequeued(s, pos, Head(s.queue).id))
      BY <1>1, <1>6, <3>1, DequeueKeeps
    <3> QED BY <3>2 DEF u, Keeps
  <2>5. NameIn(u.nbrs, e.dest) = GetMac(s.nbrs[pos])
    <3>1. Remembers(s.nbrs, e.dest)
      BY <1>4, <1>6 DEF Remembers
    <3>2. NameIn(s.nbrs, e.dest) = GetMac(s.nbrs[pos])
      BY DEF NameIn, OwnerIn
    <3> HIDE DEF u
    <3> QED BY <1>1, <2>2, <3>1, <3>2, SameOwner
  <2> HIDE DEF u, pos, e
  <2>6. Stays(me, D, s, u)
    BY <1>2, <2>2, <2>3, FewerStays DEF SameMemory
  <2>7. Stays(me, D, u, DoSendEnd(u))
    BY <2>1, DoSendEndStays
  <2>8. ASSUME ~Knows(s, e.id, s.nbrs[pos]) PROVE Stays(me, D, u, SendData(u, e))
    <3>1. <<e.id, NameIn(u.nbrs, e.dest)>> \notin u.info
      BY <2>2, <2>5, <2>8 DEF Knows, SameMemory
    <3>2. Wanted(D, u.pool, e)
      BY <1>2, <2>2 DEF Stocked, Fair, SameMemory
    <3> QED BY <1>2, <2>1, <2>2, <2>4, <3>1, <3>2, SendDataStays
  <2> QED BY <2>6, <2>7, <2>8, StaysChain
<1> HIDE DEF u, pos, e, r
<1> QED BY <1>3, <1>5, <1>6 DEF r, e

\* A hello is sent, or waits for its radio.
LEMMA SendHelloEntryStays ==
  ASSUME NEW me \in Node, NEW X, NEW s \in Typed(me, X), NEW D, s.queue # <<>>,
         Head(s.queue).hello
  PROVE  Stays(me, D, s, SendHelloEntry(s, Head(s.queue)))
<1> DEFINE e == Head(s.queue)
           d == e.iface
           f == HelloFrame(s, d)
           r == SendHelloEntry(s, e)
<1>1. /\ s.queue \in Bounded(Entry) /\ s.me = me
      /\ Range(Tail(s.queue)) \subseteq Range(s.queue)
      /\ s.macq \in [Devices(me) -> Seq(Frame)]
  BY Fields, WaitingTail
<1>2. CASE e.iface \notin DevicesIf(s)
  BY <1>2 DEF SendHelloEntry, Stays
<1>3. CASE e.iface \in DevicesIf(s)
  <2>1. d \in Devices(me)
    BY <1>1, <1>3 DEF DevicesIf
  <2>2. f \in Frame
    <3>1. RadiosOf[me] \in Seq(Trinity) /\ d \in 1..Len(RadiosOf[me])
      BY <2>1, RadiosAssumption DEF Devices
    <3>2. RadiosOf[me][d] \in Trinity
      BY <3>1
    <3> QED BY <1>1, <2>1, <3>2 DEF Frame, HelloFrame, Trinity, Broadcast
  <2>3. /\ f.from = me /\ f.src = RadiosOf[me][d].mac /\ f.hello /\ f.natives = {}
        /\ f.payload = {} /\ f.acks = <<>>
    BY <1>1 DEF HelloFrame
  <2>4. /\ r.macq = [s.macq EXCEPT ![d] = Append(@, f)]
        /\ r.queue = Tail(s.queue) /\ r.rtqueue = s.rtqueue /\ r.timer = s.timer
        /\ r.info = s.info /\ r.pool = s.pool /\ r.abort = s.abort /\ r.acks = s.acks
    BY <1>3 DEF SendHelloEntry, ForwardDown, Typed, IState
  <2> HIDE DEF r, f, d
  <2>5. Range(Append(s.macq[d], f)) = Range(s.macq[d]) \union {f}
    BY <1>1, <2>1, <2>2, AppendRange
  <2>6. \A x \in Devices(me) : Range(r.macq[x]) \subseteq
          IF x = d THEN Range(s.macq[d]) \union {f} ELSE Range(s.macq[x])
    BY <1>1, <2>1, <2>4, <2>5
  <2>7. Genuine(me, d, D, s.pool, f)
    <3>1. Directed(f) /\ Range(f.acks) = {}
      BY <2>3 DEF Directed, Coded, Range
    <3> QED BY <2>3, <3>1, FS_EmptySet DEF Genuine, Sums
  <2> QED BY <1>1, <2>4, <2>6, <2>7 DEF Stays, Stocked, r, e
<1> QED BY <1>2, <1>3

\* A sending attempt.
LEMMA TrySendStays ==
  ASSUME NEW me \in Node, NEW X, NEW s \in Good(me, X), Tied(s), NEW D, Stocked(me, D, s)
  PROVE  Stays(me, D, s, TrySend(s))
<1> DEFINE e == Head(s.queue)
           u == [s EXCEPT !.queue = Tail(@)]
           h == SendHelloEntry(s, e)
<1>1. s \in Typed(me, X) /\ s.queue \in Bounded(Entry)
  BY Fields DEF Good
<1>2. CASE ~(Running(s) /\ DevicesIf(s) # {} /\ s.queue # <<>>)
  BY <1>2 DEF TrySend, Stays
<1>3. CASE Running(s) /\ DevicesIf(s) # {} /\ s.queue # <<>>
  <2>1. TrySend(s) = IF e.hello THEN DoSendEnd(h)
                     ELSE IF e.dest = Broadcast THEN SendData(u, e)
                     ELSE SendUnicast(s, e)
    BY <1>3 DEF TrySend, DoSend
  <2>2. ASSUME e.hello PROVE Stays(me, D, s, DoSendEnd(h))
    <3>1. h \in Typed(me, X) /\ Stays(me, D, s, h)
      BY <1>1, <1>3, <2>2, SendHelloEntryTyped, SendHelloEntryStays
    <3> HIDE DEF h
    <3> QED BY <3>1, DoSendEndStays, StaysChain
  <2>3. ASSUME ~e.hello, e.dest = Broadcast PROVE Stays(me, D, s, SendData(u, e))
    <3>1. /\ Tail(s.queue) \in Bounded(Entry)
          /\ Waiting(Tail(s.queue)) = Waiting(s.queue) \ {e} /\ e \in Entry
          /\ e \in Range(s.queue) /\ Range(Tail(s.queue)) \subseteq Range(s.queue)
          /\ Accepts(Tail(s.queue), e)
      BY <1>1, <1>3, TailBounded, WaitingTail
    <3>2. /\ u.nbrs = s.nbrs /\ u.queue = Tail(s.queue) /\ u.rtqueue = s.rtqueue
          /\ u.abort = s.abort /\ u.timer = s.timer /\ SameMemory(s, u)
      BY <1>1 DEF Typed, IState, SameMemory
    <3>3. u \in Typed(me, X) /\ Running(u)
      BY <1>1, <1>3, <3>1, UpdateTyped DEF Running, Typed, IState
    <3> HIDE DEF u
    <3>4. Tied(u)
      <4>1. Waiting(u.queue) = Waiting(s.queue)
        BY <2>3, <3>1, <3>2 DEF Waiting
      <4> QED BY <3>2, <4>1, SameKeeps DEF Same, Keeps
    <3>5. Stays(me, D, s, u)
      BY <3>1, <3>2, FewerStays DEF SameMemory
    <3>6. Wanted(D, u.pool, e)
      BY <2>3, <3>1, <3>2 DEF Stocked, Fair, SameMemory
    <3> HIDE DEF e
    <3>7. Stays(me, D, u, SendData(u, e))
      BY <2>3, <3>1, <3>2, <3>3, <3>4, <3>6, SendDataStays
    <3> QED BY <3>5, <3>7, StaysChain
  <2>4. ASSUME ~e.hello, e.dest # Broadcast PROVE Stays(me, D, s, SendUnicast(s, e))
    BY <1>3, <2>4, SendUnicastStays
  <2> HIDE DEF h, u, e
  <2> QED BY <2>1, <2>2, <2>3, <2>4
<1> QED BY <1>2, <1>3

-------------------------------------------------------------------------------
(* The other events of a node                                              *)

\* A packet of IP for a next hop is held, and waits.
LEMMA QueuedLearns ==
  ASSUME NEW me \in Node, NEW X, NEW s \in Good(me, X), NEW D, NEW x \in Sendable(me),
         <<x.dest, x.id>> \in D.legs, NEW I, x.id \in I, NEW K, NEW N
  PROVE  Learns(me, D, I, K, N, s, Queued(s, x))
<1> DEFINE e == [id |-> x.id, dest |-> x.dest, iface |-> x.iface, retry |-> 0, hello |-> FALSE]
           q == EnqueueBack(s.queue, e)
           a == [s EXCEPT !.queue = q]
           u == [a EXCEPT !.pool = @ \union {x.id}]
           pos == SearchMac(u.nbrs, x.dest)
           nbr == [pairs |-> {[ip |-> NoIP, mac |-> x.dest, channel |-> Channel(u, x.iface)]},
                   vq |-> <<e>>]
           v == [u EXCEPT !.nbrs = AddNeighbor(@, nbr)]
           w == AddVirtualQueueEntry(u, pos, e)
<1>1. s \in Typed(me, X) /\ s.queue \in Bounded(Entry)
  BY Fields DEF Good
<1>2. x.id \in Pid /\ x.dest \in Nat /\ x.iface \in Nat \ {0}
  BY DEF Sendable, IPSend
<1>3. e \in Entry /\ e.id = x.id /\ e.dest = x.dest /\ ~e.hello
  BY <1>2 DEF Entry, MaxRetry
<1>4. Queued(s, x) = IF ~Accepts(s.queue, e) THEN s
                     ELSE IF x.dest = Broadcast THEN u
                     ELSE IF pos = 0 THEN v
                     ELSE w
  BY <1>1 DEF Queued, AddVirtual, Typed, IState
<1> HIDE DEF e
<1>5. q \in Bounded(Entry) /\ Range(q) \subseteq Range(s.queue) \union {e}
  BY <1>1, <1>3, EnqueueBackBounded, WaitingEnqueue
<1> HIDE DEF q
<1>6. a \in Good(me, X)
  BY <1>5, UpdateGood
<1>7. u \in Typed(me, X)
  <2> HIDE DEF a
  <2> QED BY <1>2, <1>6, PoolGrows DEF Good
<1>8. /\ u.macq = s.macq /\ u.info = s.info /\ u.pool = s.pool \union {x.id} /\ u.queue = q
      /\ u.rtqueue = s.rtqueue /\ u.abort = s.abort /\ u.timer = s.timer /\ u.acks = s.acks
  BY <1>1 DEF Typed, IState
<1> HIDE DEF u, nbr
<1>9. Learns(me, D, I, K, N, s, u)
  <2>1. Fair(D, u.pool, e)
    <3>1. <<e.dest, e.id>> \in D.legs
      BY <1>3
    <3>2. e.id \in u.pool
      BY <1>3, <1>8
    <3>3. Wanted(D, u.pool, e)
      BY <3>1, <3>2 DEF Wanted
    <3> QED BY <1>3, <3>3 DEF Fair
  <2>2. Stocked(me, D, s) => Stocked(me, D, u)
    <3> SUFFICES ASSUME Stocked(me, D, s) PROVE Stocked(me, D, u)
      OBVIOUS
    <3>1. /\ s.pool \subseteq u.pool
          /\ Range(u.acks) \subseteq D.due
      BY <1>8 DEF Stocked
    <3> QED BY <1>5, <1>8, <2>1, <3>1, StocksMove
  <2> QED BY <1>8, <2>2 DEF Learns
<1>10. Stays(me, D, u, v)
  <2>1. /\ v.macq = u.macq /\ v.info = u.info /\ v.pool = u.pool /\ v.queue = u.queue
        /\ v.rtqueue = u.rtqueue /\ v.abort = u.abort /\ v.timer = u.timer /\ v.acks = u.acks
    BY <1>7 DEF Typed, IState
  <2> HIDE DEF v
  <2> QED BY <2>1, FewerStays
<1>11. pos # 0 => Stays(me, D, u, w)
  <2>1. pos # 0 => pos \in DOMAIN u.nbrs
    BY <1>7, Fields, SearchMacProperties
  <2> HIDE DEF pos
  <2> QED BY <1>3, <1>7, <2>1, VirtualEntryStays
<1>12. Learns(me, D, I, K, N, s, s)
  BY DEF Learns
<1> HIDE DEF v, w, pos
<1> QED BY <1>4, <1>9, <1>10, <1>11, <1>12, StaysLearns, LearnsChain

\* IP sends a packet to a next hop.
LEMMA EnqueueDataLearns ==
  ASSUME NEW me \in Node, NEW X, NEW s \in Good(me, X), Tied(s), NEW D, Stocked(me, D, s),
         NEW x \in Sendable(me), <<x.dest, x.id>> \in D.legs, NEW I, x.id \in I, NEW K, NEW N
  PROVE  Learns(me, D, I, K, N, s, EnqueueData(s, x))
<1> DEFINE u == Queued(s, x)
<1>1. Keeps(s, u) /\ u \in Good(me, X) /\ EnqueueData(s, x) = TrySend(u)
  BY QueuedKeeps
<1>2. Learns(me, D, I, K, N, s, u)
  BY QueuedLearns
<1> HIDE DEF u
<1>3. Stays(me, D, u, TrySend(u))
  BY <1>1, <1>2, TrySendStays DEF Keeps, Learns
<1> QED BY <1>1, <1>2, <1>3, StaysLearns, LearnsChain

\* A hello for one radio.
LEMMA EnqueueHelloStays ==
  ASSUME NEW me \in Node, NEW X, NEW s \in Good(me, X), Tied(s), NEW D, Stocked(me, D, s),
         NEW d \in Devices(me), NEW id \in HelloIds
  PROVE  Stays(me, D, s, EnqueueHello(s, d, id))
<1> DEFINE e == [id |-> id, dest |-> Broadcast, iface |-> d, retry |-> 0, hello |-> TRUE]
           q == EnqueueFront(s.queue, e)
           a == [s EXCEPT !.queue = q]
<1>1. s \in Typed(me, X) /\ s.queue \in Bounded(Entry)
  BY Fields DEF Good
<1>2. e \in Entry /\ e.hello /\ e.id \in HelloIds
  <2>1. d \in Nat \ {0} /\ id \in Pid
    BY MediumAssumption DEF Devices
  <2> QED BY <2>1 DEF Entry, MaxRetry, Broadcast
<1>3. EnqueueHello(s, d, id) = IF ~Running(s) THEN s ELSE TrySend(a)
  BY DEF EnqueueHello
<1> HIDE DEF e
<1>4. q \in Bounded(Entry) /\ (q = s.queue \/ Range(q) = Range(s.queue) \union {e})
  BY <1>1, <1>2, EnqueueFrontBounded, WaitingEnqueue
<1> HIDE DEF q
<1>5. a \in Good(me, X)
  BY <1>4, UpdateGood
<1>6. /\ a.nbrs = s.nbrs /\ a.queue = q /\ a.rtqueue = s.rtqueue /\ a.abort = s.abort
      /\ a.timer = s.timer /\ SameMemory(s, a)
  BY <1>1 DEF Typed, IState, SameMemory
<1> HIDE DEF a
<1>7. Tied(a)
  <2>1. Same(s, a)
    BY <1>2, <1>4, <1>6 DEF Same, Waiting
  <2> QED BY <2>1, SameKeeps DEF Keeps
<1>8. Stays(me, D, s, a)
  BY <1>2, <1>4, <1>6 DEF Stays, Stocked, Fair, SameMemory
<1>9. Stays(me, D, a, TrySend(a))
  BY <1>5, <1>7, <1>8, TrySendStays DEF Stays
<1>10. Stays(me, D, s, TrySend(a))
  BY <1>8, <1>9, StaysChain
<1> QED BY <1>3, <1>10 DEF Stays

\* A hello for every radio.
LEMMA SendHelloStays ==
  ASSUME NEW me \in Node, NEW X, NEW s \in Good(me, X), Tied(s), NEW D, Stocked(me, D, s),
         NEW ids \in [Devices(me) -> HelloIds]
  PROVE  Stays(me, D, s, SendHello(s, ids))
<1> DEFINE n == Len(RadiosOf[me])
<1>1. PICK f : /\ HellosBy(f, me, s, ids)
               /\ \A i \in 0..n : f[i] \in Good(me, X)
  <2>1. ids \in [Devices(me) -> Pid]
    BY MediumAssumption
  <2> QED BY <2>1, SendHelloRuns
<1>2. n \in Nat /\ Devices(me) = 1..n
  <2>1. RadiosOf[me] \in Seq(Trinity)
    BY RadiosAssumption
  <2> QED BY <2>1 DEF Devices
<1> DEFINE T == {i \in 0..n : Tied(f[i]) /\ Stays(me, D, s, f[i])}
<1>3. 0 \in T
  BY <1>1, <1>2 DEF HellosBy, Stays
<1>4. ASSUME NEW i \in 1..n, i - 1 \in T PROVE i \in T
  <2>1. /\ f[i] = EnqueueHello(f[i - 1], i, ids[i]) /\ f[i - 1] \in Good(me, X)
        /\ Tied(f[i - 1]) /\ Stays(me, D, s, f[i - 1]) /\ i \in Devices(me)
        /\ ids[i] \in HelloIds /\ ids[i] \in Pid
    BY <1>1, <1>2, <1>4, MediumAssumption DEF HellosBy
  <2>2. Tied(f[i])
    BY <2>1, EnqueueHelloKeeps DEF Keeps
  <2>3. Stays(me, D, f[i - 1], f[i])
    BY <2>1, EnqueueHelloStays DEF Stays
  <2>4. Stays(me, D, s, f[i])
    BY <2>1, <2>3, StaysChain
  <2> QED BY <1>2, <2>2, <2>4
<1>5. Stays(me, D, s, f[n])
  <2> HIDE DEF T
  <2>1. 0..n \subseteq T
    BY <1>2, <1>3, <1>4, RangeInduction
  <2> QED BY <1>2, <2>1 DEF T
<1> QED BY <1>1, <1>5 DEF HellosBy

\* A packet whose acknowledgment did not come waits to be sent again.
LEMMA RetriedStays ==
  ASSUME NEW me \in Node, NEW X, NEW s \in Good(me, X), Tied(s), NEW D, s.rtqueue # <<>>
  PROVE  Stays(me, D, s, Retried(s))
<1> DEFINE h == Head(s.rtqueue)
           e == Retry(h)
           rt == Tail(s.rtqueue)
           q == EnqueueFront(s.queue, e)
           a == [s EXCEPT !.rtqueue = rt]
           b == [a EXCEPT !.queue = q]
           u == [b EXCEPT !.timer = "running"]
           pos == SearchMac(s.nbrs, e.dest)
           w == AddVirtualQueueEntryFront(u, pos, e)
<1>1. /\ s \in Typed(me, X) /\ s.rtqueue \in Bounded(RtEntry) /\ s.queue \in Bounded(Entry)
      /\ s.nbrs \in Seq(Neighbor)
  BY Fields DEF Good
<1>2. Retried(s) = IF ~Accepts(s.queue, e) THEN u
                   ELSE IF pos = 0 THEN Abort(u, "NeighborLost") ELSE w
  BY <1>1 DEF Retried, Typed, IState
<1>3. /\ h \in RtEntry /\ h \in Range(s.rtqueue) /\ rt \in Bounded(RtEntry)
      /\ Range(rt) \subseteq Range(s.rtqueue)
  <2>1. s.rtqueue \in Seq(RtEntry) /\ Distinct(s.rtqueue)
    BY <1>1 DEF Bounded
  <2>2. Range(rt) = Range(s.rtqueue) \ {h} /\ h \in RtEntry /\ h \in Range(s.rtqueue)
    BY <2>1, TailRange
  <2> QED BY <1>1, <2>2, TailBounded
<1>4. e \in Entry /\ e.id = h.id /\ e.dest = h.dest /\ ~e.hello
  <2>1. ~h.hello
    BY <1>3 DEF Tied, Waiting
  <2> QED BY <1>3, <2>1 DEF Retry, RtEntry, Entry, MaxRetry
<1> HIDE DEF h, e
<1>5. q \in Bounded(Entry) /\ Range(q) \subseteq Range(s.queue) \union {e}
  BY <1>1, <1>4, EnqueueFrontBounded, WaitingEnqueue
<1>6. /\ u.nbrs = s.nbrs /\ u.queue = q /\ u.rtqueue = rt /\ u.abort = s.abort
      /\ u.timer = "running" /\ SameMemory(s, u)
  BY <1>1 DEF Typed, IState, SameMemory
<1> HIDE DEF q, rt
<1>7. u \in Typed(me, X)
  <2>1. a \in Typed(me, X)
    BY <1>1, <1>3, UpdateTyped
  <2> HIDE DEF a
  <2>2. b \in Typed(me, X)
    BY <1>5, <2>1, UpdateTyped
  <2> HIDE DEF b
  <2> QED BY <2>2, UpdateTyped DEF Timer
<1> HIDE DEF u
<1>8. Stays(me, D, s, u)
  <2>1. ASSUME Stocked(me, D, s) PROVE Stocked(me, D, u)
    <3>1. Wanted(D, s.pool, e)
      BY <1>3, <1>4, <2>1 DEF Stocked, Wanted
    <3>2. Fair(D, u.pool, e)
      BY <1>4, <1>6, <3>1 DEF Fair, Wanted, SameMemory
    <3>3. /\ s.pool \subseteq u.pool
          /\ Range(u.acks) \subseteq D.due
      BY <1>6, <2>1 DEF Stocked, SameMemory
    <3> QED BY <1>3, <1>5, <1>6, <2>1, <3>2, <3>3, StocksMove DEF SameMemory
  <2> QED BY <1>6, <2>1 DEF Stays, SameMemory
<1>9. Stays(me, D, u, Abort(u, "NeighborLost"))
  BY <1>7, AbortStays
<1>10. pos # 0 => Stays(me, D, u, w)
  <2>1. pos # 0 => pos \in DOMAIN u.nbrs
    BY <1>1, <1>6, SearchMacProperties
  <2> HIDE DEF pos
  <2> QED BY <1>4, <1>7, <2>1, VirtualEntryStays
<1> HIDE DEF w, pos
<1> QED BY <1>2, <1>8, <1>9, <1>10, StaysChain

\* The retransmission timer expires.
LEMMA RetransmitStays ==
  ASSUME NEW me \in Node, NEW X, NEW s \in Good(me, X), Tied(s), NEW D, Stocked(me, D, s)
  PROVE  Stays(me, D, s, Retransmit(s))
<1>1. s \in Typed(me, X)
  BY DEF Good
<1>2. CASE s.rtqueue = <<>>
  BY <1>1, <1>2 DEF Retransmit, Stays, Stocked, Typed, IState
<1>3. CASE s.rtqueue # <<>>
  <2> DEFINE u == Retried(s)
  <2>1. Tied(u) /\ u \in Good(me, X) /\ Retransmit(s) = TrySend(u)
    BY <1>3, RetriedKeeps DEF Keeps
  <2>2. Stays(me, D, s, u)
    BY <1>3, RetriedStays
  <2> HIDE DEF u
  <2>3. Stays(me, D, u, TrySend(u))
    BY <2>1, <2>2, TrySendStays DEF Stays
  <2> QED BY <2>1, <2>2, <2>3, StaysChain
<1> QED BY <1>2, <1>3

-------------------------------------------------------------------------------
(* Receiving                                                               *)

\* What a frame brings.
Contents(f) == {x.pid : x \in f.natives}

\* A frame of a node that holds K: what it carries and what it reports is in K.
Spoken(K, f) ==
  /\ f.src \in Macs(f.from)
  /\ {a.pid : a \in Range(f.acks)} \union f.reports \subseteq K
  /\ Contents(f) \subseteq K
  /\ f.hello \/ f.natives # {}
  /\ Sums(f)

\* What IP sends in answer to a packet of I goes to its next hop.
Answers(D, I, sends) ==
  sends # NoSend => sends.id \in I /\ <<sends.dest, sends.id>> \in D.legs

\* The node may acknowledge what f brings it.
Owes(D, s, f) ==
  Coded(f) /\ AmINext(s, f) => [ip |-> NodeIP(f.from), pid |-> NativeForMe(s, f)] \in D.due

\* A packet of the sender is held, and the sender is known to hold it.
LEMMA HoldLearns ==
  ASSUME NEW me \in Node, NEW X, NEW s \in Typed(me, X), NEW D, NEW I, NEW K, NEW N,
         NEW pid \in I, pid \in K, NEW mac \in N
  PROVE  Learns(me, D, I, K, N, s, Hold(s, pid, mac))
<1> DEFINE r == Hold(s, pid, mac)
<1>1. CASE ~Running(s)
  BY <1>1 DEF Hold, Learns
<1>2. CASE Running(s)
  <2>1. /\ r.pool = s.pool \union {pid} /\ r.info = s.info \union {<<p, mac>> : p \in {pid}}
        /\ r.queue = s.queue /\ r.rtqueue = s.rtqueue /\ r.macq = s.macq
        /\ r.timer = s.timer /\ r.abort = s.abort /\ r.acks = s.acks
    BY <1>2 DEF Hold, SetItems, Typed, IState
  <2> HIDE DEF r
  <2>2. s.pool \subseteq r.pool
    BY <2>1
  <2>3. Stocked(me, D, s) => Stocked(me, D, r)
    <3> SUFFICES ASSUME Stocked(me, D, s) PROVE Stocked(me, D, r)
      OBVIOUS
    <3>1. Range(r.acks) \subseteq D.due
      BY <2>1 DEF Stocked
    <3> QED BY <2>1, <2>2, <3>1, StocksMove
  <2> QED BY <2>1, <2>3 DEF Learns, r
<1> QED BY <1>1, <1>2

\* IP gets the packet and may answer at once; then the packet is held.
LEMMA ForwardUpLearns ==
  ASSUME NEW me \in Node, NEW X, NEW s \in Good(me, X), Tied(s), NEW D, Stocked(me, D, s),
         NEW d, NEW f, NEW sends \in Sendable(me) \union {NoSend}, NEW I, Answers(D, I, sends),
         NEW K, NEW N
  PROVE  /\ Learns(me, D, I, K, N, s, ForwardUp(s, d, f, sends))
         /\ \A pid \in I \intersect K : \A mac \in N :
              Learns(me, D, I, K, N, s, Hold(ForwardUp(s, d, f, sends), pid, mac))
<1> DEFINE u == ForwardUp(s, d, f, sends)
<1>1. u \in Typed(me, X)
  BY ForwardUpGood DEF Good
<1>2. Learns(me, D, I, K, N, s, u)
  <2>1. CASE sends = NoSend
    BY <2>1 DEF ForwardUp, Learns
  <2>2. CASE sends # NoSend
    <3>1. Learns(me, D, I, K, N, s, EnqueueData(s, sends))
      BY <2>2, EnqueueDataLearns DEF Answers
    <3> QED BY <3>1 DEF ForwardUp, Learns
  <2> QED BY <2>1, <2>2
<1> HIDE DEF u
<1>3. ASSUME NEW pid \in I \intersect K, NEW mac \in N
      PROVE  Learns(me, D, I, K, N, u, Hold(u, pid, mac))
  BY <1>1, HoldLearns
<1> QED BY <1>2, <1>3, LearnsChain DEF u

\* What a next hop gets out of a frame, and what others decode, is in it.
LEMMA HeardIsSpoken ==
  ASSUME NEW me \in Node, NEW X, NEW s \in Typed(me, X), NEW f \in Frame, NEW K, Spoken(K, f)
  PROVE  /\ AmINext(s, f) => NativeForMe(s, f) \in Contents(f)
         /\ Cardinality(Missing(s, f)) = 1 => Hash(Decoded(s, f)) \in Contents(f)
         /\ ~f.hello /\ ~Coded(f) => Hash(f.payload) \in Contents(f)
<1>1. s.me = me
  BY Fields
<1>2. Contents(f) \subseteq Pid
  BY FrameFields DEF Native, Contents
<1>3. AmINext(s, f) => NativeForMe(s, f) \in Contents(f)
  BY <1>1, NativeForMeProperties DEF Contents
<1>4. ASSUME Cardinality(Missing(s, f)) = 1 PROVE Hash(Decoded(s, f)) \in Contents(f)
  <2>1. PICK p : Missing(s, f) = {p}
    <3>1. Missing(s, f) \subseteq Pid
      BY <1>2 DEF Missing, Contents
    <3>2. IsFiniteSet(Missing(s, f))
      <4>1. IsFiniteSet(f.payload) /\ Missing(s, f) \in SUBSET f.payload
        BY DEF Spoken, Sums, Missing
      <4> QED BY <4>1, FS_Subset
    <3> QED BY <1>4, <3>2, FS_Singleton
  <2>2. p \in Contents(f)
    BY <2>1 DEF Missing, Contents
  <2>3. Decoded(s, f) = {p}
    BY <2>1 DEF Decoded, XOR, Missing, Spoken, Sums
  <2> QED BY <1>2, <2>2, <2>3, HashOfPacket
<1>5. ASSUME ~f.hello, ~Coded(f) PROVE Hash(f.payload) \in Contents(f)
  <2>1. PICK x \in f.natives : TRUE
    BY <1>5 DEF Spoken
  <2>2. f.payload = {x.pid}
    BY <1>5, <2>1 DEF Coded, Spoken, Sums
  <2> QED BY <1>2, <2>1, <2>2, HashOfPacket DEF Contents
<1> QED BY <1>3, <1>4, <1>5

\* A coded frame.
LEMMA RecvCodedLearns ==
  ASSUME NEW me \in Node, NEW s \in Good(me, {}), Tied(s), NEW D, Stocked(me, D, s), NEW d,
         NEW f \in Frame, Coded(f), NEW K, Spoken(K, f), NEW N, NEW mac \in N,
         NEW sends \in Sendable(me) \union {NoSend}, Answers(D, Contents(f), sends), Owes(D, s, f)
  PROVE  Learns(me, D, Contents(f), K, N, s, RecvCoded(s, d, f, mac, sends))
<1> DEFINE pid == NativeForMe(s, f)
           h == Hash(Decoded(s, f))
           u == AddAck(s, NodeIP(f.from), pid)
           t == Hold(ForwardUp(u, d, f, sends), pid, mac)
           one == Cardinality(Missing(s, f)) = 1
           I == Contents(f)
<1>1. s \in Typed(me, {})
  BY DEF Good
<1>2. RecvCoded(s, d, f, mac, sends) =
        IF ~one THEN s
        ELSE IF \E x \in f.natives : x.mac = Broadcast THEN Abort(s, "BroadcastCoded")
        ELSE IF ~AmINext(s, f) THEN Hold(s, h, mac)
        ELSE IF pid \notin Missing(s, f) THEN Abort(s, "DecodedOther")
        ELSE IF pid # h THEN Abort(s, "DecodedHash")
        ELSE t
  BY DEF RecvCoded
<1>3. ASSUME NEW where \in {"BroadcastCoded", "DecodedOther", "DecodedHash"}
      PROVE  Learns(me, D, I, K, N, s, Abort(s, where))
  BY <1>1, AbortStays, StaysLearns
<1>4. I \subseteq K /\ (one => h \in I) /\ (AmINext(s, f) => pid \in I)
  BY <1>1, HeardIsSpoken DEF Spoken
<1>7. AmINext(s, f) => [ip |-> NodeIP(f.from), pid |-> pid] \in D.due
  BY DEF Owes
<1> HIDE DEF I
<1>5. Learns(me, D, I, K, N, s, s) /\ (one => Learns(me, D, I, K, N, s, Hold(s, h, mac)))
  <2>1. Learns(me, D, I, K, N, s, s)
    BY DEF Learns
  <2> HIDE DEF h, one
  <2> QED BY <1>1, <1>4, <2>1, HoldLearns
<1>6. ASSUME AmINext(s, f) PROVE Learns(me, D, I, K, N, s, t)
  <2>1. pid \in Pid /\ pid \in I /\ pid \in K
    BY <1>1, <1>4, <1>6, NativeForMeType
  <2> HIDE DEF pid
  <2>2. u \in Good(me, {pid})
    BY <2>1, FrameFields, NodeIPType, AddAckGood
  <2>3. /\ u.macq = s.macq /\ u.info = s.info /\ u.pool = s.pool /\ u.queue = s.queue
        /\ u.rtqueue = s.rtqueue /\ u.nbrs = s.nbrs /\ u.abort = s.abort /\ u.timer = s.timer
        /\ u.acks = Append(s.acks, [ip |-> NodeIP(f.from), pid |-> pid])
    BY <1>1 DEF AddAck, Typed, IState
  <2> HIDE DEF u
  <2>4. Tied(u)
    BY <2>3 DEF Tied
  <2>5. Stays(me, D, s, u)
    <3> DEFINE k == [ip |-> NodeIP(f.from), pid |-> pid]
    <3>1. k \in Ack /\ s.acks \in Seq(Ack)
      BY <1>1, <2>1, Fields, FrameFields, NodeIPType DEF Ack
    <3>2. k \in D.due
      BY <1>6, <1>7
    <3>3. u.acks = Append(s.acks, k)
      BY <2>3
    <3> HIDE DEF k
    <3>4. Range(u.acks) \subseteq Range(s.acks) \union D.due
      BY <3>1, <3>2, <3>3, AppendRange
    <3> QED BY <2>3, <3>4 DEF Stays, Stocked
  <2>6. Learns(me, D, I, K, N, u, t)
    <3>1. Stocked(me, D, u) /\ Answers(D, I, sends)
      BY <2>5 DEF Stays, I
    <3>2. \A p \in I \intersect K : \A c \in N :
            Learns(me, D, I, K, N, u, Hold(ForwardUp(u, d, f, sends), p, c))
      BY <2>2, <2>4, <3>1, ForwardUpLearns
    <3> QED BY <2>1, <3>2
  <2> QED BY <2>5, <2>6, StaysLearns, LearnsChain
<1> HIDE DEF t, pid, h, one
<1> QED BY <1>2, <1>3, <1>5, <1>6 DEF I

\* A frame with one native.
LEMMA RecvPlainLearns ==
  ASSUME NEW me \in Node, NEW s \in Good(me, {}), Tied(s), NEW D, Stocked(me, D, s), NEW d,
         NEW f \in Frame, ~Coded(f), ~f.hello, NEW K, Spoken(K, f), NEW N, NEW mac \in N,
         NEW sends \in Sendable(me) \union {NoSend}, Answers(D, Contents(f), sends)
  PROVE  Learns(me, D, Contents(f), K, N, s, RecvPlain(s, d, f, mac, sends))
<1> DEFINE pid == NativeForMe(s, f)
           h == Hash(f.payload)
           u == ForwardUp(s, d, f, sends)
           t == Hold(u, pid, mac)
           I == Contents(f)
<1>1. s \in Typed(me, {})
  BY DEF Good
<1>2. RecvPlain(s, d, f, mac, sends) =
        IF \E x \in f.natives : x.mac = Broadcast THEN u
        ELSE IF ~AmINext(s, f) THEN Hold(s, h, mac)
        ELSE IF pid # h THEN Abort(s, "PlainHash")
        ELSE t
  BY DEF RecvPlain
<1>3. I \subseteq K /\ h \in I /\ (AmINext(s, f) => pid \in I)
  BY <1>1, HeardIsSpoken DEF Spoken
<1> HIDE DEF h, pid, I
<1>4. /\ Learns(me, D, I, K, N, s, Abort(s, "PlainHash"))
      /\ Learns(me, D, I, K, N, s, Hold(s, h, mac))
  BY <1>1, <1>3, AbortStays, StaysLearns, HoldLearns
<1>5. /\ Learns(me, D, I, K, N, s, u)
      /\ AmINext(s, f) => Learns(me, D, I, K, N, s, t)
  <2>1. Answers(D, I, sends)
    BY DEF I
  <2> QED BY <1>3, <2>1, ForwardUpLearns
<1> HIDE DEF t, u
<1> QED BY <1>2, <1>4, <1>5 DEF I

\* The header: who sent the frame is known by one of its own addresses, and
\* to hold what it acknowledges and reports.
LEMMA HeaderLearns ==
  ASSUME WellConfigured, NEW me \in Node, NEW s \in Good(me, {}), Running(s), Tied(s), Whole(s),
         NEW D, NEW d \in Devices(me), NEW f \in Frame, NEW K, Spoken(K, f)
  PROVE  LET u == RecvHeader(s, d, f)
         IN  /\ GetMac(u.nbrs[SearchIP(u.nbrs, NodeIP(f.from))]) \in Macs(f.from)
             /\ Learns(me, D, Contents(f), K, Macs(f.from), s, u)
<1> DEFINE ip == NodeIP(f.from)
           u == SMNeighbors(s, ip, f.src, Channel(s, d))
           mac == GetMac(u.nbrs[SearchIP(u.nbrs, ip)])
           pids == {a.pid : a \in Range(f.acks)} \union f.reports
           v == EraseAcked(u, f)
           r == SetItems(v, pids, mac)
           h == RecvHeader(s, d, f)
<1>1. s \in Typed(me, {}) /\ s \in IState(me) /\ s.me = me /\ s.nbrs \in Seq(Neighbor)
  BY Fields DEF Good, Typed
<1>2. ip \in Nat /\ ip \in IPs(f.from) /\ f.from \in Node /\ f.src \in Nat \ {0}
      /\ Channel(s, d) \in Nat
  <2>1. RadiosOf[me] \in Seq(Trinity) /\ d \in 1..Len(RadiosOf[me])
    BY RadiosAssumption DEF Devices
  <2>2. RadiosOf[me][d] \in Trinity
    BY <2>1
  <2> QED BY <1>1, <2>2, FrameFields, NodeIPType DEF Channel, Trinity
<1>3. s = [x \in DOMAIN s |-> s[x]] /\ "nbrs" \in DOMAIN s
  BY <1>1 DEF IState
<1>4. /\ h = IF Running(u) THEN r ELSE u
      /\ Running(h) /\ Whole(h)
  BY RecvHeaderKeeps DEF RecvHeader, Keeps, Spoken
<1> HIDE DEF ip, pids, h
<1>5. \/ \E n \in Seq(Neighbor) : u = [s EXCEPT !.nbrs = n] /\ \E i \in DOMAIN n : HasIP(n[i], ip)
      \/ \E a \in {"DuplicateVirtual", "NewNeighbor"} : u = Abort(s, a)
  BY <1>1, <1>2, <1>3, SMNeighborsResult
<1> HIDE DEF u
<1>6. Running(u)
  BY <1>4
<1>7. PICK n \in Seq(Neighbor) : u = [s EXCEPT !.nbrs = n] /\ \E i \in DOMAIN n : HasIP(n[i], ip)
  <2>1. ASSUME NEW a \in {"DuplicateVirtual", "NewNeighbor"}, u = Abort(s, a) PROVE FALSE
    BY <1>1, <1>6, <2>1 DEF Abort, Running, IState
  <2> QED BY <1>5, <2>1
<1>8. /\ u \in Typed(me, {}) /\ u.nbrs = n /\ u.macq = s.macq /\ u.pool = s.pool
      /\ u.info = s.info /\ u.queue = s.queue /\ u.rtqueue = s.rtqueue /\ u.timer = s.timer
      /\ u.abort = s.abort /\ u.acks = s.acks
  <2>1. [s EXCEPT !.nbrs = n] \in Typed(me, {})
    BY <1>1, UpdateTyped
  <2> QED BY <1>1, <1>7, <2>1 DEF IState
<1>9. PICK q \in Bounded(RtEntry) : /\ v = [u EXCEPT !.rtqueue = q]
                                    /\ Range(q) \subseteq Range(u.rtqueue)
  BY <1>8, EraseAckedResult
<1>10. /\ r.macq = u.macq /\ r.pool = u.pool /\ r.queue = u.queue /\ r.rtqueue = q
       /\ r.timer = u.timer /\ r.abort = u.abort /\ r.nbrs = u.nbrs /\ r.acks = u.acks
       /\ r.info = u.info \union {<<pid, mac>> : pid \in pids}
  BY <1>8, <1>9 DEF SetItems, Typed, IState
<1>11. h = r
  BY <1>4, <1>6
<1> HIDE DEF r, v
<1>12. mac \in Macs(f.from)
  <2> DEFINE i == SearchIP(n, ip)
  <2>1. i \in DOMAIN n /\ HasIP(n[i], ip)
    BY <1>7, SearchIPProperties
  <2>2. Plausible(n[i]) /\ n[i] \in Neighbor
    BY <1>4, <1>8, <1>10, <1>11, <2>1 DEF Whole, Complete
  <2>3. mac = GetMac(n[i])
    BY <1>8
  <2> HIDE DEF i, mac
  <2>4. IsOf(n[i], f.from)
    BY <1>2, <2>1, <2>2, RecordWithIP
  <2>5. {t.mac : t \in n[i].pairs} # {} /\ {t.mac : t \in n[i].pairs} \in SUBSET Nat
    BY <2>2, NeighborFields DEF Trinity
  <2>6. GetMac(n[i]) \in {t.mac : t \in n[i].pairs}
    BY <2>5, MinExists DEF GetMac
  <2> QED BY <2>3, <2>4, <2>6 DEF IsOf
<1>13. mac = GetMac(h.nbrs[SearchIP(h.nbrs, ip)])
  BY <1>10, <1>11
<1> HIDE DEF mac
<1>14. pids \subseteq K
  BY DEF pids, Spoken
<1>15. r.info \subseteq s.info \union (K \X Macs(f.from))
  BY <1>8, <1>10, <1>12, <1>14
<1>16. Stocked(me, D, s) => Stocked(me, D, r)
  BY <1>8, <1>9, <1>10 DEF Stocked
<1>17. Learns(me, D, Contents(f), K, Macs(f.from), s, h)
  BY <1>8, <1>10, <1>11, <1>15, <1>16 DEF Learns
<1> QED BY <1>12, <1>13, <1>17 DEF ip, h

\* A data frame.
LEMMA RecvDataLearns ==
  ASSUME WellConfigured, NEW me \in Node, NEW s \in Good(me, {}), Running(s), Tied(s), Whole(s),
         NEW D, Stocked(me, D, s), NEW d \in Devices(me), NEW f \in Frame, ~f.hello,
         NEW K, Spoken(K, f), NEW sends \in Sendable(me) \union {NoSend},
         Answers(D, Contents(f), sends),
         Owes(D, s, f)
  PROVE  Learns(me, D, Contents(f), K, Macs(f.from), s, RecvData(s, d, f, sends))
<1> DEFINE u == RecvHeader(s, d, f)
           mac == GetMac(u.nbrs[SearchIP(u.nbrs, NodeIP(f.from))])
           v == IF Coded(f) THEN RecvCoded(u, d, f, mac, sends)
                ELSE RecvPlain(u, d, f, mac, sends)
           N == Macs(f.from)
           I == Contents(f)
<1>1. /\ u \in Good(me, {}) /\ Running(u) /\ mac \in Nat /\ Tied(u)
      /\ mac \in N /\ Learns(me, D, I, K, N, s, u) /\ u.me = me
  BY RecvHeaderGood, RecvHeaderKeeps, HeaderLearns
<1>2. RecvData(s, d, f, sends) = TrySend(v)
  BY <1>1 DEF RecvData
<1> HIDE DEF u, mac, N
<1>3. Stocked(me, D, u) /\ Owes(D, u, f) /\ Answers(D, I, sends)
  <2>1. s.me = me
    BY Fields DEF Good
  <2>2. /\ AmINext(u, f) <=> AmINext(s, f)
        /\ NativeForMe(u, f) = NativeForMe(s, f)
    BY <1>1, <2>1 DEF AmINext, NativeForMe
  <2> QED BY <1>1, <2>2 DEF Learns, Owes
<1> HIDE DEF I
<1>4. v \in Good(me, {}) /\ Tied(v) /\ Learns(me, D, I, K, N, u, v)
  <2>1. v \in Good(me, {}) /\ Holds(u, v)
    BY <1>1, RecvCodedGood, RecvPlainGood, RecvCodedKeeps, RecvPlainKeeps
  <2>2. Learns(me, D, I, K, N, u, v)
    BY <1>1, <1>3, RecvCodedLearns, RecvPlainLearns DEF I
  <2> QED BY <2>1, <2>2 DEF Holds
<1> HIDE DEF v
<1>5. Stays(me, D, v, TrySend(v))
  BY <1>3, <1>4, TrySendStays DEF Learns
<1> QED BY <1>1, <1>2, <1>4, <1>5, StaysLearns, LearnsChain DEF N, I

\* A frame that a node heard, hello or data: it learns about its sender what
\* the sender says, takes in what it sent, and keeps sending what it holds.
LEMMA RecvLearns ==
  ASSUME WellConfigured, NEW me \in Node, NEW s \in Good(me, {}), Running(s), Tied(s), Whole(s),
         NEW D, Stocked(me, D, s), NEW d \in Devices(me), NEW f \in Frame, NEW K, Spoken(K, f),
         NEW sends \in Sendable(me) \union {NoSend}, Answers(D, Contents(f), sends),
         Owes(D, s, f)
  PROVE  Learns(me, D, Contents(f), K, Macs(f.from), s, Recv(s, d, f, sends))
<1> DEFINE u == NeighborLearn(s, RadiosOf[f.from])
           W == Waiting(s.queue)
<1>1. Recv(s, d, f, sends) = IF f.src \in Macs(s.me) THEN s
                             ELSE IF f.hello THEN TrySend(u)
                             ELSE IF ForOtherRadio(s, d, f) THEN s
                             ELSE RecvData(s, d, f, sends)
  BY DEF Recv
<1>2. s \in Typed(me, {}) /\ s.nbrs \in Seq(Neighbor) /\ Linked(s.nbrs, W)
  BY Fields DEF Good, Tied
<1>3. PICK n \in Seq(Neighbor) : u = [s EXCEPT !.nbrs = n] /\ Linked(n, W)
  <2> HIDE DEF W
  <2>1. f.from \in Node
    BY FrameFields
  <2> QED BY <1>2, <2>1, NeighborLearnTaught
<1> HIDE DEF u
<1>4. u \in Good(me, {})
  BY <1>3, UpdateGood
<1>5. /\ u.nbrs = n /\ u.macq = s.macq /\ u.pool = s.pool /\ u.info = s.info
      /\ u.queue = s.queue /\ u.rtqueue = s.rtqueue /\ u.timer = s.timer /\ u.abort = s.abort
      /\ u.acks = s.acks
  BY <1>2, <1>3 DEF Typed, IState
<1>6. Tied(u) /\ Stays(me, D, s, u)
  BY <1>3, <1>5, FewerStays DEF Tied
<1>7. Stays(me, D, u, TrySend(u))
  BY <1>4, <1>6, TrySendStays DEF Stays
<1>8. Learns(me, D, Contents(f), K, Macs(f.from), s, TrySend(u))
  BY <1>6, <1>7, StaysChain, StaysLearns
<1>9. Learns(me, D, Contents(f), K, Macs(f.from), s, s)
  BY DEF Learns
<1> QED BY <1>1, <1>8, <1>9, RecvDataLearns

-------------------------------------------------------------------------------
(* A node goes on                                                          *)

\* What IP of node n makes of it: its packets and their next hops, and the
\* acknowledgments it may send, for packets it is the next hop of.
Duty(n) ==
  [legs |-> {<<Route[n][pid].dest, pid>> : pid \in {p \in Pid : Forwards(n, p)}},
   due |-> {a \in Ack : \A k \in Node : a.ip = NodeIP(k) => Leads(k, n, a.pid)}]

\* The pairs that a node sends are packets and their next hops.
LEMMA LegsLead ==
  ASSUME NEW n \in Node, NEW mac, NEW pid
  PROVE  /\ <<mac, pid>> \in Duty(n).legs =>
              pid \in Pid /\ Forwards(n, pid) /\ Route[n][pid].dest = mac /\ mac # Broadcast
         /\ pid \in Pid /\ Forwards(n, pid) => <<Route[n][pid].dest, pid>> \in Duty(n).legs
<1>1. Duty(n).legs = {<<Route[n][p].dest, p>> : p \in {p \in Pid : Forwards(n, p)}}
  BY DEF Duty
<1>2. \A p \in Pid : Forwards(n, p) => Route[n][p].dest # Broadcast
  BY RouteAssumption DEF Forwards
<1> QED BY <1>1, <1>2

\* Two next hops at most are two destinations at most.
LEMMA TwoHopsDests ==
  ASSUME TwoHops, NEW n \in Node
  PROVE  TwoDests(Duty(n))
<1>1. ASSUME NEW a \in Duty(n).legs PROVE a[1] \in Hops(n)
  <2>1. PICK p \in Pid : Forwards(n, p) /\ a = <<Route[n][p].dest, p>>
    BY DEF Duty
  <2> QED BY <2>1 DEF Hops
<1> QED BY <1>1 DEF TwoHops, TwoDests

\* What holds of a node whatever happens in the network.
Lives(n, s) ==
  /\ s \in Good(n, {}) /\ Tied(s) /\ Whole(s)
  /\ Stocked(n, Duty(n), s)
  /\ s.abort \notin Garbled

\* Node n goes on from s to r, may take in I and may learn that who is called
\* by N has K; the frames it hands over fit what it knows.
Goes(n, I, K, N, s, r) ==
  /\ Lives(n, r)
  /\ Learns(n, Duty(n), I, K, N, s, r)
  /\ \A d \in Devices(n) : \A f \in Range(r.macq[d]) :
       f \in Range(s.macq[d]) \/ Fits(n, s, r, Handover(d, f))

\* What may be learned from a source may be learned from a larger one.
LEMMA GoesWider ==
  ASSUME NEW n, NEW I, NEW J, NEW K, NEW N, NEW s, NEW r, I \subseteq J,
         Goes(n, I, {}, {}, s, r) \/ Goes(n, I, K, N, s, r)
  PROVE  Goes(n, J, K, N, s, r)
BY DEF Goes, Learns

\* A node that does nothing goes on.
LEMMA GoesIdle ==
  ASSUME NEW n, NEW I, NEW K, NEW N, NEW s, Lives(n, s)
  PROVE  Goes(n, I, K, N, s, s)
BY DEF Goes, Learns

\* The frames a handler adds to the MAC queues fit what the node knows.
LEMMA FramesFit ==
  ASSUME WellConfigured, NEW me \in Node, NEW s \in Good(me, {}), Whole(s), NEW I, NEW A, NEW C, C,
         NEW r, Serves(me, I, A, C, s, r), NEW d \in Devices(me), NEW f \in Range(r.macq[d])
  PROVE  f \in Range(s.macq[d]) \/ Fits(me, s, r, Handover(d, f))
<1>1. s \in Typed(me, {}) /\ s.rtqueue \in Seq(RtEntry)
  BY Fields DEF Good
<1>2. Behaves(me, I, A, C, s, r, Handed(me, s, r))
  BY <1>1, ServesBehaves
<1>3. \A h \in Handed(me, s, r) : Fits(me, s, r, h)
  BY <1>2 DEF Behaves
<1>4. PICK u : u.macq = s.macq /\ Extends(me, u, r)
  BY DEF Serves, Prepares, Sends
<1>5. /\ s.macq[d] \in Seq(Frame) /\ r.macq[d] \in Seq(Frame)
      /\ \A i \in 1..Len(s.macq[d]) : r.macq[d][i] = s.macq[d][i]
  BY <1>4 DEF Extends
<1>6. PICK i \in 1..Len(r.macq[d]) : f = r.macq[d][i]
  BY <1>5 DEF Range
<1>7. CASE i \in 1..Len(s.macq[d])
  BY <1>5, <1>6, <1>7 DEF Range
<1>8. CASE i \notin 1..Len(s.macq[d])
  <2>1. Len(s.macq[d]) \in Nat /\ Len(r.macq[d]) \in Nat
    BY <1>5
  <2>2. i \in Len(s.macq[d]) + 1..Len(r.macq[d])
    BY <1>8, <2>1
  <2> DEFINE h == Handover(d, f)
  <2>3. h.radio = d /\ h.frame = f /\ h \in [radio: Devices(me), frame: Frame]
    BY <1>5, <1>6 DEF Handover
  <2> HIDE DEF h
  <2>4. h \in Handed(me, s, r)
    BY <1>6, <2>2, <2>3 DEF Handed
  <2> QED BY <1>3, <2>4 DEF h
<1> QED BY <1>7, <1>8

\* A handler that keeps what the other modules prove of it goes on.
LEMMA GoesOn ==
  ASSUME WellConfigured, NEW me \in Node, NEW s, Lives(me, s), NEW r \in Good(me, {}),
         Keeps(s, r), NEW I, NEW A, NEW C, C, Serves(me, I, A, C, s, r),
         NEW J, NEW K, NEW N, Learns(me, Duty(me), J, K, N, s, r)
  PROVE  Goes(me, J, K, N, s, r)
<1>1. s \in Good(me, {}) /\ Whole(s) /\ Stocked(me, Duty(me), s) /\ s.abort \notin Garbled
  BY DEF Lives
<1>2. Lives(me, r)
  BY <1>1 DEF Lives, Keeps, Learns
<1>3. \A d \in Devices(me) : \A f \in Range(r.macq[d]) :
        f \in Range(s.macq[d]) \/ Fits(me, s, r, Handover(d, f))
  BY <1>1, FramesFit
<1> QED BY <1>2, <1>3 DEF Goes

\* An attempt to send.
LEMMA TrySendGoes ==
  ASSUME WellConfigured, NEW me \in Node, NEW s, Lives(me, s)
  PROVE  Goes(me, {}, {}, {}, s, TrySend(s))
<1>1. /\ s \in Good(me, {}) /\ Tied(s) /\ Stocked(me, Duty(me), s)
      /\ s.nbrs \in Seq(Neighbor)
  BY Fields DEF Lives, Good
<1> DEFINE r == TrySend(s)
<1>2. r \in Good(me, {}) /\ Keeps(s, r) /\ Sends(me, Range(s.queue), s, r)
  BY <1>1, TrySendGood, TrySendKeeps, TrySendSends
<1>3. Learns(me, Duty(me), {}, {}, {}, s, r)
  BY <1>1, TrySendStays, StaysLearns
<1> HIDE DEF r
<1>4. Serves(me, {}, {}, TRUE, s, r)
  BY <1>1, <1>2, SendsServes
<1>5. Goes(me, {}, {}, {}, s, r)
  BY <1>2, <1>3, <1>4, GoesOn
<1> QED BY <1>5 DEF r

\* The retransmission timer.
LEMMA RetransmitGoes ==
  ASSUME WellConfigured, NEW me \in Node, NEW s, Lives(me, s)
  PROVE  Goes(me, {}, {}, {}, s, Retransmit(s))
<1>1. s \in Good(me, {}) /\ Tied(s) /\ Stocked(me, Duty(me), s)
  BY DEF Lives
<1> DEFINE r == Retransmit(s)
           A == Oldest(s)
<1>2. r \in Good(me, {}) /\ Keeps(s, r) /\ Serves(me, {}, A, TRUE, s, r)
  BY <1>1, RetransmitGood, RetransmitKeeps, RetransmitServes
<1>3. Learns(me, Duty(me), {}, {}, {}, s, r)
  BY <1>1, RetransmitStays, StaysLearns
<1> HIDE DEF r, A
<1>4. Goes(me, {}, {}, {}, s, r)
  BY <1>2, <1>3, GoesOn
<1> QED BY <1>4 DEF r

\* The time of the timer comes.
LEMMA TimerDueGoes ==
  ASSUME NEW me \in Node, NEW s, Lives(me, s), s.timer = "running"
  PROVE  Goes(me, {}, {}, {}, s, [s EXCEPT !.timer = "due"])
<1> DEFINE r == [s EXCEPT !.timer = "due"]
<1>1. s \in Good(me, {}) /\ s \in Typed(me, {}) /\ s \in IState(me)
  BY DEF Lives, Good, Typed
<1>2. /\ r \in IState(me) /\ r.macq = s.macq /\ r.timer = "due"
      /\ r.pool = s.pool /\ r.recps = s.recps /\ r.acks = s.acks /\ r.info = s.info
      /\ r.queue = s.queue /\ r.rtqueue = s.rtqueue /\ r.abort = s.abort /\ r.nbrs = s.nbrs
  BY <1>1 DEF IState, Timer
<1> HIDE DEF r
<1>3. r \in Good(me, {})
  <2>1. ASSUME Truthful(me, s, s.pool \union {}) PROVE Truthful(me, r, r.pool \union {})
    BY <1>2, <2>1 DEF Truthful
  <2> QED BY <1>1, <1>2, <2>1 DEF Good, Typed, Armed, Running
<1>4. Tied(r) /\ Whole(r) /\ r.abort \notin Garbled
  BY <1>2 DEF Lives, Tied, Whole, Awaited
<1>5. Stocked(me, Duty(me), s) => Stocked(me, Duty(me), r)
  BY <1>2 DEF Stocked
<1>6. Goes(me, {}, {}, {}, s, r)
  BY <1>2, <1>3, <1>4, <1>5 DEF Goes, Lives, Learns
<1> QED BY <1>6 DEF r

\* A round of hellos.
LEMMA SendHelloGoes ==
  ASSUME WellConfigured, NEW me \in Node, NEW s, Lives(me, s),
         NEW ids \in [Devices(me) -> HelloIds]
  PROVE  Goes(me, {}, {}, {}, s, SendHello(s, ids))
<1>1. /\ s \in Good(me, {}) /\ Tied(s) /\ Stocked(me, Duty(me), s)
      /\ s.nbrs \in Seq(Neighbor)
  BY Fields DEF Lives, Good
<1> DEFINE r == SendHello(s, ids)
<1>6. ids \in [Devices(me) -> Pid]
  BY MediumAssumption
<1>2. r \in Good(me, {}) /\ Keeps(s, r) /\ Sends(me, Range(s.queue), s, r)
  BY <1>1, <1>6, SendHelloGood, SendHelloKeeps, SendHelloSends
<1>3. Learns(me, Duty(me), {}, {}, {}, s, r)
  BY <1>1, SendHelloStays, StaysLearns
<1> HIDE DEF r
<1>4. Serves(me, {}, {}, TRUE, s, r)
  BY <1>1, <1>2, SendsServes
<1>5. Goes(me, {}, {}, {}, s, r)
  BY <1>2, <1>3, <1>4, GoesOn
<1> QED BY <1>5 DEF r

\* A packet of an application.
LEMMA EnqueueDataGoes ==
  ASSUME WellConfigured, NEW me \in Node, NEW s, Lives(me, s), NEW x \in Sendable(me),
         <<x.dest, x.id>> \in Duty(me).legs
  PROVE  Goes(me, {x.id}, {}, {}, s, EnqueueData(s, x))
<1>1. s \in Good(me, {}) /\ Tied(s) /\ Stocked(me, Duty(me), s)
  BY DEF Lives
<1> DEFINE r == EnqueueData(s, x)
           K == {x.id}
<1>2. x.id \in K
  OBVIOUS
<1> HIDE DEF K
<1>3. r \in Good(me, {}) /\ Keeps(s, r) /\ Serves(me, K, {}, TRUE, s, r)
  BY <1>1, <1>2, EnqueueDataGood, EnqueueDataKeeps, EnqueueDataServes
<1>4. Learns(me, Duty(me), K, {}, {}, s, r)
  BY <1>1, <1>2, EnqueueDataLearns
<1> HIDE DEF r
<1>5. Goes(me, K, {}, {}, s, r)
  BY <1>3, <1>4, GoesOn
<1> QED BY <1>5 DEF r, K

\* A frame that can be read.
LEMMA RecvGoes ==
  ASSUME WellConfigured, NEW me \in Node, NEW s, Lives(me, s), Running(s), NEW d \in Devices(me),
         NEW f \in Frame, NEW K, Spoken(K, f), Readable(s, f),
         NEW sends \in Sendable(me) \union {NoSend}, Answers(Duty(me), Contents(f), sends),
         Owes(Duty(me), s, f)
  PROVE  Goes(me, Contents(f), K, Macs(f.from), s, Recv(s, d, f, sends))
<1>1. /\ s \in Good(me, {}) /\ Tied(s) /\ Whole(s) /\ Stocked(me, Duty(me), s)
  BY DEF Lives
<1>2. f.src \in Macs(f.from)
  BY DEF Spoken
<1> DEFINE r == Recv(s, d, f, sends)
           I == Contents(f)
           A == Acked(me, f)
           C == f.src \in Macs(f.from)
           N == Macs(f.from)
<1>3. r \in Good(me, {}) /\ Keeps(s, r)
  BY <1>1, <1>2, RecvGood, RecvKeeps
<1>4. Serves(me, I, A, C, s, r)
  BY <1>1, RecvServes DEF Answers
<1>5. Learns(me, Duty(me), I, K, N, s, r)
  BY <1>1, RecvLearns
<1>6. C
  BY <1>2
<1> HIDE DEF r, I, A, C, N
<1>7. Goes(me, I, K, N, s, r)
  BY <1>3, <1>4, <1>5, <1>6, GoesOn
<1> QED BY <1>7 DEF r, N, I

\* The radio has sent the first frame of its queue.
LEMMA MacSendGoes ==
  ASSUME NEW me \in Node, NEW s, Lives(me, s), NEW d \in Devices(me), s.macq[d] # <<>>
  PROVE  /\ Head(s.macq[d]) \in Range(s.macq[d])
         /\ Goes(me, {}, {}, {}, s, [s EXCEPT !.macq[d] = Tail(@)])
<1> DEFINE q == Tail(s.macq[d])
           r == [s EXCEPT !.macq[d] = q]
<1>1. /\ s \in Good(me, {}) /\ s \in Typed(me, {}) /\ s \in IState(me)
      /\ s.macq \in [Devices(me) -> Seq(Frame)] /\ s.macq[d] \in Seq(Frame)
  <2>1. s \in Good(me, {}) /\ s \in Typed(me, {}) /\ s \in IState(me)
    BY DEF Lives, Good, Typed
  <2> QED BY <2>1 DEF IState
<1>2. /\ q \in Seq(Frame) /\ Range(q) \subseteq Range(s.macq[d])
      /\ Head(s.macq[d]) \in Range(s.macq[d])
  <2>1. /\ q \in Seq(Frame) /\ Head(s.macq[d]) = s.macq[d][1] /\ 1 \in DOMAIN s.macq[d]
        /\ \A i \in DOMAIN q : i + 1 \in DOMAIN s.macq[d] /\ q[i] = s.macq[d][i + 1]
    BY <1>1, HeadTailProperties
  <2> HIDE DEF q
  <2> QED BY <2>1 DEF Range
<1> HIDE DEF q
<1>3. /\ r \in IState(me) /\ r.macq = [s.macq EXCEPT ![d] = q]
      /\ r.pool = s.pool /\ r.recps = s.recps /\ r.acks = s.acks /\ r.info = s.info
      /\ r.queue = s.queue /\ r.rtqueue = s.rtqueue /\ r.timer = s.timer
      /\ r.abort = s.abort /\ r.nbrs = s.nbrs
  BY <1>1, <1>2 DEF IState
<1>4. [s EXCEPT !.macq[d] = Tail(@)] = r
  BY DEF q
<1> HIDE DEF r
<1>5. \A e \in Devices(me) : Range(r.macq[e]) \subseteq Range(s.macq[e])
  BY <1>1, <1>2, <1>3
<1>6. r \in Good(me, {})
  <2>1. ASSUME Truthful(me, s, s.pool \union {}) PROVE Truthful(me, r, r.pool \union {})
    BY <1>3, <1>5, <2>1 DEF Truthful
  <2> QED BY <1>1, <1>3, <2>1 DEF Good, Typed, Armed, Running
<1>7. Tied(r) /\ Whole(r) /\ r.abort \notin Garbled
  BY <1>3 DEF Lives, Tied, Whole, Awaited
<1>8. Stocked(me, Duty(me), s) => Stocked(me, Duty(me), r)
  BY <1>3, <1>5 DEF Stocked
<1>9. Goes(me, {}, {}, {}, s, r)
  BY <1>3, <1>5, <1>6, <1>7, <1>8 DEF Goes, Lives, Learns
<1> QED BY <1>2, <1>4, <1>9

-------------------------------------------------------------------------------
(* The network                                                             *)

KnowledgeProofs == INSTANCE IPCopeKnowledge_proofs WITH
  Names <- [n \in Node |-> Macs(n)],
  holds <- [n \in Node |-> cope[n].pool],
  believes <- [n \in Node |-> cope[n].info]

\* FramesDecodable, also once an assertion has stopped the simulation.
Decodable ==
  \A n \in Node : \A d \in Devices(n) : \A f \in Range(cope[n].macq[d]) :
    \A x, y \in f.natives : \A m \in Node :
      x # y /\ x.mac \in Macs(m) => y.pid \in cope[m].pool

\* The invariant of the network: every node lives, what it believes is true,
\* and so what it codes can be decoded.
NInv ==
  /\ cope = [n \in Node |-> cope[n]]
  /\ todo \subseteq Flow
  /\ \A n \in Node : Lives(n, cope[n])
  /\ KnowledgeProofs!Truth
  /\ Decodable

\* Every node goes on, and what it learns is about n.
Heeds(n) ==
  /\ cope' = [m \in Node |-> cope'[m]]
  /\ \A m \in Node : Goes(m, cope[n].pool, cope[n].pool, Macs(n), cope[m], cope'[m])

\* The packet of flow x sets out.
SetsOut(x) ==
  /\ cope' = [cope EXCEPT ![x.node] = cope'[x.node]]
  /\ Goes(x.node, {x.pid}, {}, {}, cope[x.node], cope'[x.node])

\* A node that is new lives.
LEMMA FreshLives ==
  ASSUME NEW n \in Node
  PROVE  Lives(n, Init0(n))
<1> DEFINE s == Init0(n)
<1>1. s \in IState(n)
  <2>1. <<>> \in Bounded(Entry) /\ <<>> \in Bounded(RtEntry)
    BY EmptyBounded
  <2> QED BY <2>1 DEF Init0, IState, Timer, Aborts
<1>2. /\ s.nbrs = <<>> /\ s.queue = <<>> /\ s.rtqueue = <<>> /\ s.recps = <<>>
      /\ s.acks = <<>> /\ s.abort = "none" /\ s.timer = "idle"
      /\ \A d \in Devices(n) : s.macq[d] = <<>>
  BY DEF Init0
<1>3. Waiting(<<>>) = {} /\ Range(<<>>) = {} /\ DOMAIN <<>> = {}
  BY DEF Waiting, Range
<1> HIDE DEF s
<1>4. s \in Good(n, {})
  BY <1>1, <1>2, <1>3 DEF Good, Typed, Armed, Truthful
<1>5. Tied(s)
  BY <1>2, <1>3 DEF Tied, Linked, Stuck
<1>6. Whole(s)
  BY <1>2, <1>3 DEF Whole, Complete, Awaited, Misled
<1>7. Stocked(n, Duty(n), s)
  BY <1>2, <1>3 DEF Stocked
<1> QED BY <1>2, <1>4, <1>5, <1>6, <1>7 DEF Lives, Garbled, s

\* The network starts in its invariant.
LEMMA NetInit == Init => NInv
<1> SUFFICES ASSUME Init PROVE NInv
  OBVIOUS
<1>1. cope = [n \in Node |-> Init0(n)] /\ todo = Flow
  BY DEF Init
<1>2. ASSUME NEW n \in Node
      PROVE  /\ cope[n] = Init0(n) /\ cope[n].pool = {} /\ cope[n].info = {}
             /\ \A d \in Devices(n) : Range(cope[n].macq[d]) = {}
  BY <1>1 DEF Init0, Range
<1>3. KnowledgeProofs!Truth
  BY <1>2 DEF KnowledgeProofs!Truth, KnowledgeProofs!BeliefsTrue
<1>4. Decodable
  BY <1>2 DEF Decodable
<1> QED BY <1>1, <1>2, <1>3, <1>4, FreshLives DEF NInv

\* What a node has in its MAC queues is what it holds, for next hops that are
\* single nodes.
LEMMA SpeaksOfItself ==
  ASSUME TwoHops, NEW n \in Node, NEW s, Lives(n, s), Running(s), NEW d \in Devices(n),
         NEW f \in Range(s.macq[d])
  PROVE  /\ f \in Frame /\ f.from = n /\ Spoken(s.pool, f)
         /\ Genuine(n, d, Duty(n), s.pool, f)
         /\ \A x \in f.natives :
              /\ x.pid \in Pid /\ Forwards(n, x.pid) /\ Route[n][x.pid].dest = x.mac
              /\ x.mac # Broadcast
<1>1. s \in Good(n, {}) /\ s \in Typed(n, {}) /\ Stocked(n, Duty(n), s)
  BY DEF Lives, Good
<1>2. s.macq \in [Devices(n) -> Seq(Frame)] /\ f \in Frame
  <2>1. s.macq \in [Devices(n) -> Seq(Frame)]
    BY <1>1, Fields
  <2>2. s.macq[d] \in Seq(Frame)
    BY <2>1
  <2> QED BY <2>1, <2>2 DEF Range
<1>3. Genuine(n, d, Duty(n), s.pool, f)
  BY <1>1 DEF Stocked
<1>4. f.reports \subseteq s.pool /\ \A a \in Range(f.acks) : a.pid \in s.pool
  BY <1>1 DEF Typed, Truthful
<1>5. TwoDests(Duty(n))
  BY TwoHopsDests
<1>6. f.src \in Macs(n)
  BY <1>3 DEF Genuine, Macs
<1>7. Spoken(s.pool, f)
  <2>1. Contents(f) \subseteq s.pool /\ (f.hello \/ f.natives # {}) /\ Sums(f) /\ f.from = n
    BY <1>3, <1>5 DEF Genuine, Contents
  <2> QED BY <1>4, <1>6, <2>1 DEF Spoken
<1>8. ASSUME NEW x \in f.natives
      PROVE  /\ x.pid \in Pid /\ Forwards(n, x.pid) /\ Route[n][x.pid].dest = x.mac
             /\ x.mac # Broadcast
  <2>1. <<x.mac, x.pid>> \in Duty(n).legs
    BY <1>3 DEF Genuine
  <2> QED BY <2>1, LegsLead
<1> QED BY <1>2, <1>3, <1>7, <1>8 DEF Genuine

\* IP forwards what it is given to a next hop.
LEMMA IPAnswers ==
  ASSUME NEW m \in Node, NEW s, Lives(m, s), NEW f \in Frame, NEW K, Spoken(K, f)
  PROVE  /\ IPReaction(s, f) \in Sendable(m) \union {NoSend}
         /\ Answers(Duty(m), Contents(f), IPReaction(s, f))
<1>1. s \in Typed(m, {}) /\ s.me = m
  <2>1. s \in Typed(m, {})
    BY DEF Lives, Good
  <2> QED BY <2>1, Fields
<1>2. CASE ~AmINext(s, f)
  BY <1>2 DEF IPReaction, Answers
<1>3. CASE AmINext(s, f)
  <2> DEFINE pid == NativeForMe(s, f)
             x == Route[m][pid]
  <2>1. pid \in Pid /\ pid \in Contents(f)
    BY <1>1, <1>3, NativeForMeType, HeardIsSpoken
  <2>2. IPReaction(s, f) = x
    BY <1>1, <1>3 DEF IPReaction
  <2> HIDE DEF pid
  <2>3. x \in IPSend \union {NoSend}
    BY <2>1, RouteAssumption
  <2>4. x # NoSend => x.id = pid /\ x.iface \in Devices(m)
    BY <2>1, RouteAssumption
  <2>5. x # NoSend => <<x.dest, pid>> \in Duty(m).legs
    BY <2>1, LegsLead DEF Forwards
  <2>6. x \in Sendable(m) \union {NoSend}
    BY <2>3, <2>4 DEF Sendable
  <2>7. Answers(Duty(m), Contents(f), x)
    BY <2>1, <2>4, <2>5 DEF Answers
  <2> QED BY <2>2, <2>6, <2>7
<1> QED BY <1>2, <1>3

\* A node acknowledges what it is the next hop of.
LEMMA OwesNextHop ==
  ASSUME WellConfigured, TwoHops, NEW n \in Node, NEW r, Lives(n, r), Running(r),
         NEW d \in Devices(n), NEW f \in Range(r.macq[d]), NEW m \in Node, NEW s, Lives(m, s)
  PROVE  /\ Owes(Duty(m), s, f)
         /\ AmINext(s, f) => Leads(n, m, NativeForMe(s, f))
<1>1. /\ f \in Frame /\ f.from = n /\ Spoken(r.pool, f)
      /\ \A x \in f.natives :
           x.pid \in Pid /\ Forwards(n, x.pid) /\ Route[n][x.pid].dest = x.mac
  BY SpeaksOfItself
<1>2. s \in Typed(m, {}) /\ s.me = m
  <2>1. s \in Typed(m, {})
    BY DEF Lives, Good
  <2> QED BY <2>1, Fields
<1> SUFFICES ASSUME AmINext(s, f)
             PROVE  /\ [ip |-> NodeIP(f.from), pid |-> NativeForMe(s, f)] \in Duty(m).due
                    /\ Leads(n, m, NativeForMe(s, f))
  BY DEF Owes
<1> DEFINE p == NativeForMe(s, f)
<1>3. PICK x \in f.natives : x.mac \in Macs(m) /\ x.pid = p
  BY <1>1, <1>2, NativeForMeProperties
<1> HIDE DEF p
<1>4. Leads(n, m, p) /\ p \in Pid
  BY <1>1, <1>3 DEF Leads
<1>5. NodeIP(n) \in IPs(n) /\ NodeIP(n) \in Nat
  BY NodeIPType
<1>6. \A k \in Node : NodeIP(n) = NodeIP(k) => k = n
  <2>1. \A k \in Node : NodeIP(k) \in IPs(k)
    BY NodeIPType
  <2> QED BY <1>5, <2>1 DEF WellConfigured
<1>7. [ip |-> NodeIP(n), pid |-> p] \in Duty(m).due
  <2> DEFINE a == [ip |-> NodeIP(n), pid |-> p]
  <2>1. a \in Ack /\ a.ip = NodeIP(n) /\ a.pid = p
    BY <1>4, <1>5 DEF Ack
  <2> HIDE DEF a
  <2>2. a \in Duty(m).due
    BY <1>4, <1>6, <2>1 DEF Duty
  <2> QED BY <2>2 DEF a
<1> QED BY <1>1, <1>4, <1>7 DEF p

\* Whoever hears a frame can read it.
LEMMA HearsGoes ==
  ASSUME WellConfigured, TwoHops, NInv, Simulating, NEW n \in Node, NEW d \in Devices(n),
         NEW f \in Range(cope[n].macq[d]), NEW m \in Node, Ear(m, n, d) # 0
  PROVE  Goes(m, Contents(f), cope[n].pool, Macs(n), cope[m], Hears(m, n, d, f))
<1> DEFINE s == cope[m]
           K == cope[n].pool
           e == Ear(m, n, d)
           sends == IPReaction(s, f)
<1>1. Lives(m, s) /\ Lives(n, cope[n]) /\ Running(s) /\ Running(cope[n])
  BY DEF NInv, Simulating
<1>2. /\ f \in Frame /\ f.from = n /\ Spoken(K, f)
      /\ \A x \in f.natives : x.mac # Broadcast
  BY <1>1, SpeaksOfItself
<1>9. Owes(Duty(m), s, f)
  <2> HIDE DEF s, K
  <2> QED BY <1>1, <1>2, OwesNextHop
<1>3. s \in Typed(m, {})
  BY <1>1 DEF Lives, Good
<1>4. e \in Devices(m)
  BY <1>3, DeviceOnProperties DEF Ear
<1>5. sends \in Sendable(m) \union {NoSend} /\ Answers(Duty(m), Contents(f), sends)
  <2> HIDE DEF s, K
  <2> QED BY <1>1, <1>2, IPAnswers
<1>6. Readable(s, f)
  <2>1. s.me = m
    BY <1>3, Fields
  <2>2. \A x, y \in f.natives : x # y /\ x.mac \in Macs(m) => y.pid \in s.pool
    BY DEF NInv, Decodable
  <2> HIDE DEF s
  <2> QED BY <1>2, <2>1, <2>2 DEF Readable, Spoken, Sums
<1>7. Hears(m, n, d, f) = Recv(s, e, f, sends)
  BY DEF Hears
<1> HIDE DEF s, K, e, sends
<1>8. Goes(m, Contents(f), K, Macs(f.from), s, Recv(s, e, f, sends))
  BY <1>1, <1>2, <1>4, <1>5, <1>6, <1>9, RecvGoes
<1> QED BY <1>2, <1>7, <1>8 DEF s, K

\* A node alone goes on.
LEMMA AloneHeeds ==
  ASSUME NInv, NEW n \in Node, NEW r, Goes(n, {}, {}, {}, cope[n], r),
         cope' = [cope EXCEPT ![n] = r]
  PROVE  Heeds(n)
<1>1. cope = [m \in Node |-> cope[m]] /\ \A m \in Node : Lives(m, cope[m])
  BY DEF NInv
<1>2. cope' = [m \in Node |-> IF m = n THEN r ELSE cope[m]]
  BY <1>1
<1>3. cope' = [m \in Node |-> cope'[m]]
  BY <1>2
<1>4. Goes(n, cope[n].pool, cope[n].pool, Macs(n), cope[n], cope'[n])
  BY <1>2, GoesWider
<1>5. ASSUME NEW m \in Node, m # n
      PROVE  Goes(m, cope[n].pool, cope[n].pool, Macs(n), cope[m], cope'[m])
  BY <1>1, <1>2, <1>5, GoesIdle
<1> QED BY <1>3, <1>4, <1>5 DEF Heeds

\* Every step makes every node go on.
LEMMA NextGoes ==
  ASSUME WellConfigured, TwoHops, NInv, [Next]_vars
  PROVE  /\ todo' \subseteq Flow
         /\ \/ cope' = cope
            \/ \E n \in Node : Heeds(n)
            \/ \E x \in Flow : SetsOut(x)
<1>1. /\ cope = [n \in Node |-> cope[n]] /\ todo \subseteq Flow
      /\ \A n \in Node : Lives(n, cope[n])
  BY DEF NInv
<1>2. ASSUME NEW x \in todo, Originate(x)
      PROVE  todo' \subseteq Flow /\ SetsOut(x) /\ x \in Flow
  <2> DEFINE n == x.node
             y == Route[x.node][x.pid]
             r == EnqueueData(cope[n], y)
  <2>1. x \in Flow /\ n \in Node /\ x.pid \in Pid /\ y # NoSend
    BY <1>1, FlowAssumption
  <2>2. y \in Sendable(n) /\ y.id = x.pid
    BY <2>1, RouteAssumption DEF Sendable
  <2>3. <<y.dest, y.id>> \in Duty(n).legs
    BY <2>1, <2>2, LegsLead DEF Forwards
  <2>4. Lives(n, cope[n]) /\ n \in DOMAIN cope
    BY <1>1, <2>1
  <2>5. cope' = [cope EXCEPT ![n] = r] /\ todo' \subseteq Flow
    BY <1>1, <1>2 DEF Originate
  <2> HIDE DEF n, y
  <2>6. Goes(n, {y.id}, {}, {}, cope[n], r)
    BY <2>1, <2>2, <2>3, <2>4, EnqueueDataGoes
  <2> HIDE DEF r
  <2>7. cope'[n] = r
    BY <2>4, <2>5
  <2> QED BY <1>1, <2>1, <2>2, <2>5, <2>6, <2>7 DEF SetsOut, n
<1>3. ASSUME NEW n \in Greeters, NEW ids \in [Devices(n) -> HelloIds],
             HelloTimerExpire(n, ids)
      PROVE  todo' \subseteq Flow /\ n \in Node /\ Heeds(n)
  <2> DEFINE r == SendHello(cope[n], ids)
  <2>1. n \in Node /\ Lives(n, cope[n])
    BY <1>1, MediumAssumption
  <2>2. cope' = [cope EXCEPT ![n] = r] /\ todo' = todo
    BY <1>3 DEF HelloTimerExpire
  <2>3. Goes(n, {}, {}, {}, cope[n], r)
    BY <2>1, SendHelloGoes
  <2> HIDE DEF r
  <2> QED BY <1>1, <2>1, <2>2, <2>3, AloneHeeds
<1>4. ASSUME NEW n \in Node, Try(n)
      PROVE  todo' \subseteq Flow /\ Heeds(n)
  <2> DEFINE r == TrySend(cope[n])
  <2>1. cope' = [cope EXCEPT ![n] = r] /\ todo' = todo
    BY <1>4 DEF Try
  <2>2. Goes(n, {}, {}, {}, cope[n], r)
    BY <1>1, TrySendGoes
  <2> HIDE DEF r
  <2> QED BY <1>1, <2>1, <2>2, AloneHeeds
<1>5. ASSUME NEW n \in Node, TimerExpire(n)
      PROVE  todo' \subseteq Flow /\ Heeds(n)
  <2> DEFINE r == Retransmit(cope[n])
  <2>1. cope' = [cope EXCEPT ![n] = r] /\ todo' = todo
    BY <1>5 DEF TimerExpire
  <2>2. Goes(n, {}, {}, {}, cope[n], r)
    BY <1>1, RetransmitGoes
  <2> HIDE DEF r
  <2> QED BY <1>1, <2>1, <2>2, AloneHeeds
<1>6. ASSUME NEW n \in Node, NEW d \in Devices(n), NEW hearers \in SUBSET Listeners(n, d),
             MacSend(n, d, hearers)
      PROVE  todo' \subseteq Flow /\ Heeds(n)
  <2> DEFINE f == Head(cope[n].macq[d])
             q == [cope[n] EXCEPT !.macq[d] = Tail(@)]
  <2>1. /\ Simulating /\ cope[n].macq[d] # <<>> /\ todo' = todo
        /\ cope' = [m \in Node |-> IF m = n THEN q
                                   ELSE IF m \in hearers THEN Hears(m, n, d, f)
                                   ELSE cope[m]]
    BY <1>6 DEF MacSend
  <2>2. f \in Range(cope[n].macq[d]) /\ Goes(n, {}, {}, {}, cope[n], q)
    BY <1>1, <2>1, MacSendGoes
  <2> HIDE DEF f, q
  <2>3. ASSUME NEW m \in Node
        PROVE  Goes(m, cope[n].pool, cope[n].pool, Macs(n), cope[m], cope'[m])
    <3>1. CASE m = n
      BY <2>1, <2>2, <3>1, GoesWider
    <3>2. CASE m # n /\ m \in hearers
      <4>1. Ear(m, n, d) # 0
        BY <3>2 DEF Listeners
      <4>2. Goes(m, Contents(f), cope[n].pool, Macs(n), cope[m], Hears(m, n, d, f))
        BY <2>1, <2>2, <4>1, HearsGoes
      <4>3. Contents(f) \subseteq cope[n].pool
        <5>1. Lives(n, cope[n]) /\ Running(cope[n])
          BY <1>1, <2>1 DEF Simulating
        <5> QED BY <2>2, <5>1, SpeaksOfItself DEF Spoken
      <4>4. Goes(m, cope[n].pool, cope[n].pool, Macs(n), cope[m], Hears(m, n, d, f))
        BY <4>2, <4>3, GoesWider
      <4> QED BY <2>1, <3>2, <4>4
    <3>3. CASE m # n /\ m \notin hearers
      BY <1>1, <2>1, <3>3, GoesIdle
    <3> QED BY <3>1, <3>2, <3>3
  <2>4. cope' = [m \in Node |-> cope'[m]]
    BY <2>1
  <2> QED BY <1>1, <2>1, <2>3, <2>4 DEF Heeds
<1>8. ASSUME NEW n \in Node, TimerDue(n)
      PROVE  todo' \subseteq Flow /\ Heeds(n)
  <2> DEFINE r == [cope[n] EXCEPT !.timer = "due"]
  <2>1. cope[n].timer = "running" /\ cope' = [cope EXCEPT ![n] = r] /\ todo' = todo
    BY <1>8 DEF TimerDue
  <2>2. Goes(n, {}, {}, {}, cope[n], r)
    BY <1>1, <2>1, TimerDueGoes
  <2> HIDE DEF r
  <2> QED BY <1>1, <2>1, <2>2, AloneHeeds
<1>7. CASE UNCHANGED vars
  BY <1>1, <1>7 DEF vars
<1> QED BY <1>2, <1>3, <1>4, <1>5, <1>6, <1>7, <1>8 DEF Next

-------------------------------------------------------------------------------
(* What one node tells another                                             *)

\* A learning step of the network is one of IPCopeKnowledge.
LEMMA HeedsHears ==
  ASSUME NEW n \in Node, Heeds(n)
  PROVE  Knowledge!Hear(n) /\ KnowledgeProofs!Hear(n)
<1> DEFINE holds1 == [m \in Node |-> cope[m].pool]'
           believes1 == [m \in Node |-> cope[m].info]'
<1>1. ASSUME NEW m \in Node
      PROVE  /\ holds1[m] = cope'[m].pool /\ believes1[m] = cope'[m].info
             /\ cope[m].pool \subseteq cope'[m].pool
             /\ cope'[m].pool \subseteq cope[m].pool \union cope[n].pool
             /\ cope[m].info \subseteq cope'[m].info
             /\ cope'[m].info \subseteq cope[m].info \union (cope[n].pool \X Macs(n))
             /\ cope'[m].pool \in SUBSET Pid
  <2>1. Goes(m, cope[n].pool, cope[n].pool, Macs(n), cope[m], cope'[m])
    BY DEF Heeds
  <2>2. cope'[m].pool \in SUBSET Pid
    BY <2>1 DEF Goes, Lives, Good, Typed, IState
  <2> QED BY <2>1, <2>2 DEF Goes, Learns
<1>2. holds1 \in [Node -> SUBSET Pid]
  BY <1>1
<1> QED BY <1>1, <1>2 DEF Knowledge!Hear, KnowledgeProofs!Hear

\* A packet sets out as in IPCopeKnowledge, unless its id was held before.
LEMMA SetsOutOriginates ==
  ASSUME NInv, NEW x \in Flow, SetsOut(x)
  PROVE  /\ x.node \in Node /\ x.pid \in Pid
         /\ \/ Knowledge!Originate(x.node, x.pid) /\ KnowledgeProofs!Originate(x.node, x.pid)
            \/ UNCHANGED Knowledge!vars /\ UNCHANGED KnowledgeProofs!vars
<1> DEFINE n == x.node
           p == x.pid
           holds0 == [m \in Node |-> cope[m].pool]
           believes0 == [m \in Node |-> cope[m].info]
           holds1 == [m \in Node |-> cope'[m].pool]
           believes1 == [m \in Node |-> cope'[m].info]
<1>1. n \in Node /\ p \in Pid
  BY FlowAssumption
<1>2. /\ cope' = [cope EXCEPT ![n] = cope'[n]]
      /\ Goes(n, {p}, {}, {}, cope[n], cope'[n])
  BY DEF SetsOut
<1>3. cope[n].pool \subseteq cope'[n].pool /\ cope'[n].pool \subseteq cope[n].pool \union {p}
  BY <1>2 DEF Goes, Learns
<1>4. cope'[n].info = cope[n].info
  BY <1>2 DEF Goes, Learns
<1>5. \A m \in Node : m # n => cope'[m] = cope[m]
  BY <1>2 DEF NInv
<1>6. believes1 = believes0
  BY <1>4, <1>5
<1>7. CASE p \in cope'[n].pool
  <2>1. cope'[n].pool = cope[n].pool \union {p}
    BY <1>3, <1>7
  <2>2. holds1 = [holds0 EXCEPT ![n] = @ \union {p}]
    BY <1>1, <1>5, <2>1
  <2> QED BY <1>1, <1>6, <2>2 DEF Knowledge!Originate, KnowledgeProofs!Originate
<1>8. CASE p \notin cope'[n].pool
  <2>1. cope'[n].pool = cope[n].pool
    BY <1>3, <1>8
  <2>2. holds1 = holds0
    BY <1>5, <2>1
  <2> QED BY <1>1, <1>6, <2>2 DEF Knowledge!vars, KnowledgeProofs!vars
<1> QED BY <1>7, <1>8

-------------------------------------------------------------------------------
(* The invariant                                                           *)

\* The name under which a node knows another is an address of that one.
LEMMA NameOfNode ==
  ASSUME WellConfigured, NEW n \in Node, NEW X, NEW s \in Typed(n, X), Tied(s), Whole(s),
         NEW m \in Node, NEW mac \in Macs(m), Remembers(s.nbrs, mac)
  PROVE  NameIn(s.nbrs, mac) \in Macs(m)
<1> DEFINE W == Waiting(s.queue)
<1>1. /\ s.nbrs \in Seq(Neighbor) /\ Linked(s.nbrs, W)
      /\ \A i \in DOMAIN s.nbrs : Plausible(s.nbrs[i])
  BY DEF Typed, IState, Tied, Whole, Complete
<1>2. PICK i \in DOMAIN s.nbrs : HasMac(s.nbrs[i], mac)
  BY DEF Remembers
<1> DEFINE nbr == s.nbrs[i]
           M == {t.mac : t \in nbr.pairs}
<1> HIDE DEF W
<1>3. NameIn(s.nbrs, mac) = GetMac(nbr)
  BY <1>1, <1>2, RecordOfMac
<1>4. M \subseteq Macs(m)
  BY <1>1, <1>2, RecordWithMac DEF IsOf
<1>5. nbr \in Neighbor
  BY <1>1
<1>6. M \in SUBSET Nat /\ M # {}
  BY <1>5, NeighborFields DEF Trinity
<1>7. GetMac(nbr) \in M
  <2>1. Min(M) \in M
    <3> HIDE DEF M
    <3> QED BY <1>6, MinExists
  <2> QED BY <2>1 DEF GetMac
<1> QED BY <1>3, <1>4, <1>7

\* What a node hands over it codes for nodes it believes to hold the other
\* packets, and beliefs are true; what they hold they keep.
LEMMA NextDecodable ==
  ASSUME WellConfigured, NInv, KnowledgeProofs!Truth',
         \A m \in Node : \E I, K, N : Goes(m, I, K, N, cope[m], cope'[m])
  PROVE  Decodable'
<1> SUFFICES ASSUME NEW n \in Node, NEW d \in Devices(n), NEW f \in Range(cope'[n].macq[d]),
                    NEW x \in f.natives, NEW y \in f.natives, NEW m \in Node,
                    x # y, x.mac \in Macs(m)
             PROVE  y.pid \in cope'[m].pool
  BY DEF Decodable
<1> DEFINE s == cope[n]
           r == cope'[n]
<1>1. /\ Lives(n, r)
      /\ f \in Range(s.macq[d]) \/ Fits(n, s, r, Handover(d, f))
  BY DEF Goes
<1>2. cope[m].pool \subseteq cope'[m].pool
  BY DEF Goes, Learns
<1>3. CASE f \in Range(s.macq[d])
  BY <1>2, <1>3 DEF NInv, Decodable
<1>4. CASE Fits(n, s, r, Handover(d, f))
  <2> DEFINE name == NameIn(r.nbrs, x.mac)
  <2>1. Handover(d, f).frame = f /\ Coded(f)
    BY DEF Handover, Coded
  <2>2. x.mac # Broadcast /\ Remembers(r.nbrs, x.mac) /\ <<y.pid, name>> \in r.info
    BY <1>4, <2>1 DEF Fits
  <2>3. name \in Macs(m)
    <3> HIDE DEF r
    <3>1. r \in Typed(n, {}) /\ Tied(r) /\ Whole(r)
      BY <1>1 DEF Lives, Good
    <3> QED BY <2>2, <3>1, NameOfNode
  <2> HIDE DEF name
  <2>4. \A b \in cope'[n].info : b[2] \in Macs(m) => b[1] \in cope'[m].pool
    BY DEF KnowledgeProofs!Truth, KnowledgeProofs!BeliefsTrue
  <2> QED BY <2>2, <2>3, <2>4
<1> QED BY <1>1, <1>3, <1>4

\* Every step of the network keeps its invariant, and is a step of
\* IPCopeKnowledge or none.
LEMMA NextNet ==
  ASSUME WellConfigured, TwoHops, NInv, [Next]_vars
  PROVE  NInv' /\ [Knowledge!Next]_(Knowledge!vars)
<1>1. /\ todo' \subseteq Flow
      /\ cope' = cope \/ (\E n \in Node : Heeds(n)) \/ \E x \in Flow : SetsOut(x)
  BY NextGoes
<1>2. KnowledgeProofs!NamesDisjoint
  BY DEF WellConfigured, KnowledgeProofs!NamesDisjoint
<1>3. KnowledgeProofs!Truth /\ cope = [n \in Node |-> cope[n]]
      /\ \A n \in Node : Lives(n, cope[n])
  BY DEF NInv
<1>4. CASE cope' = cope
  <2>1. KnowledgeProofs!Truth' /\ Decodable'
    BY <1>4 DEF NInv, KnowledgeProofs!Truth, KnowledgeProofs!BeliefsTrue, Decodable
  <2>2. UNCHANGED Knowledge!vars
    BY <1>4 DEF Knowledge!vars
  <2> QED BY <1>1, <1>3, <1>4, <2>1, <2>2 DEF NInv
<1>5. ASSUME NEW n \in Node, Heeds(n)
      PROVE  NInv' /\ [Knowledge!Next]_(Knowledge!vars)
  <2>1. Knowledge!Hear(n) /\ KnowledgeProofs!Hear(n)
    BY <1>5, HeedsHears
  <2>2. KnowledgeProofs!Truth'
    BY <1>2, <1>3, <2>1, KnowledgeProofs!TruthHear
  <2>3. /\ cope' = [m \in Node |-> cope'[m]]
        /\ \A m \in Node : Goes(m, cope[n].pool, cope[n].pool, Macs(n), cope[m], cope'[m])
    BY <1>5 DEF Heeds
  <2>4. Decodable'
    BY <2>2, <2>3, NextDecodable
  <2>5. \A m \in Node : Lives(m, cope'[m])
    BY <2>3 DEF Goes
  <2>6. Knowledge!Next
    BY <2>1 DEF Knowledge!Next
  <2> QED BY <1>1, <2>2, <2>3, <2>4, <2>5, <2>6 DEF NInv
<1>6. ASSUME NEW x \in Flow, SetsOut(x)
      PROVE  NInv' /\ [Knowledge!Next]_(Knowledge!vars)
  <2> DEFINE n == x.node
  <2>1. /\ n \in Node /\ x.pid \in Pid
        /\ \/ Knowledge!Originate(n, x.pid) /\ KnowledgeProofs!Originate(n, x.pid)
           \/ UNCHANGED Knowledge!vars /\ UNCHANGED KnowledgeProofs!vars
    BY <1>6, SetsOutOriginates
  <2>2. [KnowledgeProofs!Next]_(KnowledgeProofs!vars) /\ [Knowledge!Next]_(Knowledge!vars)
    BY <2>1 DEF KnowledgeProofs!Next, Knowledge!Next
  <2>3. KnowledgeProofs!Truth'
    BY <1>2, <1>3, <2>2, KnowledgeProofs!TruthNext
  <2>4. /\ cope' = [cope EXCEPT ![n] = cope'[n]]
        /\ Goes(n, {x.pid}, {}, {}, cope[n], cope'[n])
    BY <1>6 DEF SetsOut
  <2>5. cope' = [m \in Node |-> cope'[m]]
    BY <1>3, <2>4
  <2>6. ASSUME NEW m \in Node
        PROVE  \E I, K, N : Goes(m, I, K, N, cope[m], cope'[m])
    <3>1. CASE m = n
      BY <2>4, <3>1
    <3>2. CASE m # n
      <4>1. cope'[m] = cope[m]
        BY <1>3, <2>4, <3>2
      <4>2. Goes(m, {}, {}, {}, cope[m], cope[m])
        BY <1>3, GoesIdle
      <4> QED BY <4>1, <4>2
    <3> QED BY <3>1, <3>2
  <2>7. Decodable'
    BY <2>3, <2>6, NextDecodable
  <2>8. \A m \in Node : Lives(m, cope'[m])
    BY <2>6 DEF Goes
  <2> QED BY <1>1, <2>2, <2>3, <2>5, <2>7, <2>8 DEF NInv
<1> QED BY <1>1, <1>4, <1>5, <1>6

\* In a network whose addresses name one node each, and whose nodes code two
\* packets at most, the nodes and what they believe stay sound.
THEOREM NetworkInvariance ==
  ASSUME WellConfigured, TwoHops
  PROVE  Spec => []NInv
<1>1. NInv /\ [Next]_vars => NInv'
  BY NextNet
<1> QED BY <1>1, NetInit, PTL DEF Spec

\* The network implements IPCopeKnowledge: whatever nodes overhear, decode,
\* report, acknowledge and forward, packets only come from nodes that hold
\* them, and so do beliefs.
THEOREM ImplementsKnowledge ==
  ASSUME WellConfigured, TwoHops
  PROVE  Spec => SpreadsTruth
<1>1. Init => Knowledge!Init
  <2> SUFFICES ASSUME Init PROVE Knowledge!Init
    OBVIOUS
  <2>1. \A n \in Node : cope[n].pool = {} /\ cope[n].info = {}
    BY DEF Init, Init0
  <2> QED BY <2>1 DEF Knowledge!Init
<1>2. NInv /\ [Next]_vars => [Knowledge!Next]_(Knowledge!vars)
  BY NextNet
<1> QED BY <1>1, <1>2, NetworkInvariance, PTL DEF Spec, SpreadsTruth, Knowledge!Spec

\* SetItems and Encode: no node ever takes another to hold a packet it does
\* not hold, although it learns from frames it only overhears.
THEOREM BeliefsAreTrue ==
  ASSUME WellConfigured, TwoHops
  PROVE  Spec => []Knowledge!BeliefsTrue
<1>1. NInv => Knowledge!BeliefsTrue
  BY DEF NInv, KnowledgeProofs!Truth, KnowledgeProofs!BeliefsTrue, Knowledge!BeliefsTrue
<1> QED BY <1>1, NetworkInvariance, PTL

\* Encode: whatever is lost, each next hop of a coded frame has the other
\* packets in its pool when the frame is coded, and still when it arrives.
THEOREM AlwaysDecodable ==
  ASSUME WellConfigured, TwoHops
  PROVE  Spec => []FramesDecodable
<1>1. NInv => FramesDecodable
  BY DEF NInv, Decodable, FramesDecodable
<1> QED BY <1>1, NetworkInvariance, PTL

\* No assertion and no fatal error is reached anywhere but the one of
\* GetIndexChannel, for a neighbour that is not on the channel of a code, and
\* the one of ns-3, for a timer that is armed while it is due: the frames of
\* the other nodes are what IPCopeProtocol assumes of them.
THEOREM OnlyChannelsAbortAnybody ==
  ASSUME WellConfigured, TwoHops
  PROVE  Spec => []\A n \in Node : cope[n].abort \in {"none", "IndexChannel", "TimerPending"}
<1> DEFINE P == \A n \in Node : cope[n].abort \in {"none", "IndexChannel", "TimerPending"}
<1>1. NInv => P
  <2> SUFFICES ASSUME NInv, NEW n \in Node
               PROVE  cope[n].abort \in {"none", "IndexChannel", "TimerPending"}
    OBVIOUS
  <2> DEFINE s == cope[n]
  <2>1. Lives(n, s)
    BY DEF NInv
  <2>2. s.abort \in Aborts
    BY <2>1 DEF Lives, Good, Typed, IState
  <2>3. s.abort \notin Stuck \union Misled \union Garbled
    BY <2>1 DEF Lives, Tied, Whole
  <2> HIDE DEF s
  <2>4. s.abort \in {"none", "IndexChannel", "TimerPending"}
    BY <2>2, <2>3 DEF Aborts, Stuck, Misled, Garbled
  <2> QED BY <2>4 DEF s
<1> QED BY <1>1, NetworkInvariance, PTL

\* When all radios can hear each other, none is reached but the one of ns-3.
THEOREM NobodyAborts ==
  ASSUME WellConfigured, TwoHops, OneChannel
  PROVE  Spec => []NetworkNoAbort
<1> DEFINE P == \A n \in Node : cope[n].abort \in {"none", "IndexChannel", "TimerPending"}
<1>1. NInv /\ P => NetworkNoAbort
  BY DEF NInv, Lives, Tied, Stuck, NetworkNoAbort
<1>2. Spec => []P
  BY OnlyChannelsAbortAnybody
<1> QED BY <1>1, <1>2, NetworkInvariance, PTL
===============================================================================
