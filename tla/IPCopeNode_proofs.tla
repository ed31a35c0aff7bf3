-------------------------- MODULE IPCopeNode_proofs ---------------------------
(***************************************************************************)
(* Every handler of a node keeps the state typed, the queues bounded and   *)
(* free of duplicates, the retransmission timer armed while packets wait   *)
(* for it, and the reports and acknowledgments truthful.                   *)
(*                                                                         *)
(* The virtual queues and the output queue stay consistent: what a virtual *)
(* queue points to is queued, no two records share an address or a         *)
(* pointer, and, when addresses name one node, every waiting packet is in  *)
(* the virtual queue of the neighbour that is its next hop.  Every handler *)
(* keeps this, aborting or not; several assertions of the code follow.     *)
(*                                                                         *)
(* The lemmas are about any node me, alone or in a network.                *)
(***************************************************************************)
EXTENDS IPCopeNode, IPCopeNeighbor_proofs, FiniteSetTheorems

-------------------------------------------------------------------------------
(* The inductive invariant                                                 *)

\* The type of a node, with the queues bounded and free of duplicates.
IState(me) ==
  [me: {me}, queue: Bounded(Entry), rtqueue: Bounded(RtEntry), nbrs: Seq(Neighbor),
   info: SUBSET (Pid \X Nat), pool: SUBSET Pid, recps: Seq(Pid), acks: Seq(Ack),
   timer: Timer, macq: [Devices(me) -> Seq(Frame)], abort: Aborts]

\* What IP of a node may send.
Sendable(me) == {x \in IPSend : x.iface \in Devices(me)}

\* Whatever is reported or acknowledged is in P.
Truthful(me, s, P) ==
  /\ Range(s.recps) \subseteq P
  /\ \A a \in Range(s.acks) : a.pid \in P
  /\ \A d \in Devices(me) : \A f \in Range(s.macq[d]) :
       f.reports \subseteq P /\ \A a \in Range(f.acks) : a.pid \in P

\* While a coded packet is given to IP, its acknowledgment may already have
\* been sent and the packet is not in the pool yet: X holds that packet.
Typed(me, X) == {s \in IState(me) : Running(s) => Truthful(me, s, s.pool \union X)}

Armed(s) == Running(s) /\ s.rtqueue # <<>> => s.timer # "idle"

Good(me, X) == {s \in Typed(me, X) : Armed(s)}

\* The fields of a typed state.
LEMMA Fields ==
  ASSUME NEW me \in Node, NEW X, NEW s \in Typed(me, X)
  PROVE  /\ s.me = me
         /\ s.queue \in Bounded(Entry) /\ s.rtqueue \in Bounded(RtEntry)
         /\ s.queue \in Seq(Entry) /\ s.rtqueue \in Seq(RtEntry)
         /\ s.nbrs \in Seq(Neighbor)
         /\ s.info \in SUBSET (Pid \X Nat) /\ s.pool \in SUBSET Pid
         /\ s.recps \in Seq(Pid) /\ s.acks \in Seq(Ack)
         /\ s.timer \in Timer /\ s.macq \in [Devices(me) -> Seq(Frame)]
         /\ s.abort \in Aborts
BY DEF Typed, IState, Bounded

\* Changes outside the pool, the reports, the acknowledgments and the frames.
LEMMA UpdateTyped ==
  ASSUME NEW me \in Node, NEW X, NEW s \in Typed(me, X)
  PROVE  /\ \A q \in Bounded(Entry) : [s EXCEPT !.queue = q] \in Typed(me, X)
         /\ \A q \in Bounded(RtEntry) : [s EXCEPT !.rtqueue = q] \in Typed(me, X)
         /\ \A n \in Seq(Neighbor) : [s EXCEPT !.nbrs = n] \in Typed(me, X)
         /\ \A i \in SUBSET (Pid \X Nat) : [s EXCEPT !.info = i] \in Typed(me, X)
         /\ \A t \in Timer : [s EXCEPT !.timer = t] \in Typed(me, X)
<1>1. ASSUME NEW q \in Bounded(Entry) PROVE [s EXCEPT !.queue = q] \in Typed(me, X)
  BY DEF Typed, IState, Truthful, Running
<1>2. ASSUME NEW q \in Bounded(RtEntry) PROVE [s EXCEPT !.rtqueue = q] \in Typed(me, X)
  BY DEF Typed, IState, Truthful, Running
<1>3. ASSUME NEW n \in Seq(Neighbor) PROVE [s EXCEPT !.nbrs = n] \in Typed(me, X)
  BY DEF Typed, IState, Truthful, Running
<1>4. ASSUME NEW i \in SUBSET (Pid \X Nat) PROVE [s EXCEPT !.info = i] \in Typed(me, X)
  BY DEF Typed, IState, Truthful, Running
<1>5. ASSUME NEW t \in Timer PROVE [s EXCEPT !.timer = t] \in Typed(me, X)
  BY DEF Typed, IState, Truthful, Running
<1> QED BY <1>1, <1>2, <1>3, <1>4, <1>5

\* Changes that leave the retransmission queue and its timer alone, too.
LEMMA UpdateGood ==
  ASSUME NEW me \in Node, NEW X, NEW s \in Good(me, X)
  PROVE  /\ \A q \in Bounded(Entry) : [s EXCEPT !.queue = q] \in Good(me, X)
         /\ \A n \in Seq(Neighbor) : [s EXCEPT !.nbrs = n] \in Good(me, X)
         /\ \A i \in SUBSET (Pid \X Nat) : [s EXCEPT !.info = i] \in Good(me, X)
<1>1. s \in Typed(me, X) /\ s \in IState(me)
  BY DEF Good, Typed
<1>2. ASSUME NEW q \in Bounded(Entry) PROVE [s EXCEPT !.queue = q] \in Good(me, X)
  <2>1. [s EXCEPT !.queue = q] \in Typed(me, X)
    BY <1>1, UpdateTyped
  <2> QED BY <1>1, <2>1 DEF Good, Armed, Running, IState
<1>3. ASSUME NEW n \in Seq(Neighbor) PROVE [s EXCEPT !.nbrs = n] \in Good(me, X)
  <2>1. [s EXCEPT !.nbrs = n] \in Typed(me, X)
    BY <1>1, UpdateTyped
  <2> QED BY <1>1, <2>1 DEF Good, Armed, Running, IState
<1>4. ASSUME NEW i \in SUBSET (Pid \X Nat) PROVE [s EXCEPT !.info = i] \in Good(me, X)
  <2>1. [s EXCEPT !.info = i] \in Typed(me, X)
    BY <1>1, UpdateTyped
  <2> QED BY <1>1, <2>1 DEF Good, Armed, Running, IState
<1> QED BY <1>2, <1>3, <1>4

\* A node that reached an assertion keeps the invariant.
LEMMA AbortGood ==
  ASSUME NEW me \in Node, NEW X, NEW s \in Typed(me, X), NEW where \in Aborts,
         where # "none"
  PROVE  Abort(s, where) \in Good(me, X) /\ ~Running(Abort(s, where))
BY DEF Abort, Good, Typed, IState, Armed, Running

\* The node stopped: nothing is promised but the type.
LEMMA StoppedGood ==
  ASSUME NEW me \in Node, NEW X, NEW Y, NEW s \in Typed(me, X), ~Running(s)
  PROVE  s \in Good(me, Y)
BY DEF Good, Typed, Armed

\* DoSendEnd leaves the timer armed, whatever it was before.
LEMMA DoSendEndGood ==
  ASSUME NEW me \in Node, NEW X, NEW s \in Typed(me, X)
  PROVE  DoSendEnd(s) \in Good(me, X)
<1>1. s.timer \in {"idle", "running", "due"}
  BY Fields DEF Timer
<1>2. CASE ~Running(s)
  BY <1>2, StoppedGood DEF DoSendEnd
<1>3. CASE Running(s) /\ s.timer = "idle"
  <2>1. DoSendEnd(s) = [s EXCEPT !.timer = "running"]
    BY <1>3 DEF DoSendEnd
  <2>2. [s EXCEPT !.timer = "running"] \in Typed(me, X)
    BY UpdateTyped DEF Timer
  <2>3. [s EXCEPT !.timer = "running"].timer = "running"
    BY DEF Typed, IState
  <2> QED BY <2>1, <2>2, <2>3 DEF Good, Armed
<1>4. CASE Running(s) /\ s.timer = "running"
  BY <1>4 DEF DoSendEnd, Good, Armed
<1>5. CASE Running(s) /\ s.timer = "due"
  <2>1. DoSendEnd(s) = Abort(s, "TimerPending")
    BY <1>5 DEF DoSendEnd
  <2> QED BY <2>1, AbortGood DEF Aborts
<1> QED BY <1>1, <1>2, <1>3, <1>4, <1>5

-------------------------------------------------------------------------------
(* Transmitting                                                            *)

\* A header takes no more than there is.
LEMMA ShareBounds ==
  ASSUME NEW me \in Node, NEW X, NEW s \in Typed(me, X), NEW S, NEW waiting \in Seq(S)
  PROVE  Share(s, waiting) \in 0..Len(waiting)
BY Fields DEF Share

\* Part of a list reports no more than the list.
LEMMA SubSeqRange ==
  ASSUME NEW S, NEW q \in Seq(S), NEW m \in 1..Len(q) + 1, NEW n \in 0..Len(q)
  PROVE  SubSeq(q, m, n) \in Seq(S) /\ Range(SubSeq(q, m, n)) \subseteq Range(q)
<1>1. /\ SubSeq(q, m, n) \in Seq(S)
      /\ \A i \in DOMAIN SubSeq(q, m, n) :
           m + i - 1 \in DOMAIN q /\ SubSeq(q, m, n)[i] = q[m + i - 1]
  BY SubSeqProperties
<1> QED BY <1>1 DEF Range

\* An element more.
LEMMA AppendRange ==
  ASSUME NEW S, NEW q \in Seq(S), NEW e \in S
  PROVE  Append(q, e) \in Seq(S) /\ Range(Append(q, e)) = Range(q) \union {e}
<1>1. /\ Append(q, e) \in Seq(S)
      /\ DOMAIN Append(q, e) = 1..Len(q) + 1
      /\ \A i \in 1..Len(q) : Append(q, e)[i] = q[i]
      /\ Append(q, e)[Len(q) + 1] = e
  BY AppendProperties
<1>2. 1..Len(q) + 1 = (1..Len(q)) \union {Len(q) + 1} /\ DOMAIN q = 1..Len(q)
  OBVIOUS
<1> QED BY <1>1, <1>2 DEF Range

\* Turning a list round adds nothing to it.
LEMMA ReverseRange ==
  ASSUME NEW S, NEW q \in Seq(S)
  PROVE  Reverse(q) \in Seq(S) /\ Range(Reverse(q)) \subseteq Range(q)
<1>1. \A i \in 1..Len(q) : Len(q) - i + 1 \in 1..Len(q)
  OBVIOUS
<1> QED BY <1>1 DEF Reverse, Range

\* A frame reports and acknowledges only what was waiting to be.
LEMMA TransmitTyped ==
  ASSUME NEW me \in Node, NEW X, NEW r, r.s \in Typed(me, X), Running(r.s),
         r.natives \in SUBSET Native, r.payload \in SUBSET Pid, r.dest \in Nat
  PROVE  Transmit(r) \in Typed(me, X)
<1> DEFINE s == r.s
           P == s.pool \union X
           n == Share(s, s.recps)
           m == Len(s.acks) - Share(s, s.acks)
           sent == SubSeq(s.recps, 1, n)
           left == SubSeq(s.recps, n + 1, Len(s.recps))
           acked == Reverse(SubSeq(s.acks, m + 1, Len(s.acks)))
           kept == SubSeq(s.acks, 1, m)
           f == [hello |-> FALSE, from |-> s.me, src |-> RadiosOf[s.me][r.iface].mac,
                 dest |-> r.dest, natives |-> r.natives, payload |-> r.payload,
                 reports |-> Range(sent), acks |-> acked]
           u == [s EXCEPT !.recps = left, !.acks = kept]
           v == [u EXCEPT !.macq[r.iface] = Append(@, f)]
<1>1. s \in IState(me) /\ Truthful(me, s, P) /\ s.recps \in Seq(Pid) /\ s.acks \in Seq(Ack)
  BY Fields DEF Typed
<1>2. n \in 0..Len(s.recps) /\ m \in 0..Len(s.acks)
  <2>1. Share(s, s.acks) \in 0..Len(s.acks)
    BY <1>1, ShareBounds
  <2> QED BY <1>1, <2>1, ShareBounds
<1> HIDE DEF n, m
<1>3. /\ sent \in Seq(Pid) /\ Range(sent) \subseteq Range(s.recps)
      /\ left \in Seq(Pid) /\ Range(left) \subseteq Range(s.recps)
      /\ kept \in Seq(Ack) /\ Range(kept) \subseteq Range(s.acks)
      /\ acked \in Seq(Ack) /\ Range(acked) \subseteq Range(s.acks)
  <2>1. sent \in Seq(Pid) /\ Range(sent) \subseteq Range(s.recps)
    BY <1>1, <1>2, SubSeqRange
  <2>2. left \in Seq(Pid) /\ Range(left) \subseteq Range(s.recps)
    BY <1>1, <1>2, SubSeqRange
  <2>3. kept \in Seq(Ack) /\ Range(kept) \subseteq Range(s.acks)
    BY <1>1, <1>2, SubSeqRange
  <2>4. /\ SubSeq(s.acks, m + 1, Len(s.acks)) \in Seq(Ack)
        /\ Range(SubSeq(s.acks, m + 1, Len(s.acks))) \subseteq Range(s.acks)
    BY <1>1, <1>2, SubSeqRange
  <2>5. acked \in Seq(Ack) /\ Range(acked) \subseteq Range(s.acks)
    BY <2>4, ReverseRange
  <2> QED BY <2>1, <2>2, <2>3, <2>5
<1>4. Transmit(r) = v
  BY DEF Transmit, ForwardDown, n, m
<1> HIDE DEF sent, left, acked, kept
<1>5. u \in IState(me) /\ Truthful(me, u, P) /\ u.pool = s.pool /\ Running(u) /\ u.me = me
  BY <1>1, <1>3 DEF IState, Truthful, Running
<1>6. Range(sent) \subseteq P /\ \A a \in Range(acked) : a.pid \in P
  BY <1>1, <1>3 DEF Truthful
<1>7. ASSUME r.iface \in Devices(me) PROVE f \in Frame
  <2>1. s.me = me /\ RadiosOf[me][r.iface].mac \in Nat \ {0}
    <3>1. s.me = me
      BY <1>1 DEF IState
    <3>2. RadiosOf[me] \in Seq(Trinity) /\ r.iface \in 1..Len(RadiosOf[me])
      BY <1>7, RadiosAssumption DEF Devices
    <3>3. RadiosOf[me][r.iface] \in Trinity
      BY <3>2
    <3> QED BY <3>1, <3>3 DEF Trinity
  <2>2. Range(sent) \subseteq Pid
    BY <1>3 DEF Range
  <2> QED BY <1>3, <2>1, <2>2 DEF Frame
<1>8. f.reports = Range(sent) /\ f.acks = acked
  OBVIOUS
<1> HIDE DEF f, u
<1>9. CASE r.iface \in Devices(me)
  <2>1. u.macq \in [Devices(me) -> Seq(Frame)] /\ u.macq[r.iface] \in Seq(Frame)
    BY <1>5, <1>9 DEF IState
  <2>2. /\ Append(u.macq[r.iface], f) \in Seq(Frame)
        /\ Range(Append(u.macq[r.iface], f)) = Range(u.macq[r.iface]) \union {f}
    <3>1. f \in Frame
      BY <1>7, <1>9
    <3> QED BY <2>1, <3>1, AppendRange
  <2>3. v \in IState(me) /\ v.pool = s.pool /\ v.recps = u.recps /\ v.acks = u.acks
    BY <1>5, <2>1, <2>2 DEF IState
  <2>4. ASSUME NEW d \in Devices(me), NEW g \in Range(v.macq[d])
        PROVE  g.reports \subseteq P /\ \A a \in Range(g.acks) : a.pid \in P
    <3>1. g \in Range(u.macq[d]) \/ g = f
      BY <1>5, <1>9, <2>1, <2>2, <2>4 DEF IState
    <3> QED BY <1>5, <1>6, <1>8, <3>1 DEF Truthful
  <2>5. Truthful(me, v, P)
    BY <1>5, <2>3, <2>4 DEF Truthful
  <2> QED BY <1>4, <2>3, <2>5 DEF Typed
<1>10. CASE r.iface \notin Devices(me)
  <2>1. v.macq = u.macq
    BY <1>5, <1>10 DEF IState
  <2>2. v \in IState(me) /\ v.pool = s.pool /\ v.recps = u.recps /\ v.acks = u.acks
    BY <1>5, <2>1 DEF IState
  <2>3. Truthful(me, v, P)
    BY <1>5, <2>1, <2>2 DEF Truthful
  <2> QED BY <1>4, <2>2, <2>3 DEF Typed
<1> QED BY <1>9, <1>10

-------------------------------------------------------------------------------
(* Encoding                                                                *)

\* What Encode collects, for a directory of n records.
Codes(me, X, n) ==
  {r \in [s: Typed(me, X), first: Pid, nexthops: SUBSET Nat, natives: SUBSET Native,
          payload: SUBSET Pid, channels: SUBSET Nat, iface: Nat, dest: Nat,
          encoded: BOOLEAN] : Len(r.s.nbrs) = n}

\* What an entry provides for a header.
LEMMA EntryFields ==
  ASSUME NEW e \in Entry
  PROVE  /\ e.id \in Pid /\ e.dest \in Nat /\ e.iface \in Nat
         /\ e.retry \in 0..MaxRetry
         /\ [mac |-> e.dest, pid |-> e.id] \in Native
         /\ ~HitMax(e) => e \in RtEntry
BY DEF Entry, Native, HitMax, RtEntry

\* DeviceOn finds a radio on the channel when there is one.
LEMMA DeviceOnProperties ==
  ASSUME NEW me \in Node, NEW X, NEW s \in Typed(me, X), NEW channel
  PROVE  /\ DeviceOn(s, channel) \in Nat
         /\ DeviceOn(s, channel) # 0 =>
              /\ DeviceOn(s, channel) \in Devices(me)
              /\ RadiosOf[me][DeviceOn(s, channel)].channel = channel
<1> DEFINE q == RadiosOf[s.me]
           I == {i \in 1..Len(q) : q[i].channel = channel}
<1>1. s.me = me /\ q \in Seq(Trinity)
  BY Fields, RadiosAssumption
<1>2. DeviceOn(s, channel) = IF I # {} THEN Min(I) ELSE 0
  BY DEF DeviceOn, SelectInSeq
<1>3. I \in SUBSET (1..Len(q)) /\ Len(q) \in Nat /\ \A i \in I : q[i].channel = channel
  BY <1>1
<1> HIDE DEF I
<1>4. /\ (IF I # {} THEN Min(I) ELSE 0) \in 0..Len(q)
      /\ (IF I # {} THEN Min(I) ELSE 0) # 0 <=> I # {}
      /\ I # {} => Min(I) \in I
  BY <1>3, FirstPosition
<1>5. DeviceOn(s, channel) # 0 => DeviceOn(s, channel) \in I
  BY <1>2, <1>4
<1> QED BY <1>1, <1>2, <1>3, <1>4, <1>5 DEF Devices

\* The channels on which this node has a radio are bounded.
LEMMA LargestChannel ==
  ASSUME NEW me \in Node, NEW X, NEW s \in Typed(me, X), NEW usable \in SUBSET Nat,
         usable # {},
         \A c \in usable : DeviceOn(s, c) \in DevicesIf(s)
  PROVE  Max(usable) \in usable
<1> DEFINE n == Len(RadiosOf[me])
           f == [i \in 1..n |-> RadiosOf[me][i].channel]
<1>1. RadiosOf[me] \in Seq(Trinity)
  BY RadiosAssumption
<1>2. n \in Nat /\ f \in [1..n -> Nat]
  <2>1. \A i \in 1..n : RadiosOf[me][i] \in Trinity
    BY <1>1
  <2>2. \A i \in 1..n : RadiosOf[me][i].channel \in Nat
    BY <2>1 DEF Trinity
  <2> QED BY <1>1, <2>2
<1>3. PICK b \in Nat : \A i \in 1..n : f[i] <= b
  <2> HIDE DEF n, f
  <2> QED BY <1>2, RangeBounded
<1>4. ASSUME NEW c \in usable PROVE c <= b
  <2>1. s.me = me /\ DeviceOn(s, c) \in Devices(me)
    BY Fields DEF DevicesIf
  <2>2. DeviceOn(s, c) # 0
    BY <2>1, <1>2 DEF Devices
  <2>3. RadiosOf[me][DeviceOn(s, c)].channel = c
    BY <2>2, DeviceOnProperties
  <2>4. DeviceOn(s, c) \in 1..n
    BY <2>1 DEF Devices
  <2>5. f[DeviceOn(s, c)] = c
    BY <2>3, <2>4
  <2> QED BY <1>3, <2>4, <2>5
<1> QED BY <1>4, MaxExists

\* Moving a packet to the retransmission queue keeps the state typed.
LEMMA TakeType ==
  ASSUME NEW me \in Node, NEW X, NEW s \in Typed(me, X), NEW i \in DOMAIN s.nbrs,
         s.nbrs[i].vq # <<>>
  PROVE  Take(s, i) \in Typed(me, X) /\ Len(Take(s, i).nbrs) = Len(s.nbrs)
<1> DEFINE nbr == s.nbrs[i]
           v == Head(nbr.vq)
           rt == IF HitMax(v) THEN s.rtqueue ELSE EnqueueBack(s.rtqueue, v)
           q == Erase(s.queue, v.id)
           nbr1 == [nbr EXCEPT !.vq = Tail(@)]
           nbrs1 == [s.nbrs EXCEPT ![i] = nbr1]
           a == [s EXCEPT !.rtqueue = rt]
           b == [a EXCEPT !.queue = q]
           c == [b EXCEPT !.nbrs = nbrs1]
<1>1. nbr \in Neighbor /\ nbr.vq \in Seq(Entry)
  BY Fields, NeighborFields
<1>2. v \in Entry /\ Tail(nbr.vq) \in Seq(Entry)
  BY <1>1, HeadTailProperties
<1>3. rt \in Bounded(RtEntry) /\ q \in Bounded(Entry)
  <2> HIDE DEF v
  <2>1. s.rtqueue \in Bounded(RtEntry) /\ s.queue \in Bounded(Entry)
    BY Fields
  <2> QED BY <1>2, <2>1, EntryFields, EnqueueBackBounded, EraseBounded
<1>4. nbrs1 \in Seq(Neighbor) /\ Len(nbrs1) = Len(s.nbrs)
  <2>1. nbr1 \in Neighbor
    BY <1>1, <1>2 DEF Neighbor
  <2> HIDE DEF nbr1
  <2> QED BY <2>1, Fields, ExceptSeq
<1>5. c = Take(s, i) /\ c.nbrs = nbrs1
  BY DEF Take, Typed, IState
<1> HIDE DEF rt, q, nbrs1
<1>6. a \in Typed(me, X)
  BY <1>3, UpdateTyped
<1> HIDE DEF a
<1>7. b \in Typed(me, X)
  BY <1>3, <1>6, UpdateTyped
<1> HIDE DEF b
<1>8. c \in Typed(me, X)
  BY <1>4, <1>7, UpdateTyped
<1> HIDE DEF c
<1> QED BY <1>4, <1>5, <1>8

\* Taking a packet into the code keeps the code and the state typed.
LEMMA CombineType ==
  ASSUME NEW me \in Node, NEW X, NEW n, NEW r \in Codes(me, X, n),
         NEW i \in DOMAIN r.s.nbrs,
         r.s.nbrs[i].vq # <<>>, NEW channel \in GetChannels(r.s.nbrs[i])
  PROVE  Combine(r, i, channel) \in Codes(me, X, n)
<1> DEFINE nbr == r.s.nbrs[i]
           v == Head(nbr.vq)
<1>1. /\ r.s \in Typed(me, X) /\ r.first \in Pid /\ r.nexthops \in SUBSET Nat
      /\ r.natives \in SUBSET Native /\ Len(r.s.nbrs) = n /\ r.s.nbrs \in Seq(Neighbor)
  BY Fields DEF Codes
<1>2. nbr \in Neighbor /\ GetMac(nbr) \in Nat /\ nbr.vq \in Seq(Entry)
  BY <1>1, NeighborFields
<1>3. v \in Entry
  BY <1>2, HeadTailProperties
<1>6. Take(r.s, i) \in Typed(me, X) /\ Len(Take(r.s, i).nbrs) = n
  BY <1>1, TakeType
<1>7. DeviceOn(r.s, channel) \in Nat
  BY <1>1, DeviceOnProperties
<1>8. Index(nbr, channel) \in Nat
  <2>1. \E t \in nbr.pairs : t.channel = channel
    BY DEF GetChannels
  <2>2. (CHOOSE t \in nbr.pairs : t.channel = channel) \in Trinity
    BY <1>2, <2>1, NeighborFields
  <2> QED BY <2>2 DEF Index, Trinity
<1>9. CASE \E x \in r.natives : x.mac = v.dest
  <2>1. Combine(r, i, channel) = [r EXCEPT !.s = Abort(@, "IdNexthop")]
    BY <1>9 DEF Combine
  <2>2. Abort(r.s, "IdNexthop") \in Typed(me, X)
    BY <1>1, AbortGood DEF Aborts, Good
  <2>3. Abort(r.s, "IdNexthop").nbrs = r.s.nbrs
    BY <1>1 DEF Abort, Typed, IState
  <2> QED BY <2>1, <2>2, <2>3 DEF Codes
<1>10. CASE ~(\E x \in r.natives : x.mac = v.dest) /\ v.id \notin Ids(r.s.queue)
  <2>1. Combine(r, i, channel) = [r EXCEPT !.s = Abort(@, "EraseFromQueue")]
    BY <1>10 DEF Combine
  <2>2. Abort(r.s, "EraseFromQueue") \in Typed(me, X)
    BY <1>1, AbortGood DEF Aborts, Good
  <2>3. Abort(r.s, "EraseFromQueue").nbrs = r.s.nbrs
    BY <1>1 DEF Abort, Typed, IState
  <2> QED BY <2>1, <2>2, <2>3 DEF Codes
<1>11. CASE ~(\E x \in r.natives : x.mac = v.dest) /\ v.id \in Ids(r.s.queue)
  <2> DEFINE r1 == [r EXCEPT !.s = Take(@, i),
                      !.nexthops = @ \union {GetMac(nbr)},
                      !.natives = @ \union {[mac |-> v.dest, pid |-> v.id]},
                      !.payload = XOR({r.first}, {v.id}),
                      !.iface = DeviceOn(r.s, channel),
                      !.dest = Index(nbr, channel),
                      !.encoded = TRUE]
  <2>1. Combine(r, i, channel) = r1
    BY <1>11 DEF Combine
  <2> HIDE DEF v, nbr
  <2>2. XOR({r.first}, {v.id}) \in SUBSET Pid
    BY <1>1, <1>3, EntryFields DEF XOR
  <2>3. [mac |-> v.dest, pid |-> v.id] \in Native
    BY <1>3, EntryFields
  <2>4. r1 \in Codes(me, X, n)
    BY <1>1, <1>2, <1>6, <1>7, <1>8, <2>2, <2>3 DEF Codes
  <2> QED BY <2>1, <2>4
<1> QED BY <1>9, <1>10, <1>11

\* So does one turn of the loop of Encode.
LEMMA EncodeWithType ==
  ASSUME NEW me \in Node, NEW X, NEW n, NEW r \in Codes(me, X, n), NEW i \in 1..n
  PROVE  EncodeWith(r, i) \in Codes(me, X, n)
<1> DEFINE offered == GetChannels(r.s.nbrs[i])
           common == r.channels \intersect offered
           channels == IF common = {} THEN r.channels ELSE common
           usable == {c \in channels : DeviceOn(r.s, c) \in DevicesIf(r.s)}
           r1 == [r EXCEPT !.channels = channels]
<1>1. r.s \in Typed(me, X) /\ i \in DOMAIN r.s.nbrs /\ r.channels \in SUBSET Nat
  BY Fields DEF Codes
<1>2. channels \in SUBSET Nat
  BY <1>1
<1>3. CASE ~Running(r.s) \/ ~Combines(r, i)
  BY <1>3 DEF EncodeWith
<1>4. CASE Running(r.s) /\ Combines(r, i)
  <2>1. r.s.nbrs[i].vq # <<>>
    BY <1>4 DEF Combines
  <2>2. EncodeWith(r, i) = IF usable = {} THEN r1
                           ELSE IF ~(usable \subseteq offered)
                           THEN [r1 EXCEPT !.s = Abort(@, "IndexChannel")]
                           ELSE Combine(r1, i, Max(usable))
    BY <1>4 DEF EncodeWith
  <2> HIDE DEF offered, channels
  <2>3. r1 \in Codes(me, X, n) /\ r1.s = r.s
    BY <1>2 DEF Codes
  <2> HIDE DEF r1
  <2>4. CASE usable = {}
    BY <2>2, <2>3, <2>4
  <2>5. CASE usable # {} /\ ~(usable \subseteq offered)
    <3>1. Abort(r1.s, "IndexChannel") \in Typed(me, X)
      BY <1>1, <2>3, AbortGood DEF Aborts, Good
    <3>2. Abort(r1.s, "IndexChannel").nbrs = r1.s.nbrs
      BY <1>1, <2>3 DEF Abort, Typed, IState
    <3>3. [r1 EXCEPT !.s = Abort(@, "IndexChannel")] \in Codes(me, X, n)
      BY <2>3, <3>1, <3>2 DEF Codes
    <3> QED BY <2>2, <2>5, <3>3
  <2>6. CASE usable # {} /\ usable \subseteq offered
    <3>1. Max(usable) \in usable
      BY <1>1, <1>2, <2>6, LargestChannel
    <3>2. Max(usable) \in GetChannels(r1.s.nbrs[i])
      BY <2>3, <2>6, <3>1 DEF offered
    <3> HIDE DEF usable
    <3>3. Combine(r1, i, Max(usable)) \in Codes(me, X, n)
      BY <1>1, <2>1, <2>3, <3>2, CombineType
    <3> QED BY <2>2, <2>6, <3>3
  <2> QED BY <2>4, <2>5, <2>6
<1> QED BY <1>3, <1>4

\* Where Encode starts.
EncodeStart(s, e) ==
  LET nbr == s.nbrs[SearchMac(s.nbrs, e.dest)]
  IN  [s |-> s, first |-> e.id, nexthops |-> {GetMac(nbr)},
       natives |-> {[mac |-> e.dest, pid |-> e.id]}, payload |-> {e.id},
       channels |-> GetChannels(nbr), iface |-> e.iface, dest |-> e.dest,
       encoded |-> FALSE]

\* Encode goes through the codes f[0], f[1], ...
EncodesBy(f, s, e) ==
  LET n == Len(s.nbrs)
  IN  /\ f[0] = EncodeStart(s, e)
      /\ \A i \in 1..n : f[i] = EncodeWith(f[i - 1], i)
      /\ Encode(s, e) = IF Running(f[n].s) /\ f[n].encoded /\ ~HitMax(e)
                        THEN [f[n] EXCEPT !.s.rtqueue = EnqueueBack(@, e)]
                        ELSE f[n]

\* It starts from a typed code.
LEMMA EncodeStartType ==
  ASSUME NEW me \in Node, NEW X, NEW s \in Typed(me, X), NEW e \in Entry,
         SearchMac(s.nbrs, e.dest) # 0
  PROVE  EncodeStart(s, e) \in Codes(me, X, Len(s.nbrs))
<1> DEFINE nbr == s.nbrs[SearchMac(s.nbrs, e.dest)]
<1>1. nbr \in Neighbor
  BY Fields, SearchMacProperties
<1>2. EncodeStart(s, e) =
        [s |-> s, first |-> e.id, nexthops |-> {GetMac(nbr)},
         natives |-> {[mac |-> e.dest, pid |-> e.id]}, payload |-> {e.id},
         channels |-> GetChannels(nbr), iface |-> e.iface, dest |-> e.dest,
         encoded |-> FALSE]
  BY DEF EncodeStart
<1> HIDE DEF nbr
<1> QED BY <1>1, <1>2, NeighborFields, EntryFields DEF Codes

\* All of them are typed.
LEMMA EncodeRuns ==
  ASSUME NEW me \in Node, NEW X, NEW s \in Typed(me, X), NEW e \in Entry,
         SearchMac(s.nbrs, e.dest) # 0
  PROVE  \E f : /\ EncodesBy(f, s, e)
                /\ \A i \in 0..Len(s.nbrs) : f[i] \in Codes(me, X, Len(s.nbrs))
<1> DEFINE n == Len(s.nbrs)
           D == Codes(me, X, n)
           a == EncodeStart(s, e)
           step == [i \in 1..n |-> [d \in D |-> EncodeWith(d, i)]]
           f[i \in 0..n] == IF i = 0 THEN a ELSE EncodeWith(f[i - 1], i)
<1>1. n \in Nat
  BY Fields
<1>2. a \in D
  BY EncodeStartType
<1>3. step \in [1..n -> [D -> D]]
  BY EncodeWithType
<1>4. f = [i \in 0..n |-> IF i = 0 THEN a ELSE EncodeWith(f[i - 1], i)]
  <2> HIDE DEF step, a, n, D
  <2>1. PICK g : IsIteration(g, D, a, step, n)
    BY <1>1, <1>2, <1>3, IterationExists
  <2>2. ASSUME NEW i \in 1..n PROVE step[i][g[i - 1]] = EncodeWith(g[i - 1], i)
    <3>1. i - 1 \in 0..n
      BY <1>1
    <3>2. g[i - 1] \in D
      BY <2>1, <3>1 DEF IsIteration
    <3> QED BY <3>2 DEF step
  <2>3. g = [i \in 0..n |-> IF i = 0 THEN a ELSE EncodeWith(g[i - 1], i)]
    BY <1>1, <2>1, <2>2 DEF IsIteration
  <2> QED BY <2>3
<1>5. Encode(s, e) = IF Running(f[n].s) /\ f[n].encoded /\ ~HitMax(e)
                     THEN [f[n] EXCEPT !.s.rtqueue = EnqueueBack(@, e)]
                     ELSE f[n]
  BY DEF Encode, EncodeStart, ForEach, f, a
<1> HIDE DEF f, a
<1>6. f[0] = a /\ \A i \in 1..n : f[i] = EncodeWith(f[i - 1], i)
  <2> HIDE DEF n
  <2>1. 0 \in 0..n /\ \A i \in 1..n : i \in 0..n /\ i # 0
    BY <1>1
  <2> QED BY <1>4, <2>1
<1>7. EncodesBy(f, s, e)
  BY <1>5, <1>6 DEF EncodesBy, a
<1>8. 0..n \subseteq {i \in 0..n : f[i] \in D}
  <2> DEFINE T == {i \in 0..n : f[i] \in D}
  <2>1. 0 \in T
    BY <1>1, <1>2, <1>6
  <2>2. ASSUME NEW i \in 1..n, i - 1 \in T PROVE i \in T
    <3>1. f[i] = EncodeWith(f[i - 1], i) /\ f[i - 1] \in D
      BY <1>6, <2>2
    <3> QED BY <1>1, <3>1, EncodeWithType
  <2> HIDE DEF T, n
  <2>3. 0..n \subseteq T
    BY <1>1, <2>1, <2>2, RangeInduction
  <2> QED BY <2>3 DEF T
<1> QED BY <1>7, <1>8

\* So does the whole loop, for a packet whose next hop is known.
LEMMA EncodeType ==
  ASSUME NEW me \in Node, NEW X, NEW s \in Typed(me, X), NEW e \in Entry,
         SearchMac(s.nbrs, e.dest) # 0
  PROVE  /\ Encode(s, e).s \in Typed(me, X)
         /\ Encode(s, e).natives \in SUBSET Native
         /\ Encode(s, e).payload \in SUBSET Pid
         /\ Encode(s, e).dest \in Nat
<1> DEFINE n == Len(s.nbrs)
<1>1. PICK f : /\ EncodesBy(f, s, e)
               /\ \A i \in 0..n : f[i] \in Codes(me, X, n)
  BY EncodeRuns
<1> DEFINE r == f[n]
<1>2. r \in Codes(me, X, n)
  <2>1. n \in Nat
    BY Fields
  <2> QED BY <1>1, <2>1
<1>3. Encode(s, e) = IF Running(r.s) /\ r.encoded /\ ~HitMax(e)
                     THEN [r EXCEPT !.s.rtqueue = EnqueueBack(@, e)]
                     ELSE r
  BY <1>1 DEF EncodesBy
<1> HIDE DEF r
<1>4. /\ r.s \in Typed(me, X) /\ r.natives \in SUBSET Native /\ r.payload \in SUBSET Pid
      /\ r.dest \in Nat
  BY <1>2 DEF Codes
<1>5. CASE Running(r.s) /\ r.encoded /\ ~HitMax(e)
  <2>1. EnqueueBack(r.s.rtqueue, e) \in Bounded(RtEntry)
    BY <1>4, <1>5, Fields, EntryFields, EnqueueBackBounded
  <2>2. [r.s EXCEPT !.rtqueue = EnqueueBack(@, e)] \in Typed(me, X)
    BY <1>4, <2>1, UpdateTyped
  <2>3. Encode(s, e) = [r EXCEPT !.s = [r.s EXCEPT !.rtqueue = EnqueueBack(@, e)]]
    BY <1>3, <1>5
  <2> QED BY <1>2, <1>4, <2>2, <2>3 DEF Codes
<1>6. CASE ~(Running(r.s) /\ r.encoded /\ ~HitMax(e))
  BY <1>3, <1>4, <1>6
<1> QED BY <1>5, <1>6

-------------------------------------------------------------------------------
(* Sending                                                                 *)

\* Both ways to queue an entry virtually keep the state good.
LEMMA VirtualEntryTyped ==
  ASSUME NEW me \in Node, NEW X, NEW s \in Typed(me, X), NEW pos \in DOMAIN s.nbrs,
         NEW e \in Entry
  PROVE  /\ AddVirtualQueueEntry(s, pos, e) \in Typed(me, X)
         /\ AddVirtualQueueEntryFront(s, pos, e) \in Typed(me, X)
         /\ s \in Good(me, X) =>
              /\ AddVirtualQueueEntry(s, pos, e) \in Good(me, X)
              /\ AddVirtualQueueEntryFront(s, pos, e) \in Good(me, X)
<1>1. s.nbrs[pos] \in Neighbor /\ s.nbrs[pos].vq \in Seq(Entry) /\ s.nbrs \in Seq(Neighbor)
  BY Fields, NeighborFields
<1>2. ASSUME NEW vq \in Seq(Entry)
      PROVE  /\ [s EXCEPT !.nbrs[pos].vq = vq] \in Typed(me, X)
             /\ s \in Good(me, X) => [s EXCEPT !.nbrs[pos].vq = vq] \in Good(me, X)
  <2> DEFINE nbr == [s.nbrs[pos] EXCEPT !.vq = vq]
  <2>1. nbr \in Neighbor
    BY <1>1 DEF Neighbor
  <2> HIDE DEF nbr
  <2>2. [s.nbrs EXCEPT ![pos] = nbr] \in Seq(Neighbor)
    BY <1>1, <2>1, ExceptSeq
  <2>3. /\ [s EXCEPT !.nbrs = [s.nbrs EXCEPT ![pos] = nbr]] \in Typed(me, X)
        /\ s \in Good(me, X) =>
             [s EXCEPT !.nbrs = [s.nbrs EXCEPT ![pos] = nbr]] \in Good(me, X)
    BY <2>2, UpdateTyped, UpdateGood
  <2> QED BY <2>3 DEF nbr
<1>3. Append(s.nbrs[pos].vq, e) \in Seq(Entry) /\ <<e>> \o s.nbrs[pos].vq \in Seq(Entry)
  <2>1. <<e>> \in Seq(Entry)
    OBVIOUS
  <2> QED BY <1>1, <2>1, AppendProperties, ConcatProperties
<1>4. /\ Abort(s, "DuplicateVirtual") \in Good(me, X)
      /\ Abort(s, "DuplicateVirtual") \in Typed(me, X)
  BY AbortGood DEF Aborts, Good
<1>5. /\ [s EXCEPT !.nbrs[pos].vq = Append(@, e)] \in Typed(me, X)
      /\ [s EXCEPT !.nbrs[pos].vq = <<e>> \o @] \in Typed(me, X)
      /\ s \in Good(me, X) => /\ [s EXCEPT !.nbrs[pos].vq = Append(@, e)] \in Good(me, X)
                          /\ [s EXCEPT !.nbrs[pos].vq = <<e>> \o @] \in Good(me, X)
  BY <1>2, <1>3
<1> QED BY <1>4, <1>5 DEF AddVirtualQueueEntry, AddVirtualQueueEntryFront

\* Putting a packet back keeps the state typed.
LEMMA PutBackTyped ==
  ASSUME NEW me \in Node, NEW X, NEW s \in Typed(me, X), NEW e \in Entry
  PROVE  PutBack(s, e) \in Typed(me, X)
<1> DEFINE q == EnqueueFront(s.queue, e)
           s1 == [s EXCEPT !.queue = q]
           pos == SearchMac(s1.nbrs, e.dest)
<1>1. q \in Bounded(Entry)
  BY Fields, EnqueueFrontBounded
<1>2. s1 \in Typed(me, X) /\ s1.queue = q
  <2> HIDE DEF q
  <2> QED BY <1>1, UpdateTyped DEF Typed, IState
<1>3. q[1] \in Entry
  <2>1. s.queue \in Seq(Entry)
    BY Fields
  <2>2. q # <<>>
    <3>1. CASE Accepts(s.queue, e)
      BY <2>1, <3>1, ConcatEqualIffEmpty DEF EnqueueFront
    <3>2. CASE ~Accepts(s.queue, e)
      BY <2>1, <3>2, BoundsAssumption DEF EnqueueFront, Accepts, Ids
    <3> QED BY <3>1, <3>2
  <2>3. q \in Seq(Entry)
    BY <1>1 DEF Bounded
  <2> HIDE DEF q
  <2> QED BY <2>2, <2>3, EmptySeq
<1>4. PutBack(s, e) = IF e.dest = Broadcast THEN s1
                      ELSE IF pos = 0 THEN Abort(s1, "NeighborGone")
                      ELSE AddVirtualQueueEntryFront(s1, pos, s1.queue[1])
  BY DEF PutBack
<1> HIDE DEF s1, q
<1>5. pos # 0 => pos \in DOMAIN s1.nbrs
  BY <1>2, Fields, SearchMacProperties
<1> HIDE DEF pos
<1>6. Abort(s1, "NeighborGone") \in Typed(me, X)
  BY <1>2, AbortGood DEF Aborts, Good
<1>7. CASE pos # 0
  <2>1. AddVirtualQueueEntryFront(s1, pos, s1.queue[1]) \in Typed(me, X)
    BY <1>2, <1>3, <1>5, <1>7, VirtualEntryTyped
  <2> QED BY <1>2, <1>4, <1>6, <2>1
<1> QED BY <1>2, <1>4, <1>6, <1>7

\* Sending a packet, coded or not, or putting it back, arms the timer.
LEMMA SendDataGood ==
  ASSUME NEW me \in Node, NEW X, NEW s \in Typed(me, X), Running(s), NEW e \in Entry,
         e.dest # Broadcast => SearchMac(s.nbrs, e.dest) # 0
  PROVE  SendData(s, e) \in Good(me, X)
<1> DEFINE r == IF s.queue # <<>> /\ e.dest # Broadcast THEN Encode(s, e) ELSE Plain(s, e)
<1>1. /\ r.s \in Typed(me, X) /\ r.natives \in SUBSET Native /\ r.payload \in SUBSET Pid
      /\ r.dest \in Nat
  <2>1. CASE s.queue # <<>> /\ e.dest # Broadcast
    BY <2>1, EncodeType
  <2>2. CASE ~(s.queue # <<>> /\ e.dest # Broadcast)
    BY <2>2, EntryFields DEF Plain
  <2> QED BY <2>1, <2>2
<1>2. SendData(s, e) =
        IF ~Running(r.s) THEN r.s
        ELSE IF ~r.encoded /\ e.iface \notin DevicesIf(s) THEN DoSendEnd(PutBack(s, e))
        ELSE DoSendEnd(Transmit(r))
  BY DEF SendData
<1> HIDE DEF r
<1>3. DoSendEnd(PutBack(s, e)) \in Good(me, X)
  BY PutBackTyped, DoSendEndGood
<1>4. CASE ~Running(r.s)
  BY <1>1, <1>2, <1>4, StoppedGood
<1>5. CASE Running(r.s)
  <2>1. DoSendEnd(Transmit(r)) \in Good(me, X)
    BY <1>1, <1>5, TransmitTyped, DoSendEndGood
  <2> QED BY <1>2, <1>3, <1>5, <2>1
<1> QED BY <1>4, <1>5

\* The head of the output queue leaves it and the virtual queue of its next hop.
Dequeued(s, pos, pid) ==
  [s EXCEPT !.nbrs[pos].vq = Erase(@, pid), !.queue = Tail(@)]

\* A packet leaves its virtual queue and the output queue to be sent.
LEMMA DequeueTyped ==
  ASSUME NEW me \in Node, NEW X, NEW s \in Typed(me, X), s.queue # <<>>,
         NEW pos \in DOMAIN s.nbrs, NEW pid
  PROVE  LET s1 == Dequeued(s, pos, pid)
         IN  /\ s1 \in Typed(me, X)
             /\ Running(s) => Running(s1)
             /\ \A mac : SearchMac(s.nbrs, mac) = pos => SearchMac(s1.nbrs, mac) # 0
<1> DEFINE nbr == [s.nbrs[pos] EXCEPT !.vq = Erase(@, pid)]
           n == [s.nbrs EXCEPT ![pos] = nbr]
           a == [s EXCEPT !.nbrs = n]
           q == Tail(s.queue)
           b == [a EXCEPT !.queue = q]
<1>1. s.nbrs[pos] \in Neighbor /\ s.nbrs \in Seq(Neighbor) /\ s.queue \in Bounded(Entry)
  BY Fields
<1>2. nbr \in Neighbor /\ nbr.pairs = s.nbrs[pos].pairs
  <2>1. Erase(s.nbrs[pos].vq, pid) \in Seq(Entry)
    BY <1>1, NeighborFields, EraseProperties
  <2> QED BY <1>1, <2>1 DEF Neighbor
<1>3. b = Dequeued(s, pos, pid)
  BY DEF Typed, IState, Dequeued
<1> HIDE DEF nbr
<1>4. n \in Seq(Neighbor) /\ n[pos] = nbr /\ DOMAIN n = DOMAIN s.nbrs
  BY <1>1, <1>2, ExceptSeq
<1>5. q \in Bounded(Entry)
  BY <1>1, TailBounded
<1> HIDE DEF n, q
<1>6. a \in Typed(me, X)
  BY <1>4, UpdateTyped
<1>7. b \in Typed(me, X)
  <2> HIDE DEF a
  <2> QED BY <1>5, <1>6, UpdateTyped
<1>8. b.nbrs = n /\ b.abort = s.abort
  BY DEF Typed, IState
<1> HIDE DEF a, b
<1>9. ASSUME NEW mac, SearchMac(s.nbrs, mac) = pos PROVE SearchMac(b.nbrs, mac) # 0
  <2>1. HasMac(s.nbrs[pos], mac)
    <3>1. pos # 0
      BY <1>1
    <3> QED BY <1>1, <1>9, <3>1, SearchMacProperties
  <2>2. HasMac(n[pos], mac)
    BY <1>2, <1>4, <2>1 DEF HasMac
  <2> QED BY <1>4, <1>8, <2>2, SearchMacProperties
<1> QED BY <1>3, <1>7, <1>8, <1>9 DEF Running

\* A unicast packet is sent, put back or dropped.
LEMMA SendUnicastGood ==
  ASSUME NEW me \in Node, NEW X, NEW s \in Good(me, X), Running(s), s.queue # <<>>,
         NEW e \in Entry, e.dest # Broadcast
  PROVE  SendUnicast(s, e) \in Good(me, X)
<1> DEFINE pos == SearchMac(s.nbrs, e.dest)
           s1 == Dequeued(s, pos, e.id)
<1>1. s \in Typed(me, X)
  BY DEF Good
<1>2. SendUnicast(s, e) =
        IF pos = 0 THEN Abort(s, "NeighborMissing")
        ELSE IF e.id \notin Ids(s.nbrs[pos].vq) THEN Abort(s, "VirtualQueueRemove")
        ELSE IF Knows(s, e.id, s.nbrs[pos]) THEN DoSendEnd(s1) ELSE SendData(s1, e)
  BY DEF SendUnicast, Dequeued
<1>3. Abort(s, "NeighborMissing") \in Good(me, X) /\ Abort(s, "VirtualQueueRemove") \in Good(me, X)
  BY <1>1, AbortGood DEF Aborts
<1>4. CASE pos # 0
  <2>1. pos \in DOMAIN s.nbrs
    BY <1>1, <1>4, Fields, SearchMacProperties
  <2>2. s1 \in Typed(me, X) /\ Running(s1) /\ SearchMac(s1.nbrs, e.dest) # 0
    <3> HIDE DEF s1
    <3>1. SearchMac(s.nbrs, e.dest) = pos
      OBVIOUS
    <3> HIDE DEF pos
    <3> QED BY <1>1, <2>1, <3>1, DequeueTyped DEF s1
  <2> HIDE DEF s1
  <2>3. DoSendEnd(s1) \in Good(me, X) /\ SendData(s1, e) \in Good(me, X)
    BY <2>2, DoSendEndGood, SendDataGood
  <2> QED BY <1>2, <1>3, <2>3
<1> QED BY <1>2, <1>3, <1>4

\* A hello reports and acknowledges nothing.
LEMMA SendHelloEntryTyped ==
  ASSUME NEW me \in Node, NEW X, NEW s \in Typed(me, X), Running(s), s.queue # <<>>, NEW e
  PROVE  SendHelloEntry(s, e) \in Typed(me, X)
<1>1. CASE e.iface \in DevicesIf(s)
  <2> DEFINE q == Tail(s.queue)
             a == [s EXCEPT !.queue = q]
             d == e.iface
             f == HelloFrame(s, d)
             b == [a EXCEPT !.macq[d] = Append(@, f)]
  <2>1. s.me = me /\ d \in Devices(me)
    BY <1>1, Fields DEF DevicesIf
  <2>2. f \in Frame /\ f.reports = {} /\ f.acks = <<>>
    <3>1. RadiosOf[me] \in Seq(Trinity) /\ d \in 1..Len(RadiosOf[me])
      BY <2>1, RadiosAssumption DEF Devices
    <3>2. RadiosOf[me][d] \in Trinity
      BY <3>1
    <3> QED BY <2>1, <3>2 DEF Frame, HelloFrame, Trinity, Broadcast
  <2>3. q \in Bounded(Entry)
    <3>1. s.queue \in Bounded(Entry)
      BY Fields
    <3> QED BY <3>1, TailBounded
  <2> HIDE DEF f, q, d
  <2>4. a \in Typed(me, X) /\ a.macq = s.macq
    BY <2>3, UpdateTyped DEF Typed, IState
  <2>5. SendHelloEntry(s, e) = b
    BY <1>1 DEF SendHelloEntry, ForwardDown, f, q, d
  <2> HIDE DEF a
  <2>6. a.macq \in [Devices(me) -> Seq(Frame)] /\ a.macq[d] \in Seq(Frame)
    BY <2>1, <2>4, Fields
  <2>7. /\ Append(a.macq[d], f) \in Seq(Frame)
        /\ Range(Append(a.macq[d], f)) = Range(a.macq[d]) \union {f}
    BY <2>2, <2>6, AppendRange
  <2>8. /\ b \in IState(me) /\ b.pool = a.pool /\ b.recps = a.recps /\ b.acks = a.acks
        /\ Running(b) => Running(a)
    BY <2>4, <2>6, <2>7 DEF Typed, IState, Running
  <2>9. ASSUME Running(b) PROVE Truthful(me, b, b.pool \union X)
    <3>1. Truthful(me, a, a.pool \union X)
      BY <2>4, <2>8, <2>9 DEF Typed
    <3>2. ASSUME NEW c \in Devices(me), NEW g \in Range(b.macq[c])
          PROVE  /\ g.reports \subseteq a.pool \union X
                 /\ \A k \in Range(g.acks) : k.pid \in a.pool \union X
      <4>1. g \in Range(a.macq[c]) \/ g = f
        BY <2>1, <2>4, <2>6, <2>7, <3>2 DEF Typed, IState
      <4>2. Range(f.acks) = {}
        BY <2>2 DEF Range
      <4> QED BY <2>2, <3>1, <4>1, <4>2 DEF Truthful
    <3> QED BY <2>8, <3>1, <3>2 DEF Truthful
  <2> QED BY <2>5, <2>8, <2>9 DEF Typed
<1>2. CASE e.iface \notin DevicesIf(s)
  BY <1>2 DEF SendHelloEntry
<1> QED BY <1>1, <1>2

\* A sending attempt keeps the invariant.
LEMMA TrySendGood ==
  ASSUME NEW me \in Node, NEW X, NEW s \in Good(me, X)
  PROVE  TrySend(s) \in Good(me, X)
<1> DEFINE e == Head(s.queue)
           s1 == [s EXCEPT !.queue = Tail(@)]
<1>1. s \in Typed(me, X)
  BY DEF Good
<1>2. CASE ~(Running(s) /\ DevicesIf(s) # {} /\ s.queue # <<>>)
  BY <1>2 DEF TrySend
<1>3. CASE Running(s) /\ DevicesIf(s) # {} /\ s.queue # <<>>
  <2>1. e \in Entry /\ Tail(s.queue) \in Bounded(Entry)
    <3>1. s.queue \in Bounded(Entry)
      BY <1>1, Fields
    <3> QED BY <1>3, <3>1, TailBounded
  <2>2. TrySend(s) = IF e.hello THEN DoSendEnd(SendHelloEntry(s, e))
                     ELSE IF e.dest = Broadcast THEN SendData(s1, e)
                     ELSE SendUnicast(s, e)
    BY <1>3 DEF TrySend, DoSend
  <2>3. s1 \in Typed(me, X) /\ Running(s1)
    BY <1>1, <1>3, <2>1, UpdateTyped DEF Running, Typed, IState
  <2> HIDE DEF s1, e
  <2>4. DoSendEnd(SendHelloEntry(s, e)) \in Good(me, X)
    BY <1>1, <1>3, SendHelloEntryTyped, DoSendEndGood
  <2>5. e.dest = Broadcast => SendData(s1, e) \in Good(me, X)
    BY <2>1, <2>3, SendDataGood
  <2>6. e.dest # Broadcast => SendUnicast(s, e) \in Good(me, X)
    BY <1>3, <2>1, SendUnicastGood
  <2> QED BY <2>2, <2>4, <2>5, <2>6
<1> QED BY <1>2, <1>3

-------------------------------------------------------------------------------
(* Enqueueing and retransmission                                           *)

\* A pool that grows makes no report false.
LEMMA PoolGrows ==
  ASSUME NEW me \in Node, NEW X, NEW s \in Good(me, X), NEW P \in SUBSET Pid
  PROVE  [s EXCEPT !.pool = @ \union P] \in Good(me, X)
<1> DEFINE u == [s EXCEPT !.pool = @ \union P]
<1>1. s \in IState(me) /\ (Running(s) => Truthful(me, s, s.pool \union X)) /\ Armed(s)
  BY DEF Good, Typed
<1>2. /\ u \in IState(me) /\ u.pool = s.pool \union P
      /\ u.recps = s.recps /\ u.acks = s.acks /\ u.macq = s.macq
      /\ u.rtqueue = s.rtqueue /\ u.timer = s.timer /\ u.abort = s.abort
  BY <1>1 DEF IState
<1> HIDE DEF u
<1>3. ASSUME Truthful(me, s, s.pool \union X) PROVE Truthful(me, u, u.pool \union X)
  BY <1>2, <1>3 DEF Truthful
<1>4. u \in Good(me, X)
  BY <1>1, <1>2, <1>3 DEF Good, Typed, Armed, Running
<1> QED BY <1>4 DEF u

\* The next hop of a packet has a record, old or new.
LEMMA AddVirtualGood ==
  ASSUME NEW me \in Node, NEW X, NEW s \in Good(me, X), NEW x \in Sendable(me),
         NEW e \in Entry, x.dest # Broadcast
  PROVE  AddVirtual(s, x, e) \in Good(me, X)
<1> DEFINE pos == SearchMac(s.nbrs, x.dest)
           t == [ip |-> NoIP, mac |-> x.dest, channel |-> Channel(s, x.iface)]
           nbr == [pairs |-> {t}, vq |-> <<e>>]
<1>1. s \in Typed(me, X) /\ s.me = me
  BY Fields DEF Good
<1>2. AddVirtual(s, x, e) = IF pos = 0 THEN [s EXCEPT !.nbrs = AddNeighbor(@, nbr)]
                            ELSE AddVirtualQueueEntry(s, pos, e)
  BY DEF AddVirtual
<1>3. t \in Trinity
  <2>1. RadiosOf[me] \in Seq(Trinity) /\ x.iface \in 1..Len(RadiosOf[me]) /\ x.dest \in Nat
    BY RadiosAssumption DEF Devices, Sendable, IPSend
  <2>2. RadiosOf[me][x.iface] \in Trinity
    BY <2>1
  <2> QED BY <1>1, <2>1, <2>2 DEF Channel, Trinity, NoIP, Broadcast
<1> HIDE DEF t
<1>4. nbr \in Neighbor
  <2>1. <<e>> \in Seq(Entry)
    OBVIOUS
  <2> QED BY <1>3, <2>1 DEF Neighbor
<1> HIDE DEF nbr
<1>5. [s EXCEPT !.nbrs = AddNeighbor(@, nbr)] \in Good(me, X)
  <2>1. AddNeighbor(s.nbrs, nbr) \in Seq(Neighbor)
    BY <1>1, <1>4, Fields, AddNeighborType
  <2> QED BY <2>1, UpdateGood
<1>6. pos # 0 => AddVirtualQueueEntry(s, pos, e) \in Good(me, X)
  <2>1. pos # 0 => pos \in DOMAIN s.nbrs
    BY <1>1, Fields, SearchMacProperties
  <2> HIDE DEF pos
  <2> QED BY <1>1, <2>1, VirtualEntryTyped
<1> QED BY <1>2, <1>5, <1>6

\* Accepting or refusing a packet from IP keeps the invariant.
LEMMA EnqueueDataGood ==
  ASSUME NEW me \in Node, NEW X, NEW s \in Good(me, X), NEW x \in Sendable(me)
  PROVE  EnqueueData(s, x) \in Good(me, X)
<1> DEFINE e == [id |-> x.id, dest |-> x.dest, iface |-> x.iface, retry |-> 0, hello |-> FALSE]
           q == EnqueueBack(s.queue, e)
           a == [s EXCEPT !.queue = q]
           s1 == [a EXCEPT !.pool = @ \union {x.id}]
           s2 == IF ~Accepts(s.queue, e) THEN s
                 ELSE IF x.dest = Broadcast THEN s1 ELSE AddVirtual(s1, x, e)
<1>1. s \in Typed(me, X) /\ s.me = me
  BY Fields DEF Good
<1>2. x.id \in Pid /\ x.dest \in Nat /\ x.iface \in Nat \ {0} /\ x.iface \in Devices(me)
  BY DEF Sendable, IPSend
<1>3. e \in Entry
  BY <1>2 DEF Entry, MaxRetry
<1>4. EnqueueData(s, x) = TrySend(s2)
  BY DEF EnqueueData, Typed, IState
<1> HIDE DEF e
<1>5. q \in Bounded(Entry)
  BY <1>1, <1>3, Fields, EnqueueBackBounded
<1> HIDE DEF q
<1>6. a \in Good(me, X)
  BY <1>5, UpdateGood
<1> HIDE DEF a
<1>7. s1 \in Good(me, X)
  BY <1>2, <1>6, PoolGrows
<1> HIDE DEF s1
<1>8. x.dest # Broadcast => AddVirtual(s1, x, e) \in Good(me, X)
  BY <1>3, <1>7, AddVirtualGood
<1>9. s2 \in Good(me, X)
  BY <1>7, <1>8
<1> HIDE DEF s2
<1> QED BY <1>4, <1>9, TrySendGood

\* So does a hello, whatever its uninitialized id is.
LEMMA EnqueueHelloGood ==
  ASSUME NEW me \in Node, NEW X, NEW s \in Good(me, X), NEW d \in Devices(me),
         NEW id \in Pid
  PROVE  EnqueueHello(s, d, id) \in Good(me, X)
<1> DEFINE e == [id |-> id, dest |-> Broadcast, iface |-> d, retry |-> 0, hello |-> TRUE]
           q == EnqueueFront(s.queue, e)
           a == [s EXCEPT !.queue = q]
<1>1. e \in Entry
  <2>1. d \in Nat \ {0}
    BY DEF Devices
  <2> QED BY <2>1 DEF Entry, MaxRetry, Broadcast
<1>2. EnqueueHello(s, d, id) = IF ~Running(s) THEN s ELSE TrySend(a)
  BY DEF EnqueueHello
<1> HIDE DEF e
<1>3. q \in Bounded(Entry)
  BY <1>1, Fields, EnqueueFrontBounded DEF Good
<1> HIDE DEF q
<1>4. a \in Good(me, X)
  BY <1>3, UpdateGood
<1> HIDE DEF a
<1> QED BY <1>2, <1>4, TrySendGood

\* SendHello goes through the states f[0], f[1], ...
HellosBy(f, me, s, ids) ==
  LET n == Len(RadiosOf[me])
  IN  /\ f[0] = s
      /\ \A i \in 1..n : f[i] = EnqueueHello(f[i - 1], i, ids[i])
      /\ SendHello(s, ids) = f[n]

\* A hello out of every radio keeps the invariant all the way.
LEMMA SendHelloRuns ==
  ASSUME NEW me \in Node, NEW X, NEW s \in Good(me, X), NEW ids \in [Devices(me) -> Pid]
  PROVE  \E f : /\ HellosBy(f, me, s, ids)
                /\ \A i \in 0..Len(RadiosOf[me]) : f[i] \in Good(me, X)
<1> DEFINE n == Len(RadiosOf[me])
           D == Good(me, X)
           step == [i \in 1..n |-> [d \in D |-> EnqueueHello(d, i, ids[i])]]
           f[i \in 0..n] == IF i = 0 THEN s ELSE EnqueueHello(f[i - 1], i, ids[i])
<1>1. n \in Nat /\ Devices(me) = 1..n /\ s.me = me
  <2>1. RadiosOf[me] \in Seq(Trinity)
    BY RadiosAssumption
  <2> QED BY <2>1, Fields DEF Devices, Good
<1>2. step \in [1..n -> [D -> D]]
  BY <1>1, EnqueueHelloGood
<1>3. f = [i \in 0..n |-> IF i = 0 THEN s ELSE EnqueueHello(f[i - 1], i, ids[i])]
  <2> HIDE DEF step, n, D
  <2>1. PICK g : IsIteration(g, D, s, step, n)
    BY <1>1, <1>2, IterationExists DEF D
  <2>2. ASSUME NEW i \in 1..n PROVE step[i][g[i - 1]] = EnqueueHello(g[i - 1], i, ids[i])
    <3>1. i - 1 \in 0..n
      BY <1>1
    <3>2. g[i - 1] \in D
      BY <2>1, <3>1 DEF IsIteration
    <3> QED BY <3>2 DEF step
  <2>3. g = [i \in 0..n |-> IF i = 0 THEN s ELSE EnqueueHello(g[i - 1], i, ids[i])]
    BY <1>1, <2>1, <2>2 DEF IsIteration
  <2> QED BY <2>3
<1>4. SendHello(s, ids) = f[n]
  BY <1>1 DEF SendHello, ForEach, f
<1> HIDE DEF f, D
<1>5. f[0] = s /\ \A i \in 1..n : f[i] = EnqueueHello(f[i - 1], i, ids[i])
  <2> HIDE DEF n
  <2>1. 0 \in 0..n /\ \A i \in 1..n : i \in 0..n /\ i # 0
    BY <1>1
  <2> QED BY <1>3, <2>1
<1> DEFINE T == {i \in 0..n : f[i] \in D}
<1>6. 0 \in T
  BY <1>1, <1>5 DEF D
<1>7. ASSUME NEW i \in 1..n, i - 1 \in T PROVE i \in T
  <2>1. f[i - 1] \in D /\ f[i] = EnqueueHello(f[i - 1], i, ids[i])
    BY <1>5, <1>7
  <2>2. i \in Devices(me) /\ ids[i] \in Pid
    BY <1>1
  <2>3. EnqueueHello(f[i - 1], i, ids[i]) \in D
    BY <2>1, <2>2, EnqueueHelloGood DEF D
  <2> QED BY <2>1, <2>3
<1>8. 0..n \subseteq T
  <2> HIDE DEF T
  <2> QED BY <1>1, <1>6, <1>7, RangeInduction
<1>9. HellosBy(f, me, s, ids)
  BY <1>4, <1>5 DEF HellosBy
<1> QED BY <1>8, <1>9 DEF D

\* So it does at the end.
LEMMA SendHelloGood ==
  ASSUME NEW me \in Node, NEW X, NEW s \in Good(me, X), NEW ids \in [Devices(me) -> Pid]
  PROVE  SendHello(s, ids) \in Good(me, X)
<1>1. Len(RadiosOf[me]) \in 0..Len(RadiosOf[me])
  BY RadiosAssumption
<1> QED BY <1>1, SendHelloRuns DEF HellosBy

\* The timer is armed again while packets wait, and only then.
LEMMA RetransmitGood ==
  ASSUME NEW me \in Node, NEW X, NEW s \in Good(me, X)
  PROVE  Retransmit(s) \in Good(me, X)
<1> DEFINE e == Retry(Head(s.rtqueue))
           rt == Tail(s.rtqueue)
           q == EnqueueFront(s.queue, e)
           a == [s EXCEPT !.rtqueue = rt]
           b == [a EXCEPT !.queue = q]
           s1 == [b EXCEPT !.timer = "running"]
           pos == SearchMac(s.nbrs, e.dest)
           s2 == IF ~Accepts(s.queue, e) THEN s1
                 ELSE IF pos = 0 THEN Abort(s1, "NeighborLost")
                 ELSE AddVirtualQueueEntryFront(s1, pos, e)
<1>1. s \in Typed(me, X)
  BY DEF Good
<1>2. Retransmit(s) = IF s.rtqueue = <<>> THEN [s EXCEPT !.timer = "idle"] ELSE TrySend(s2)
  BY <1>1 DEF Retransmit, Typed, IState
<1>3. CASE s.rtqueue = <<>>
  <2>1. [s EXCEPT !.timer = "idle"] \in Typed(me, X)
    BY <1>1, UpdateTyped DEF Timer
  <2>2. [s EXCEPT !.timer = "idle"].rtqueue = <<>>
    BY <1>1, <1>3 DEF Typed, IState
  <2> QED BY <1>2, <1>3, <2>1, <2>2 DEF Good, Armed
<1>4. CASE s.rtqueue # <<>>
  <2>1. Head(s.rtqueue) \in RtEntry /\ rt \in Bounded(RtEntry)
    BY <1>1, <1>4, Fields, TailBounded
  <2>2. e \in Entry
    BY <2>1 DEF Retry, RtEntry, Entry, MaxRetry
  <2>3. q \in Bounded(Entry)
    <3> HIDE DEF e
    <3> QED BY <1>1, <2>2, Fields, EnqueueFrontBounded
  <2>4. s1.nbrs = s.nbrs /\ s1.timer = "running"
    BY <1>1 DEF Typed, IState
  <2> HIDE DEF e, q, rt
  <2>5. a \in Typed(me, X)
    BY <1>1, <2>1, UpdateTyped
  <2> HIDE DEF a
  <2>6. b \in Typed(me, X)
    BY <2>3, <2>5, UpdateTyped
  <2> HIDE DEF b
  <2>7. s1 \in Typed(me, X)
    BY <2>6, UpdateTyped DEF Timer
  <2>8. s1 \in Good(me, X)
    BY <2>4, <2>7 DEF Good, Armed
  <2> HIDE DEF s1
  <2>9. pos # 0 => pos \in DOMAIN s1.nbrs
    BY <2>4, <2>7, Fields, SearchMacProperties
  <2> HIDE DEF pos
  <2>10. pos # 0 => AddVirtualQueueEntryFront(s1, pos, e) \in Good(me, X)
    BY <2>2, <2>7, <2>8, <2>9, VirtualEntryTyped
  <2>11. Abort(s1, "NeighborLost") \in Good(me, X)
    BY <2>7, AbortGood DEF Aborts
  <2>12. s2 \in Good(me, X)
    BY <2>8, <2>10, <2>11
  <2> HIDE DEF s2
  <2> QED BY <1>2, <1>4, <2>12, TrySendGood
<1> QED BY <1>3, <1>4

-------------------------------------------------------------------------------
(* Receiving                                                               *)

\* What a frame provides.
LEMMA FrameFields ==
  ASSUME NEW f \in Frame
  PROVE  /\ f.from \in Node /\ f.src \in Nat \ {0} /\ f.natives \in SUBSET Native
         /\ f.payload \in SUBSET Pid /\ f.reports \in SUBSET Pid /\ f.acks \in Seq(Ack)
         /\ {a.pid : a \in Range(f.acks)} \subseteq Pid
<1>1. f.acks \in Seq(Ack)
  BY DEF Frame
<1>2. Range(f.acks) \subseteq Ack
  BY <1>1 DEF Range
<1> QED BY <1>1, <1>2 DEF Frame, Ack

\* The native for this node is one of those addressed to it.
LEMMA NativeForMeProperties ==
  ASSUME NEW me \in Node, NEW s, s.me = me, NEW f, AmINext(s, f)
  PROVE  \E x \in f.natives : x.mac \in Macs(me) /\ NativeForMe(s, f) = x.pid
<1> DEFINE mine == {d \in Devices(s.me) : \E x \in f.natives : x.mac = RadiosOf[s.me][d].mac}
<1>1. mine \in SUBSET Nat /\ mine # {}
  BY DEF AmINext, Macs, Devices
<1>2. Min(mine) \in mine
  <2> HIDE DEF mine
  <2> QED BY <1>1, MinExists
<1>3. \E x \in f.natives : x.mac = RadiosOf[s.me][Min(mine)].mac
  BY <1>2
<1> DEFINE y == CHOOSE x \in f.natives : x.mac = RadiosOf[s.me][Min(mine)].mac
<1>4. y \in f.natives /\ y.mac = RadiosOf[s.me][Min(mine)].mac
  BY <1>3
<1>5. NativeForMe(s, f) = y.pid
  BY DEF NativeForMe
<1> HIDE DEF y
<1>6. y.mac \in Macs(me)
  BY <1>2, <1>4 DEF Macs
<1> QED BY <1>4, <1>5, <1>6

\* It is a packet.
LEMMA NativeForMeType ==
  ASSUME NEW me \in Node, NEW X, NEW s \in Typed(me, X), NEW f \in Frame, AmINext(s, f)
  PROVE  NativeForMe(s, f) \in Pid
<1>1. s.me = me
  BY DEF Typed, IState
<1>2. PICK x \in f.natives : NativeForMe(s, f) = x.pid
  BY <1>1, NativeForMeProperties
<1> QED BY <1>2, FrameFields DEF Native

\* Whatever is hashed has an id.
LEMMA HashType ==
  ASSUME NEW payload
  PROVE  Hash(payload) \in Pid
BY PidAssumption DEF Hash

\* What holds with less on trust holds with more.
LEMMA GoodMonotone ==
  ASSUME NEW me \in Node, NEW X, NEW Y, X \subseteq Y, NEW s \in Good(me, X)
  PROVE  s \in Good(me, Y)
<1>1. ASSUME Truthful(me, s, s.pool \union X) PROVE Truthful(me, s, s.pool \union Y)
  <2>1. s.pool \union X \subseteq s.pool \union Y
    OBVIOUS
  <2> QED BY <1>1, <2>1 DEF Truthful
<1> QED BY <1>1 DEF Good, Typed

\* Learning what a neighbour holds keeps the invariant.
LEMMA SetItemsGood ==
  ASSUME NEW me \in Node, NEW X, NEW s \in Good(me, X), NEW pids \in SUBSET Pid,
         NEW mac \in Nat
  PROVE  SetItems(s, pids, mac) \in Good(me, X)
<1>1. s.info \union {<<pid, mac>> : pid \in pids} \in SUBSET (Pid \X Nat)
  BY Fields DEF Good
<1> QED BY <1>1, UpdateGood DEF SetItems

\* Holding pid makes what was reported ahead of it true.
LEMMA HoldGood ==
  ASSUME NEW me \in Node, NEW pid \in Pid, NEW s \in Good(me, {pid}), NEW mac \in Nat
  PROVE  Hold(s, pid, mac) \in Good(me, {})
<1> DEFINE a == [s EXCEPT !.recps = Append(@, pid), !.pool = @ \union {pid}]
<1>1. s \in IState(me) /\ (Running(s) => Truthful(me, s, s.pool \union {pid})) /\ Armed(s)
  BY DEF Good, Typed
<1>2. CASE ~Running(s)
  BY <1>2, StoppedGood DEF Hold, Good
<1>3. CASE Running(s)
  <2>1. s.recps \in Seq(Pid)
    BY <1>1 DEF IState
  <2>2. /\ Append(s.recps, pid) \in Seq(Pid)
        /\ Range(Append(s.recps, pid)) = Range(s.recps) \union {pid}
    BY <2>1, AppendRange
  <2>3. /\ a \in IState(me) /\ a.pool = s.pool \union {pid} /\ a.recps = Append(s.recps, pid)
        /\ a.acks = s.acks /\ a.macq = s.macq /\ a.rtqueue = s.rtqueue
        /\ a.timer = s.timer /\ a.abort = s.abort
    BY <1>1, <2>2 DEF IState
  <2> HIDE DEF a
  <2>4. Truthful(me, a, a.pool \union {})
    BY <1>1, <1>3, <2>2, <2>3 DEF Truthful
  <2>5. a \in Good(me, {})
    BY <1>1, <2>3, <2>4 DEF Good, Typed, Armed, Running
  <2>6. SetItems(a, {pid}, mac) \in Good(me, {})
    BY <2>5, SetItemsGood
  <2> QED BY <1>3, <2>6 DEF Hold, a
<1> QED BY <1>2, <1>3

\* Whatever IP does with the packet it is given keeps the invariant.
LEMMA ForwardUpGood ==
  ASSUME NEW me \in Node, NEW X, NEW s \in Good(me, X), NEW d, NEW f,
         NEW sends \in Sendable(me) \union {NoSend}
  PROVE  ForwardUp(s, d, f, sends) \in Good(me, X)
BY EnqueueDataGood DEF ForwardUp

\* An acknowledgment may be sent before its packet is in the pool.
LEMMA AddAckGood ==
  ASSUME NEW me \in Node, NEW pid \in Pid, NEW s \in Good(me, {}), NEW ip \in Nat
  PROVE  AddAck(s, ip, pid) \in Good(me, {pid})
<1> DEFINE k == [ip |-> ip, pid |-> pid]
           a == [s EXCEPT !.acks = Append(@, k)]
<1>1. s \in Good(me, {pid})
  BY GoodMonotone
<1>2. s \in IState(me) /\ (Running(s) => Truthful(me, s, s.pool \union {pid})) /\ Armed(s)
  BY <1>1 DEF Good, Typed
<1>3. s.acks \in Seq(Ack) /\ k \in Ack /\ k.pid = pid
  BY <1>2 DEF IState, Ack
<1> HIDE DEF k
<1>4. Append(s.acks, k) \in Seq(Ack) /\ Range(Append(s.acks, k)) = Range(s.acks) \union {k}
  BY <1>3, AppendRange
<1>5. /\ a \in IState(me) /\ a.pool = s.pool /\ a.recps = s.recps
      /\ a.acks = Append(s.acks, k) /\ a.macq = s.macq /\ a.rtqueue = s.rtqueue
      /\ a.timer = s.timer /\ a.abort = s.abort
  BY <1>2, <1>4 DEF IState
<1> HIDE DEF a
<1>6. ASSUME Truthful(me, s, s.pool \union {pid}) PROVE Truthful(me, a, a.pool \union {pid})
  BY <1>3, <1>4, <1>5, <1>6 DEF Truthful
<1>7. a \in Good(me, {pid})
  BY <1>2, <1>5, <1>6 DEF Good, Typed, Armed, Running
<1> QED BY <1>7 DEF AddAck, a, k

\* A coded frame is decoded, acknowledged and held.
LEMMA RecvCodedGood ==
  ASSUME NEW me \in Node, NEW s \in Good(me, {}), NEW d, NEW f \in Frame,
         NEW mac \in Nat, NEW sends \in Sendable(me) \union {NoSend}
  PROVE  RecvCoded(s, d, f, mac, sends) \in Good(me, {})
<1> DEFINE pid == NativeForMe(s, f)
           h == Hash(Decoded(s, f))
           s1 == AddAck(s, NodeIP(f.from), pid)
<1>1. s \in Typed(me, {}) /\ h \in Pid
  BY HashType DEF Good
<1>2. RecvCoded(s, d, f, mac, sends) =
        IF Cardinality(Missing(s, f)) # 1 THEN s
        ELSE IF \E x \in f.natives : x.mac = Broadcast THEN Abort(s, "BroadcastCoded")
        ELSE IF ~AmINext(s, f) THEN Hold(s, h, mac)
        ELSE IF pid \notin Missing(s, f) THEN Abort(s, "DecodedOther")
        ELSE IF pid # h THEN Abort(s, "DecodedHash")
        ELSE Hold(ForwardUp(s1, d, f, sends), pid, mac)
  BY DEF RecvCoded
<1>3. /\ Abort(s, "DecodedOther") \in Good(me, {}) /\ Abort(s, "DecodedHash") \in Good(me, {})
      /\ Abort(s, "BroadcastCoded") \in Good(me, {})
  BY <1>1, AbortGood DEF Aborts
<1>4. Hold(s, h, mac) \in Good(me, {})
  <2> HIDE DEF h
  <2>1. s \in Good(me, {h})
    BY GoodMonotone
  <2> QED BY <1>1, <2>1, HoldGood
<1>5. ASSUME AmINext(s, f) PROVE Hold(ForwardUp(s1, d, f, sends), pid, mac) \in Good(me, {})
  <2>1. pid \in Pid
    BY <1>1, <1>5, NativeForMeType
  <2> HIDE DEF pid
  <2>2. s1 \in Good(me, {pid})
    BY <2>1, FrameFields, NodeIPType, AddAckGood
  <2> HIDE DEF s1
  <2>3. ForwardUp(s1, d, f, sends) \in Good(me, {pid})
    BY <2>2, ForwardUpGood
  <2> QED BY <2>1, <2>3, HoldGood
<1> HIDE DEF pid, h, s1
<1> QED BY <1>2, <1>3, <1>4, <1>5

\* A plain frame is delivered or overheard, and held.
LEMMA RecvPlainGood ==
  ASSUME NEW me \in Node, NEW s \in Good(me, {}), NEW d, NEW f \in Frame,
         NEW mac \in Nat, NEW sends \in Sendable(me) \union {NoSend}
  PROVE  RecvPlain(s, d, f, mac, sends) \in Good(me, {})
<1> DEFINE pid == NativeForMe(s, f)
           h == Hash(f.payload)
           s1 == ForwardUp(s, d, f, sends)
<1>1. s \in Typed(me, {}) /\ h \in Pid
  BY HashType DEF Good
<1>2. RecvPlain(s, d, f, mac, sends) =
        IF \E x \in f.natives : x.mac = Broadcast THEN s1
        ELSE IF ~AmINext(s, f) THEN Hold(s, h, mac)
        ELSE IF pid # h THEN Abort(s, "PlainHash")
        ELSE Hold(s1, pid, mac)
  BY DEF RecvPlain
<1>3. Abort(s, "PlainHash") \in Good(me, {})
  BY <1>1, AbortGood DEF Aborts
<1>4. s1 \in Good(me, {})
  BY ForwardUpGood
<1> HIDE DEF pid, h, s1
<1>5. Hold(s, h, mac) \in Good(me, {})
  <2>1. s \in Good(me, {h})
    BY GoodMonotone
  <2> QED BY <1>1, <2>1, HoldGood
<1>6. ASSUME AmINext(s, f) PROVE Hold(s1, pid, mac) \in Good(me, {})
  <2>1. pid \in Pid
    BY <1>1, <1>6, NativeForMeType DEF pid
  <2>2. s1 \in Good(me, {pid})
    BY <1>4, GoodMonotone
  <2> QED BY <2>1, <2>2, HoldGood
<1> QED BY <1>2, <1>3, <1>4, <1>5, <1>6

\* One acknowledgment of the header.
AckedBy(s, f, i, q) ==
  IF f.acks[i].ip = NodeIP(s.me) THEN Erase(q, f.acks[i].pid) ELSE q

\* EraseAcked goes through the queues g[0], g[1], ...
ErasesBy(g, s, f) ==
  LET n == Len(f.acks)
  IN  /\ g[0] = s.rtqueue
      /\ \A i \in 1..n : g[i] = AckedBy(s, f, i, g[i - 1])
      /\ EraseAcked(s, f) = [s EXCEPT !.rtqueue = g[n]]

\* It does, and each of them is shorter than the one before or the same.
LEMMA EraseAckedRuns ==
  ASSUME NEW me \in Node, NEW X, NEW s \in Typed(me, X), NEW f \in Frame
  PROVE  \E g : /\ ErasesBy(g, s, f)
                /\ \A i \in 0..Len(f.acks) : g[i] \in Bounded(RtEntry)
<1> DEFINE n == Len(f.acks)
           D == Bounded(RtEntry)
           step == [i \in 1..n |-> [q \in D |-> AckedBy(s, f, i, q)]]
           g[i \in 0..n] == IF i = 0 THEN s.rtqueue ELSE AckedBy(s, f, i, g[i - 1])
<1>1. n \in Nat /\ s.rtqueue \in D
  BY FrameFields, Fields
<1>2. ASSUME NEW q \in D, NEW i \in 1..n PROVE AckedBy(s, f, i, q) \in D
  BY EraseBounded DEF AckedBy
<1>3. step \in [1..n -> [D -> D]]
  BY <1>2
<1>4. g = [i \in 0..n |-> IF i = 0 THEN s.rtqueue ELSE AckedBy(s, f, i, g[i - 1])]
  <2> HIDE DEF step, n, D
  <2>1. PICK h : IsIteration(h, D, s.rtqueue, step, n)
    BY <1>1, <1>3, IterationExists
  <2>2. ASSUME NEW i \in 1..n PROVE step[i][h[i - 1]] = AckedBy(s, f, i, h[i - 1])
    <3>1. i - 1 \in 0..n
      BY <1>1
    <3>2. h[i - 1] \in D
      BY <2>1, <3>1 DEF IsIteration
    <3> QED BY <3>2 DEF step
  <2>3. h = [i \in 0..n |-> IF i = 0 THEN s.rtqueue ELSE AckedBy(s, f, i, h[i - 1])]
    BY <1>1, <2>1, <2>2 DEF IsIteration
  <2> QED BY <2>3
<1>5. EraseAcked(s, f) = [s EXCEPT !.rtqueue = g[n]]
  BY DEF EraseAcked, ForEach, g, AckedBy
<1> HIDE DEF g, D
<1>6. g[0] = s.rtqueue /\ \A i \in 1..n : g[i] = AckedBy(s, f, i, g[i - 1])
  <2> HIDE DEF n
  <2>1. 0 \in 0..n /\ \A i \in 1..n : i \in 0..n /\ i # 0
    BY <1>1
  <2> QED BY <1>4, <2>1
<1> DEFINE T == {i \in 0..n : g[i] \in D}
<1>7. 0 \in T
  BY <1>1, <1>6
<1>8. ASSUME NEW i \in 1..n, i - 1 \in T PROVE i \in T
  <2>1. g[i - 1] \in D /\ g[i] = AckedBy(s, f, i, g[i - 1])
    BY <1>6, <1>8
  <2> QED BY <1>1, <1>2, <2>1
<1>9. 0..n \subseteq T
  <2> HIDE DEF T
  <2> QED BY <1>1, <1>7, <1>8, RangeInduction
<1>10. ErasesBy(g, s, f)
  BY <1>5, <1>6 DEF ErasesBy
<1> QED BY <1>9, <1>10 DEF D

\* An acknowledged packet is gone and nothing else is.
LEMMA EraseAckedResult ==
  ASSUME NEW me \in Node, NEW X, NEW s \in Typed(me, X), NEW f \in Frame
  PROVE  \E q \in Bounded(RtEntry) :
           /\ EraseAcked(s, f) = [s EXCEPT !.rtqueue = q]
           /\ Range(q) \subseteq Range(s.rtqueue)
           /\ \A e \in Range(s.rtqueue) : e \in Range(q) \/ \E i \in 1..Len(f.acks) :
                f.acks[i].ip = NodeIP(me) /\ f.acks[i].pid = e.id
<1> DEFINE n == Len(f.acks)
           Acked(e) == \E i \in 1..n : f.acks[i].ip = NodeIP(me) /\ f.acks[i].pid = e.id
<1>1. PICK g : /\ ErasesBy(g, s, f)
               /\ \A i \in 0..n : g[i] \in Bounded(RtEntry)
  BY EraseAckedRuns
<1>2. n \in Nat /\ s.me = me
  BY FrameFields, Fields
<1> DEFINE T == {i \in 0..n : /\ Range(g[i]) \subseteq Range(s.rtqueue)
                              /\ \A e \in Range(s.rtqueue) : e \in Range(g[i]) \/ Acked(e)}
<1>3. 0 \in T
  BY <1>1, <1>2 DEF ErasesBy
<1>4. ASSUME NEW i \in 1..n, i - 1 \in T PROVE i \in T
  <2> DEFINE q == g[i - 1]  pid == f.acks[i].pid
  <2>1. /\ q \in Bounded(RtEntry) /\ Range(q) \subseteq Range(s.rtqueue)
        /\ \A e \in Range(s.rtqueue) : e \in Range(q) \/ Acked(e)
    BY <1>1, <1>4
  <2>2. g[i] = IF f.acks[i].ip = NodeIP(me) THEN Erase(q, pid) ELSE q
    BY <1>1, <1>2 DEF ErasesBy, AckedBy
  <2> HIDE DEF q
  <2>3. CASE f.acks[i].ip = NodeIP(me) /\ pid \in Ids(q)
    <3>1. PICK x \in Range(q) : x.id = pid
      BY <2>3, IdsOfRange
    <3>2. Range(Erase(q, pid)) = Range(q) \ {x}
      BY <2>1, <3>1, EraseRange DEF Bounded
    <3>3. Acked(x)
      BY <2>3, <3>1
    <3> QED BY <1>2, <2>1, <2>2, <2>3, <3>2, <3>3
  <2>4. CASE ~(f.acks[i].ip = NodeIP(me) /\ pid \in Ids(q))
    <3>1. g[i] = q
      BY <2>2, <2>4 DEF Erase
    <3> QED BY <1>2, <2>1, <3>1
  <2> QED BY <2>3, <2>4
<1> HIDE DEF Acked
<1>5. n \in T
  <2> HIDE DEF T
  <2>1. 0..n \subseteq T
    BY <1>2, <1>3, <1>4, RangeInduction
  <2> QED BY <1>2, <2>1
<1>6. g[n] \in Bounded(RtEntry) /\ EraseAcked(s, f) = [s EXCEPT !.rtqueue = g[n]]
  BY <1>1, <1>2 DEF ErasesBy
<1> QED BY <1>5, <1>6 DEF Acked

\* Acknowledgments only shorten the retransmission queue.
LEMMA EraseAckedGood ==
  ASSUME NEW me \in Node, NEW X, NEW s \in Good(me, X), NEW f \in Frame
  PROVE  EraseAcked(s, f) \in Good(me, X) /\ EraseAcked(s, f).abort = s.abort
<1>1. s \in Typed(me, X) /\ s.rtqueue \in Seq(RtEntry)
  BY Fields DEF Good
<1>2. PICK q \in Bounded(RtEntry) : /\ EraseAcked(s, f) = [s EXCEPT !.rtqueue = q]
                                    /\ Range(q) \subseteq Range(s.rtqueue)
  BY <1>1, EraseAckedResult
<1>3. s.rtqueue = <<>> => q = <<>>
  <2>1. q # <<>> => q[1] \in Range(q)
    BY EmptySeq DEF Bounded, Range
  <2>2. s.rtqueue = <<>> => Range(s.rtqueue) = {}
    BY DEF Range
  <2> QED BY <1>2, <2>1, <2>2
<1>4. [s EXCEPT !.rtqueue = q] \in Typed(me, X)
  BY <1>1, UpdateTyped
<1>5. /\ [s EXCEPT !.rtqueue = q].rtqueue = q /\ [s EXCEPT !.rtqueue = q].timer = s.timer
      /\ [s EXCEPT !.rtqueue = q].abort = s.abort
  BY <1>1 DEF Typed, IState
<1>6. [s EXCEPT !.rtqueue = q] \in Good(me, X)
  BY <1>3, <1>4, <1>5 DEF Good, Armed, Running
<1> QED BY <1>2, <1>5, <1>6

\* The sender is a neighbour afterwards, so its name can be looked up.
LEMMA RecvHeaderGood ==
  ASSUME NEW me \in Node, NEW s \in Good(me, {}), Running(s), NEW d \in Devices(me),
         NEW f \in Frame
  PROVE  LET s1 == RecvHeader(s, d, f)
         IN  /\ s1 \in Good(me, {})
             /\ Running(s1) => GetMac(s1.nbrs[SearchIP(s1.nbrs, NodeIP(f.from))]) \in Nat
<1> DEFINE ip == NodeIP(f.from)
           u == SMNeighbors(s, ip, f.src, Channel(s, d))
           mac == GetMac(u.nbrs[SearchIP(u.nbrs, ip)])
           pids == {a.pid : a \in Range(f.acks)} \union f.reports
           v == EraseAcked(u, f)
<1>1. s \in Typed(me, {}) /\ s \in IState(me) /\ s.me = me /\ s.nbrs \in Seq(Neighbor)
  BY Fields DEF Good, Typed
<1>2. ip \in Nat /\ f.src \in Nat \ {0} /\ Channel(s, d) \in Nat /\ pids \in SUBSET Pid
  <2>1. RadiosOf[me] \in Seq(Trinity) /\ d \in 1..Len(RadiosOf[me])
    BY RadiosAssumption DEF Devices
  <2>2. RadiosOf[me][d] \in Trinity
    BY <2>1
  <2> QED BY <1>1, <2>2, FrameFields, NodeIPType DEF Channel, Trinity
<1>3. s = [x \in DOMAIN s |-> s[x]] /\ "nbrs" \in DOMAIN s
  BY <1>1 DEF IState
<1>4. RecvHeader(s, d, f) = IF Running(u) THEN SetItems(v, pids, mac) ELSE u
  BY DEF RecvHeader
<1> HIDE DEF ip, pids
<1>5. \/ \E n \in Seq(Neighbor) : u = [s EXCEPT !.nbrs = n] /\ \E i \in DOMAIN n : HasIP(n[i], ip)
      \/ \E a \in {"DuplicateVirtual", "NewNeighbor"} : u = Abort(s, a)
  BY <1>1, <1>2, <1>3, SMNeighborsResult
<1>6. CASE \E n \in Seq(Neighbor) :
             u = [s EXCEPT !.nbrs = n] /\ \E i \in DOMAIN n : HasIP(n[i], ip)
  <2>1. PICK n \in Seq(Neighbor) : u = [s EXCEPT !.nbrs = n] /\ \E i \in DOMAIN n : HasIP(n[i], ip)
    BY <1>6
  <2>2. u.nbrs = n /\ u \in Good(me, {}) /\ Running(u)
    <3>1. [s EXCEPT !.nbrs = n].nbrs = n /\ [s EXCEPT !.nbrs = n].abort = s.abort
      BY <1>1 DEF IState
    <3>2. [s EXCEPT !.nbrs = n] \in Good(me, {})
      BY UpdateGood
    <3> QED BY <2>1, <3>1, <3>2 DEF Running
  <2> HIDE DEF u
  <2>3. mac \in Nat
    <3>1. SearchIP(n, ip) \in DOMAIN n
      BY <2>1, SearchIPProperties
    <3>2. n[SearchIP(n, ip)] \in Neighbor
      BY <3>1
    <3> QED BY <2>2, <3>2, NeighborFields
  <2>4. v \in Good(me, {}) /\ v.nbrs = n
    <3>1. v.nbrs = u.nbrs
      BY <2>2 DEF EraseAcked, Good, Typed, IState
    <3> QED BY <2>2, <3>1, EraseAckedGood
  <2>5. SetItems(v, pids, mac).nbrs = n
    BY <2>4 DEF SetItems, Good, Typed, IState
  <2>6. GetMac(n[SearchIP(n, ip)]) = mac
    BY <2>2
  <2> HIDE DEF mac, v
  <2>7. SetItems(v, pids, mac) \in Good(me, {})
    BY <1>2, <2>3, <2>4, SetItemsGood
  <2> QED BY <1>4, <2>2, <2>3, <2>5, <2>6, <2>7 DEF ip
<1>7. CASE \E a \in {"DuplicateVirtual", "NewNeighbor"} : u = Abort(s, a)
  <2>1. u \in Good(me, {}) /\ ~Running(u)
    BY <1>1, <1>7, AbortGood DEF Aborts
  <2> QED BY <1>4, <2>1
<1> QED BY <1>5, <1>6, <1>7

\* A data frame keeps the invariant.
LEMMA RecvDataGood ==
  ASSUME NEW me \in Node, NEW s \in Good(me, {}), Running(s), NEW d \in Devices(me),
         NEW f \in Frame,
         NEW sends \in Sendable(me) \union {NoSend}
  PROVE  RecvData(s, d, f, sends) \in Good(me, {})
<1> DEFINE s1 == RecvHeader(s, d, f)
           mac == GetMac(s1.nbrs[SearchIP(s1.nbrs, NodeIP(f.from))])
           s2 == IF Coded(f) THEN RecvCoded(s1, d, f, mac, sends)
                 ELSE RecvPlain(s1, d, f, mac, sends)
<1>1. s1 \in Good(me, {}) /\ (Running(s1) => mac \in Nat)
  BY RecvHeaderGood
<1>2. RecvData(s, d, f, sends) = IF ~Running(s1) THEN s1 ELSE TrySend(s2)
  BY DEF RecvData
<1> HIDE DEF s1, mac
<1>3. ASSUME Running(s1) PROVE s2 \in Good(me, {})
  BY <1>1, <1>3, RecvCodedGood, RecvPlainGood
<1> HIDE DEF s2
<1>4. CASE ~Running(s1)
  BY <1>1, <1>2, <1>4
<1>5. CASE Running(s1)
  BY <1>2, <1>3, <1>5, TrySendGood
<1> QED BY <1>4, <1>5

\* Every frame keeps the invariant.
LEMMA RecvGood ==
  ASSUME NEW me \in Node, NEW s \in Good(me, {}), Running(s), NEW d \in Devices(me),
         NEW f \in Frame,
         NEW sends \in Sendable(me) \union {NoSend}
  PROVE  Recv(s, d, f, sends) \in Good(me, {})
<1> DEFINE s1 == NeighborLearn(s, RadiosOf[f.from])
<1>1. Recv(s, d, f, sends) = IF f.src \in Macs(s.me) THEN s
                             ELSE IF f.hello THEN TrySend(s1)
                             ELSE IF ForOtherRadio(s, d, f) THEN s
                             ELSE RecvData(s, d, f, sends)
  BY DEF Recv
<1>2. s \in Typed(me, {}) /\ s.nbrs \in Seq(Neighbor) /\ s.abort \in Aborts
  BY Fields DEF Good
<1>3. RadiosOf[f.from] \in Seq(Trinity) /\ RadiosOf[f.from] # <<>>
  BY FrameFields, RadiosAssumption
<1>4. \/ \E n \in Seq(Neighbor) : s1 = [s EXCEPT !.nbrs = n]
      \/ \E a \in Aborts : a # "none" /\ s1 = Abort(s, a)
  <2>1. "DuplicateVirtual" \in Aborts
    BY DEF Aborts
  <2> QED BY <1>2, <1>3, <2>1, NeighborLearnResult
<1> HIDE DEF s1
<1>5. s1 \in Good(me, {})
  BY <1>2, <1>4, UpdateGood, AbortGood
<1>6. TrySend(s1) \in Good(me, {})
  BY <1>5, TrySendGood
<1> QED BY <1>1, <1>6, RecvDataGood

-------------------------------------------------------------------------------
(* The invariant                                                           *)

\* The entries that belong in a virtual queue.
Waiting(q) == {e \in Range(q) : ~e.hello /\ e.dest # Broadcast}

\* The next hops that still have to acknowledge a packet.
Awaited(s) == {e.dest : e \in Range(s.rtqueue)}

\* The assertions that hold whatever the addresses are, one of them when all
\* radios can hear each other.
Stuck ==
  {"DuplicateVirtual", "NewNeighbor", "EraseFromQueue", "NeighborGone"}
    \union {x \in {"IndexChannel"} : OneChannel}

\* The assertions that hold when addresses name one node.
Misled == {"NeighborMissing", "VirtualQueueRemove", "NeighborLost", "IdNexthop"}

\* The assertions that hold when the frames of other nodes are honest.
Garbled == {"DecodedOther", "DecodedHash", "PlainHash", "BroadcastCoded"}

Tied(s) ==
  /\ Linked(s.nbrs, Waiting(s.queue))
  /\ Waiting(s.rtqueue) = Range(s.rtqueue)
  /\ s.abort \notin Stuck

Whole(s) ==
  /\ Complete(s.nbrs, Waiting(s.queue), Awaited(s))
  /\ s.abort \notin Misled

\* From s to r nothing is lost, and nothing is found garbled.
Keeps(s, r) ==
  /\ Tied(r)
  /\ WellConfigured /\ Whole(s) => Whole(r)
  /\ r.abort \in Garbled => s.abort \in Garbled

\* One handler after another.
LEMMA KeepsChain ==
  ASSUME NEW s, NEW r, NEW t, Keeps(s, r), Keeps(r, t)
  PROVE  Keeps(s, t)
BY DEF Keeps

\* The directory and the waiting packets do not change, fewer packets wait
\* for acknowledgments.
Same(s, r) ==
  /\ r.nbrs = s.nbrs
  /\ Waiting(r.queue) = Waiting(s.queue)
  /\ Range(r.rtqueue) \subseteq Range(s.rtqueue)
  /\ r.abort = s.abort \/ r.abort \notin Stuck \union Misled \union Garbled

\* Then nothing is lost.
LEMMA SameKeeps ==
  ASSUME NEW s, NEW r, Tied(s), Same(s, r)
  PROVE  Keeps(s, r)
<1>1. Tied(r)
  BY DEF Tied, Same, Waiting
<1>2. Awaited(r) \subseteq Awaited(s)
  BY DEF Same, Awaited
<1>3. ASSUME Whole(s) PROVE Whole(r)
  <2>1. Complete(r.nbrs, Waiting(r.queue), Awaited(r))
    BY <1>2, <1>3, CompleteFor DEF Whole, Same
  <2> QED BY <1>3, <2>1 DEF Whole, Same
<1> QED BY <1>1, <1>3 DEF Keeps, Same

\* Dequeue.
LEMMA WaitingTail ==
  ASSUME NEW q \in Bounded(Entry), q # <<>>
  PROVE  /\ Waiting(Tail(q)) = Waiting(q) \ {Head(q)}
         /\ Range(Tail(q)) = Range(q) \ {Head(q)}
         /\ Head(q) \in Range(q) /\ Head(q) \in Entry
         /\ Accepts(Tail(q), Head(q))
<1>1. /\ Tail(q) \in Seq(Entry) /\ Distinct(Tail(q))
      /\ Head(q) \in Range(q) /\ Head(q) \in Entry
      /\ Range(Tail(q)) = Range(q) \ {Head(q)}
  BY TailRange DEF Bounded
<1>2. Len(Tail(q)) # QueueMax
  <2>1. q \in Seq(Entry) /\ Len(q) <= QueueMax
    BY DEF Bounded
  <2>2. Len(Tail(q)) = Len(q) - 1 /\ Len(q) \in Nat
    BY <2>1, HeadTailProperties
  <2> DEFINE m == Len(Tail(q))  n == Len(q)
  <2>3. m = n - 1 /\ n \in Nat /\ n <= QueueMax /\ QueueMax \in Nat
    BY <2>1, <2>2, BoundsAssumption
  <2> HIDE DEF m, n
  <2>4. m # QueueMax
    BY ONLY <2>3
  <2> QED BY <2>4 DEF m
<1>3. Head(q).id \notin Ids(Tail(q))
  <2>1. SUFFICES ASSUME Head(q).id \in Ids(Tail(q)) PROVE FALSE
    OBVIOUS
  <2>2. PICK x \in Range(Tail(q)) : x.id = Head(q).id
    BY <2>1, IdsOfRange
  <2>3. x = Head(q)
    BY <1>1, <2>2, DistinctEntries DEF Bounded
  <2> QED BY <1>1, <2>2, <2>3
<1> QED BY <1>1, <1>2, <1>3 DEF Waiting, Accepts

\* EraseFromQueue.
LEMMA WaitingErase ==
  ASSUME NEW q \in Bounded(Entry), NEW e \in Range(q)
  PROVE  Waiting(Erase(q, e.id)) = Waiting(q) \ {e}
<1>1. Range(Erase(q, e.id)) = Range(q) \ {e}
  BY EraseRange DEF Bounded
<1> QED BY <1>1 DEF Waiting

\* Enqueue.
LEMMA WaitingEnqueue ==
  ASSUME NEW S, NEW q \in Bounded(S), NEW e \in S
  PROVE  /\ Accepts(q, e) => /\ Range(EnqueueBack(q, e)) = Range(q) \union {e}
                             /\ Range(EnqueueFront(q, e)) = Range(q) \union {e}
                             /\ EnqueueFront(q, e)[1] = e
                             /\ \A x \in Range(q) : x.id # e.id
         /\ ~Accepts(q, e) => EnqueueBack(q, e) = q /\ EnqueueFront(q, e) = q
<1>1. CASE Accepts(q, e)
  <2>1. q \in Seq(S) /\ Distinct(q) /\ e.id \notin Ids(q)
    BY <1>1 DEF Bounded, Accepts
  <2>2. /\ Range(Append(q, e)) = Range(q) \union {e}
        /\ Range(<<e>> \o q) = Range(q) \union {e}
    BY <2>1, OneMoreRange
  <2>3. (<<e>> \o q)[1] = e
    <3>1. <<e>> \in Seq(S) /\ Len(<<e>>) = 1 /\ <<e>>[1] = e
      OBVIOUS
    <3> QED BY <2>1, <3>1, ConcatProperties
  <2>4. \A x \in Range(q) : x.id # e.id
    BY <2>1, IdsOfRange
  <2> QED BY <1>1, <2>2, <2>3, <2>4 DEF EnqueueBack, EnqueueFront
<1>2. CASE ~Accepts(q, e)
  BY <1>2 DEF EnqueueBack, EnqueueFront
<1> QED BY <1>1, <1>2

-------------------------------------------------------------------------------
(* Encoding                                                                *)

\* The head of a virtual queue leaves it and the output queue together.
LEMMA TakeKeeps ==
  ASSUME NEW me \in Node, NEW X, NEW s \in Typed(me, X), Tied(s), NEW i \in DOMAIN s.nbrs,
         s.nbrs[i].vq # <<>>
  PROVE  /\ Head(s.nbrs[i].vq) \in Range(s.queue)
         /\ Keeps(s, Take(s, i))
         /\ SameRadios(s.nbrs, Take(s, i).nbrs)
<1> DEFINE nbr == s.nbrs[i]
           v == Head(nbr.vq)
           vq == Tail(nbr.vq)
           rt == IF HitMax(v) THEN s.rtqueue ELSE EnqueueBack(s.rtqueue, v)
           r == Take(s, i)
           W == Waiting(s.queue)
<1>1. /\ s.nbrs \in Seq(Neighbor) /\ nbr \in Neighbor /\ nbr.vq \in Seq(Entry)
      /\ s.queue \in Bounded(Entry) /\ s.rtqueue \in Bounded(RtEntry)
  BY Fields, NeighborFields
<1>2. Linked(s.nbrs, W) /\ Distinct(nbr.vq) /\ Range(nbr.vq) \subseteq W
  BY DEF Tied, Linked, Sound
<1>3. /\ vq \in Seq(Entry) /\ Distinct(vq) /\ v \in Entry /\ v \in Range(nbr.vq)
      /\ Range(vq) = Range(nbr.vq) \ {v}
  BY <1>1, <1>2, TailRange
<1>4. v \in W /\ v \in Range(s.queue)
  BY <1>2, <1>3 DEF Waiting
<1>5. /\ r.nbrs = Requeued(s.nbrs, i, vq)
      /\ r.queue = Erase(s.queue, v.id)
      /\ r.rtqueue = rt
      /\ r.abort = s.abort
  BY DEF Take, Typed, IState, Requeued
<1> HIDE DEF r, v, vq
<1>6. Waiting(r.queue) = W \ {v}
  BY <1>1, <1>4, <1>5, WaitingErase
<1>7. Range(rt) \subseteq Range(s.rtqueue) \union {v}
  <2>1. ~HitMax(v) => v \in RtEntry
    BY <1>3, EntryFields
  <2> QED BY <1>1, <2>1, WaitingEnqueue
<1> HIDE DEF rt
<1>8. Linked(r.nbrs, W \ {v}) /\ \A M : Complete(s.nbrs, W, M) => Complete(r.nbrs, W \ {v}, M)
  <2>1. /\ Linked(Requeued(s.nbrs, i, vq), W \ {v})
        /\ \A M : Complete(s.nbrs, W, M) => Complete(Requeued(s.nbrs, i, vq), W \ {v}, M)
    <3> HIDE DEF W
    <3> QED BY <1>1, <1>2, <1>3, DetachLinked
  <2> QED BY <1>5, <2>1
<1>9. SameRadios(s.nbrs, r.nbrs)
  <2>1. SameRadios(s.nbrs, Requeued(s.nbrs, i, vq))
    BY <1>1, <1>3, RequeuedRadios
  <2> QED BY <1>5, <2>1
<1>10. Tied(r)
  BY <1>4, <1>5, <1>6, <1>7, <1>8 DEF Tied, Waiting
<1>11. ASSUME Whole(s) PROVE Whole(r)
  <2>1. Complete(r.nbrs, W \ {v}, Awaited(s))
    BY <1>8, <1>11 DEF Whole
  <2>2. Remembers(r.nbrs, v.dest)
    <3>1. HasMac(nbr, v.dest)
      BY <1>3, <1>11 DEF Whole, Complete, Owns
    <3> QED BY <1>9, <3>1 DEF Remembers, SameRadios, HasMac
  <2>3. \A mac \in Awaited(r) : mac \in Awaited(s) \/ Remembers(r.nbrs, mac)
    BY <1>5, <1>7, <2>2 DEF Awaited
  <2>4. Complete(r.nbrs, Waiting(r.queue), Awaited(r))
    BY <1>6, <2>1, <2>3, CompleteFor
  <2> QED BY <1>5, <1>11, <2>4 DEF Whole
<1> QED BY <1>4, <1>5, <1>9, <1>10, <1>11 DEF Keeps, r, v

\* Every native of the code is for a neighbour that was counted in.
Addressed(r) ==
  \A x \in r.natives : \E j \in DOMAIN r.s.nbrs :
    HasMac(r.s.nbrs[j], x.mac) /\ GetMac(r.s.nbrs[j]) \in r.nexthops

\* What the loop of Encode, started in s, keeps.
Coding(s, r) ==
  /\ Keeps(s, r.s)
  /\ r.channels \subseteq Channels
  /\ SameRadios(s.nbrs, r.s.nbrs)
  /\ WellConfigured /\ Whole(s) => Addressed(r)

\* No radio, no memory changes.
LEMMA SameRadiosChain ==
  ASSUME NEW a, NEW b, NEW c, SameRadios(a, b), SameRadios(b, c)
  PROVE  SameRadios(a, c)
BY DEF SameRadios

\* Nothing stands against taking a packet into the code.
LEMMA CombineCoding ==
  ASSUME NEW me \in Node, NEW X, NEW n, NEW s, NEW r \in Codes(me, X, n), Coding(s, r),
         NEW i \in DOMAIN r.s.nbrs, r.s.nbrs[i].vq # <<>>,
         GetMac(r.s.nbrs[i]) \notin r.nexthops, NEW channel
  PROVE  Coding(s, Combine(r, i, channel))
<1> DEFINE nbr == r.s.nbrs[i]
           v == Head(nbr.vq)
           taken == Take(r.s, i)
           r1 == [r EXCEPT !.s = Take(@, i),
                    !.nexthops = @ \union {GetMac(nbr)},
                    !.natives = @ \union {[mac |-> v.dest, pid |-> v.id]},
                    !.payload = XOR({r.first}, {v.id}),
                    !.iface = DeviceOn(r.s, channel),
                    !.dest = Index(nbr, channel),
                    !.encoded = TRUE]
<1>1. r.s \in Typed(me, X) /\ Tied(r.s) /\ r.s.nbrs \in Seq(Neighbor)
  BY Fields DEF Codes, Coding, Keeps
<1>2. nbr \in Neighbor /\ v \in Range(nbr.vq)
  <2>1. nbr \in Neighbor /\ nbr.vq \in Seq(Entry) /\ Distinct(nbr.vq)
    BY <1>1, NeighborFields DEF Tied, Linked, Sound
  <2> QED BY <2>1, TailRange
<1>3. /\ v \in Range(r.s.queue) /\ Keeps(r.s, taken) /\ SameRadios(r.s.nbrs, taken.nbrs)
  BY <1>1, TakeKeeps
<1>4. v.id \in Ids(r.s.queue)
  BY <1>3, IdsOfRange
<1> HIDE DEF v
<1>5. CASE \E x \in r.natives : x.mac = v.dest
  <2>1. Combine(r, i, channel) = [r EXCEPT !.s = Abort(@, "IdNexthop")]
    BY <1>5 DEF Combine, v
  <2> DEFINE a == Abort(r.s, "IdNexthop")
  <2>2. /\ a.nbrs = r.s.nbrs /\ a.queue = r.s.queue /\ a.rtqueue = r.s.rtqueue
        /\ a.abort = "IdNexthop"
    BY <1>1 DEF Abort, Typed, IState
  <2>3. Tied(a)
    BY <1>1, <2>2 DEF Tied, Stuck
  <2>4. ~(WellConfigured /\ Whole(s))
    <3>1. SUFFICES ASSUME WellConfigured, Whole(s) PROVE FALSE
      OBVIOUS
    <3>2. Whole(r.s) /\ Addressed(r)
      BY <3>1 DEF Coding, Keeps
    <3>3. PICK x \in r.natives : x.mac = v.dest
      BY <1>5
    <3>4. PICK j \in DOMAIN r.s.nbrs :
            HasMac(r.s.nbrs[j], v.dest) /\ GetMac(r.s.nbrs[j]) \in r.nexthops
      BY <3>2, <3>3 DEF Addressed
    <3>5. HasMac(r.s.nbrs[i], v.dest)
      BY <1>2, <3>2 DEF Whole, Complete, Owns
    <3>6. i = j
      BY <1>1, <3>4, <3>5 DEF Tied, Linked, Apart, ShareAddress, HasMac
    <3> QED BY <3>4, <3>6
  <2>5. Keeps(s, a) /\ SameRadios(s.nbrs, a.nbrs)
    BY <2>2, <2>3, <2>4 DEF Keeps, Coding, Garbled
  <2> HIDE DEF a
  <2>6. [r EXCEPT !.s = a].s = a /\ [r EXCEPT !.s = a].channels = r.channels
    BY DEF Codes
  <2> QED BY <2>1, <2>4, <2>5, <2>6 DEF Coding, a
<1>6. CASE ~(\E x \in r.natives : x.mac = v.dest)
  <2>1. Combine(r, i, channel) = r1
    BY <1>4, <1>6 DEF Combine, v
  <2>2. /\ r1.s = taken /\ r1.nexthops = r.nexthops \union {GetMac(nbr)}
        /\ r1.natives = r.natives \union {[mac |-> v.dest, pid |-> v.id]}
        /\ r1.channels = r.channels
    BY DEF Codes
  <2> HIDE DEF r1, taken
  <2>3. Keeps(s, r1.s) /\ SameRadios(s.nbrs, r1.s.nbrs)
    BY <1>3, <2>2, KeepsChain, SameRadiosChain DEF Coding
  <2>4. ASSUME WellConfigured, Whole(s) PROVE Addressed(r1)
    <3>1. Addressed(r) /\ HasMac(nbr, v.dest)
      BY <1>2, <2>4 DEF Coding, Keeps, Whole, Complete, Owns
    <3>2. ASSUME NEW x \in r1.natives
          PROVE  \E j \in DOMAIN r1.s.nbrs :
                   HasMac(r1.s.nbrs[j], x.mac) /\ GetMac(r1.s.nbrs[j]) \in r1.nexthops
      <4>1. \E j \in DOMAIN r.s.nbrs :
              HasMac(r.s.nbrs[j], x.mac) /\ GetMac(r.s.nbrs[j]) \in r1.nexthops
        <5>1. CASE x \in r.natives
          BY <2>2, <3>1, <5>1 DEF Addressed
        <5>2. CASE x = [mac |-> v.dest, pid |-> v.id]
          BY <2>2, <3>1, <5>2
        <5> QED BY <2>2, <3>2, <5>1, <5>2
      <4>2. PICK j \in DOMAIN r.s.nbrs :
              HasMac(r.s.nbrs[j], x.mac) /\ GetMac(r.s.nbrs[j]) \in r1.nexthops
        BY <4>1
      <4>3. HasMac(r1.s.nbrs[j], x.mac) /\ GetMac(r1.s.nbrs[j]) = GetMac(r.s.nbrs[j])
        BY <1>1, <1>3, <2>2, <4>2, SameRadiosSearch
      <4>4. j \in DOMAIN r1.s.nbrs
        BY <1>3, <2>2 DEF SameRadios
      <4> QED BY <4>2, <4>3, <4>4
    <3> QED BY <3>2 DEF Addressed
  <2> QED BY <2>1, <2>2, <2>3, <2>4 DEF Coding
<1> QED BY <1>5, <1>6

\* So it starts.
LEMMA EncodeStartCoding ==
  ASSUME NEW me \in Node, NEW X, NEW s \in Typed(me, X), Tied(s), NEW e \in Entry,
         SearchMac(s.nbrs, e.dest) # 0
  PROVE  Coding(s, EncodeStart(s, e))
<1> DEFINE pos == SearchMac(s.nbrs, e.dest)
           r == EncodeStart(s, e)
<1>1. s.nbrs \in Seq(Neighbor) /\ pos \in DOMAIN s.nbrs /\ HasMac(s.nbrs[pos], e.dest)
  BY Fields, SearchMacProperties
<1>2. /\ r.s = s /\ r.natives = {[mac |-> e.dest, pid |-> e.id]}
      /\ r.nexthops = {GetMac(s.nbrs[pos])} /\ r.channels = GetChannels(s.nbrs[pos])
  BY DEF EncodeStart
<1>3. Keeps(s, s) /\ SameRadios(s.nbrs, s.nbrs)
  BY <1>1 DEF Keeps, SameRadios
<1>4. Addressed(r)
  BY <1>1, <1>2 DEF Addressed
<1>5. GetChannels(s.nbrs[pos]) \subseteq Channels
  BY <1>1 DEF Tied, Linked, Sound, OnAir, GetChannels
<1> QED BY <1>2, <1>3, <1>4, <1>5 DEF Coding

\* So the loop of Encode goes on.
LEMMA EncodeWithCoding ==
  ASSUME NEW me \in Node, NEW X, NEW n, NEW s, NEW r \in Codes(me, X, n), Coding(s, r),
         NEW i \in 1..n
  PROVE  Coding(s, EncodeWith(r, i))
<1> DEFINE offered == GetChannels(r.s.nbrs[i])
           common == r.channels \intersect offered
           channels == IF common = {} THEN r.channels ELSE common
           usable == {c \in channels : DeviceOn(r.s, c) \in DevicesIf(r.s)}
           r1 == [r EXCEPT !.channels = channels]
<1>1. r.s \in Typed(me, X) /\ i \in DOMAIN r.s.nbrs /\ r.channels \in SUBSET Nat
  BY Fields DEF Codes
<1>2. CASE ~Running(r.s) \/ ~Combines(r, i)
  BY <1>2 DEF EncodeWith
<1>3. CASE Running(r.s) /\ Combines(r, i)
  <2>1. r.s.nbrs[i].vq # <<>> /\ GetMac(r.s.nbrs[i]) \notin r.nexthops
    BY <1>3 DEF Combines
  <2>2. EncodeWith(r, i) = IF usable = {} THEN r1
                           ELSE IF ~(usable \subseteq offered)
                           THEN [r1 EXCEPT !.s = Abort(@, "IndexChannel")]
                           ELSE Combine(r1, i, Max(usable))
    BY <1>3 DEF EncodeWith
  <2>3. channels \in SUBSET Nat /\ channels \subseteq Channels /\ usable \subseteq channels
    BY <1>1 DEF Coding
  <2>4. offered \subseteq Channels /\ offered # {}
    <3>1. r.s.nbrs[i] \in Neighbor /\ OnAir(r.s.nbrs[i].pairs)
      BY <1>1, Fields DEF Coding, Keeps, Tied, Linked, Sound
    <3> QED BY <3>1 DEF Neighbor, OnAir, GetChannels
  <2> HIDE DEF offered, channels
  <2>5. /\ r1 \in Codes(me, X, n) /\ r1.s = r.s /\ r1.nexthops = r.nexthops
        /\ r1.natives = r.natives /\ r1.channels = channels
    BY <2>3 DEF Codes
  <2> HIDE DEF r1, usable
  <2>6. Coding(s, r1)
    BY <2>3, <2>5 DEF Coding, Addressed
  <2>7. Coding(s, Combine(r1, i, Max(usable)))
    BY <1>1, <2>1, <2>5, <2>6, CombineCoding
  <2>8. ASSUME ~(usable \subseteq offered)
        PROVE  Coding(s, [r1 EXCEPT !.s = Abort(@, "IndexChannel")])
    <3> DEFINE a == Abort(r1.s, "IndexChannel")
               r2 == [r1 EXCEPT !.s = a]
    <3>1. /\ a.nbrs = r1.s.nbrs /\ a.queue = r1.s.queue /\ a.rtqueue = r1.s.rtqueue
          /\ a.abort = "IndexChannel"
      BY <1>1, <2>5 DEF Abort, Typed, IState
    <3>2. Tied(r1.s)
      BY <2>6 DEF Coding, Keeps
    <3>3. ~OneChannel
      BY <2>3, <2>4, <2>8 DEF OneChannel
    <3>4. Same(r1.s, a)
      BY <3>1, <3>3 DEF Same, Stuck, Misled, Garbled
    <3> HIDE DEF a
    <3>5. Keeps(s, a) /\ SameRadios(s.nbrs, a.nbrs)
      BY <2>6, <3>1, <3>2, <3>4, SameKeeps, KeepsChain DEF Coding
    <3>6. /\ r2.s = a /\ r2.natives = r1.natives /\ r2.nexthops = r1.nexthops
          /\ r2.channels = r1.channels
      BY <2>5 DEF Codes
    <3> HIDE DEF r2
    <3>7. Coding(s, r2)
      BY <2>6, <3>1, <3>5, <3>6 DEF Coding, Addressed
    <3> QED BY <3>7 DEF r2, a
  <2> QED BY <2>2, <2>6, <2>7, <2>8
<1> QED BY <1>2, <1>3

\* Encode moves waiting packets to the retransmission queue, consistently.
LEMMA EncodeKeeps ==
  ASSUME NEW me \in Node, NEW X, NEW s \in Typed(me, X), Tied(s), NEW e \in Entry,
         ~e.hello, e.dest # Broadcast, SearchMac(s.nbrs, e.dest) # 0
  PROVE  Keeps(s, Encode(s, e).s) /\ SameRadios(s.nbrs, Encode(s, e).s.nbrs)
<1> DEFINE n == Len(s.nbrs)
           pos == SearchMac(s.nbrs, e.dest)
<1>1. PICK f : /\ EncodesBy(f, s, e)
               /\ \A i \in 0..n : f[i] \in Codes(me, X, n)
  BY EncodeRuns
<1>2. /\ n \in Nat /\ s.nbrs \in Seq(Neighbor)
      /\ pos \in DOMAIN s.nbrs /\ HasMac(s.nbrs[pos], e.dest)
  BY Fields, SearchMacProperties
<1>3. f[0] = EncodeStart(s, e)
  BY <1>1 DEF EncodesBy
<1>4. Coding(s, f[0])
  BY <1>3, EncodeStartCoding
<1> DEFINE T == {i \in 0..n : Coding(s, f[i])}
<1>5. 0 \in T
  BY <1>2, <1>4
<1>6. ASSUME NEW i \in 1..n, i - 1 \in T PROVE i \in T
  <2>1. f[i] = EncodeWith(f[i - 1], i) /\ f[i - 1] \in Codes(me, X, n) /\ Coding(s, f[i - 1])
    BY <1>1, <1>6 DEF EncodesBy
  <2> QED BY <1>2, <2>1, EncodeWithCoding
<1>7. Coding(s, f[n])
  <2> HIDE DEF T
  <2>1. 0..n \subseteq T
    BY <1>2, <1>5, <1>6, RangeInduction
  <2> QED BY <1>2, <2>1 DEF T
<1> DEFINE r == f[n]
<1>8. r \in Codes(me, X, n)
  BY <1>1, <1>2
<1>9. Encode(s, e) = IF Running(r.s) /\ r.encoded /\ ~HitMax(e)
                     THEN [r EXCEPT !.s.rtqueue = EnqueueBack(@, e)]
                     ELSE r
  BY <1>1 DEF EncodesBy
<1>10. Coding(s, r)
  BY <1>7
<1> HIDE DEF r
<1>11. CASE ~(Running(r.s) /\ r.encoded /\ ~HitMax(e))
  BY <1>9, <1>10, <1>11 DEF Coding
<1>12. CASE Running(r.s) /\ r.encoded /\ ~HitMax(e)
  <2> DEFINE q == EnqueueBack(r.s.rtqueue, e)
             u == [r.s EXCEPT !.rtqueue = q]
  <2>1. r.s \in Typed(me, X) /\ r.s.rtqueue \in Bounded(RtEntry) /\ e \in RtEntry
    BY <1>8, <1>12, Fields, EntryFields DEF Codes
  <2>2. Range(q) \subseteq Range(r.s.rtqueue) \union {e}
    BY <2>1, WaitingEnqueue
  <2>3. Encode(s, e).s = u
    BY <1>8, <1>9, <1>12 DEF Codes
  <2> HIDE DEF q
  <2>4. u.nbrs = r.s.nbrs /\ u.queue = r.s.queue /\ u.rtqueue = q /\ u.abort = r.s.abort
    BY <2>1 DEF Typed, IState
  <2> HIDE DEF u
  <2>5. Tied(u)
    BY <1>10, <2>2, <2>4 DEF Coding, Keeps, Tied, Waiting
  <2>6. ASSUME WellConfigured, Whole(s) PROVE Whole(u)
    <3>1. Complete(u.nbrs, Waiting(u.queue), Awaited(r.s)) /\ u.abort \notin Misled
      BY <1>10, <2>4, <2>6 DEF Coding, Keeps, Whole
    <3>2. Remembers(u.nbrs, e.dest)
      BY <1>2, <1>10, <2>4 DEF Coding, SameRadios, Remembers, HasMac
    <3>3. \A mac \in Awaited(u) : mac \in Awaited(r.s) \/ Remembers(u.nbrs, mac)
      BY <2>2, <2>4, <3>2 DEF Awaited
    <3> QED BY <3>1, <3>3, CompleteFor DEF Whole
  <2> QED BY <1>10, <2>3, <2>4, <2>5, <2>6 DEF Keeps, Coding
<1> QED BY <1>11, <1>12

-------------------------------------------------------------------------------
(* Sending                                                                 *)

\* In s1 the packet e has joined the output queue of s, but not yet the
\* virtual queue of its next hop.
Arrived(s, s1, e) ==
  /\ s1.nbrs = s.nbrs
  /\ Waiting(s1.queue) = Waiting(s.queue) \union {e}
  /\ \A x \in Waiting(s.queue) : x.id # e.id
  /\ Range(s1.rtqueue) \subseteq Range(s.rtqueue)
  /\ s1.abort = s.abort

\* It joins it at either end.
LEMMA AttachKeeps ==
  ASSUME NEW me \in Node, NEW X, NEW s, Tied(s), NEW s1 \in Typed(me, X), NEW e \in Entry,
         Arrived(s, s1, e), NEW pos \in DOMAIN s1.nbrs, HasMac(s1.nbrs[pos], e.dest)
  PROVE  /\ Keeps(s, AddVirtualQueueEntry(s1, pos, e))
         /\ Keeps(s, AddVirtualQueueEntryFront(s1, pos, e))
<1> DEFINE W == Waiting(s.queue)
           vq == s1.nbrs[pos].vq
<1>1. s1.nbrs \in Seq(Neighbor) /\ vq \in Seq(Entry) /\ s1.nbrs = s.nbrs
  BY Fields, NeighborFields DEF Arrived
<1>2. Linked(s1.nbrs, W) /\ Distinct(vq) /\ Range(vq) \subseteq W
  BY <1>1 DEF Tied, Linked, Sound
<1>3. \A x \in W : x.id # e.id
  BY DEF Arrived
<1> HIDE DEF W
<1>4. e.id \notin Ids(vq)
  BY <1>2, <1>3, IdsOfRange
<1>5. ASSUME NEW q \in Seq(Entry), Distinct(q), Range(q) = Range(vq) \union {e}
      PROVE  Keeps(s, [s1 EXCEPT !.nbrs = Requeued(@, pos, q)])
  <2> DEFINE r == [s1 EXCEPT !.nbrs = Requeued(@, pos, q)]
             n == Requeued(s1.nbrs, pos, q)
  <2>1. /\ Linked(n, W \union {e})
        /\ \A M : Complete(s1.nbrs, W, M) /\ HasMac(s1.nbrs[pos], e.dest)
             => Complete(n, W \union {e}, M)
    BY <1>1, <1>2, <1>3, <1>5, AttachLinked
  <2>2. /\ r.nbrs = n /\ r.queue = s1.queue /\ r.rtqueue = s1.rtqueue
        /\ r.abort = s1.abort
    BY DEF Typed, IState
  <2> HIDE DEF n, r
  <2>3. Waiting(r.queue) = W \union {e} /\ r.abort = s.abort /\ Awaited(r) \subseteq Awaited(s)
    BY <2>2 DEF Arrived, W, Awaited
  <2>4. Tied(r)
    BY <2>1, <2>2, <2>3 DEF Tied, Arrived, Waiting
  <2>5. ASSUME Whole(s) PROVE Whole(r)
    <3>1. Complete(s1.nbrs, W, Awaited(r))
      BY <1>1, <2>3, <2>5, CompleteFor DEF Whole, W
    <3>2. Complete(n, W \union {e}, Awaited(r))
      BY <2>1, <3>1
    <3> QED BY <2>2, <2>3, <2>5, <3>2 DEF Whole
  <2> QED BY <2>3, <2>4, <2>5 DEF Keeps, r
<1>6. /\ Append(vq, e) \in Seq(Entry) /\ Distinct(Append(vq, e))
      /\ Range(Append(vq, e)) = Range(vq) \union {e}
      /\ <<e>> \o vq \in Seq(Entry) /\ Distinct(<<e>> \o vq)
      /\ Range(<<e>> \o vq) = Range(vq) \union {e}
  BY <1>1, <1>2, <1>4, OneMoreRange
<1>7. /\ AddVirtualQueueEntry(s1, pos, e) = [s1 EXCEPT !.nbrs = Requeued(@, pos, Append(vq, e))]
      /\ AddVirtualQueueEntryFront(s1, pos, e) = [s1 EXCEPT !.nbrs = Requeued(@, pos, <<e>> \o vq)]
  BY <1>4 DEF AddVirtualQueueEntry, AddVirtualQueueEntryFront, Requeued
<1> HIDE DEF vq
<1> QED BY <1>5, <1>6, <1>7

\* DoSendEnd arms the timer or aborts over it.
LEMMA DoSendEndKeeps ==
  ASSUME NEW me \in Node, NEW X, NEW s \in Typed(me, X), Tied(s)
  PROVE  Keeps(s, DoSendEnd(s))
<1>1. s.timer \in {"idle", "running", "due"}
  BY Fields DEF Timer
<1>2. DoSendEnd(s) \in {s, [s EXCEPT !.timer = "running"], Abort(s, "TimerPending")}
  BY <1>1 DEF DoSendEnd
<1>3. Same(s, DoSendEnd(s))
  BY <1>2 DEF Same, Abort, Typed, IState, Stuck, Misled, Garbled
<1> QED BY <1>3, SameKeeps

\* A frame takes reports and acknowledgments, and neither queue's packets.
LEMMA TransmitKeeps ==
  ASSUME NEW me \in Node, NEW X, NEW r, r.s \in Typed(me, X), Tied(r.s)
  PROVE  Keeps(r.s, Transmit(r))
<1>1. /\ Transmit(r).nbrs = r.s.nbrs /\ Transmit(r).queue = r.s.queue
      /\ Transmit(r).rtqueue = r.s.rtqueue /\ Transmit(r).abort = r.s.abort
  BY DEF Transmit, ForwardDown, Typed, IState
<1>2. Same(r.s, Transmit(r))
  BY <1>1 DEF Same
<1> QED BY <1>2, SameKeeps

\* A packet that was just dequeued always fits back in, in both queues.
LEMMA PutBackKeeps ==
  ASSUME NEW me \in Node, NEW X, NEW s \in Typed(me, X), Tied(s), NEW e \in Entry, ~e.hello,
         Accepts(s.queue, e), e.dest # Broadcast => SearchMac(s.nbrs, e.dest) # 0
  PROVE  Keeps(s, PutBack(s, e))
<1> DEFINE q == EnqueueFront(s.queue, e)
           s1 == [s EXCEPT !.queue = q]
           pos == SearchMac(s1.nbrs, e.dest)
<1>1. q \in Bounded(Entry) /\ s.queue \in Bounded(Entry)
  BY Fields, EnqueueFrontBounded
<1>2. q[1] = e /\ Range(q) = Range(s.queue) \union {e} /\ \A x \in Range(s.queue) : x.id # e.id
  BY <1>1, WaitingEnqueue
<1>3. PutBack(s, e) = IF e.dest = Broadcast THEN s1
                      ELSE IF pos = 0 THEN Abort(s1, "NeighborGone")
                      ELSE AddVirtualQueueEntryFront(s1, pos, s1.queue[1])
  BY DEF PutBack
<1> HIDE DEF q
<1>4. s1 \in Typed(me, X)
  BY <1>1, UpdateTyped
<1>5. /\ s1.queue = q /\ s1.nbrs = s.nbrs /\ s1.rtqueue = s.rtqueue /\ s1.abort = s.abort
  BY DEF Typed, IState
<1> HIDE DEF s1
<1>6. CASE e.dest = Broadcast
  <2>1. Same(s, s1)
    BY <1>2, <1>5, <1>6 DEF Same, Waiting
  <2> QED BY <1>3, <1>6, <2>1, SameKeeps
<1>7. CASE e.dest # Broadcast
  <2>1. Arrived(s, s1, e)
    BY <1>2, <1>5, <1>7 DEF Arrived, Waiting
  <2>2. pos # 0 /\ pos \in DOMAIN s1.nbrs /\ HasMac(s1.nbrs[pos], e.dest)
    BY <1>4, <1>5, <1>7, Fields, SearchMacProperties
  <2>3. PutBack(s, e) = AddVirtualQueueEntryFront(s1, pos, e)
    BY <1>2, <1>3, <1>5, <1>7, <2>2
  <2> HIDE DEF pos
  <2> QED BY <1>4, <2>1, <2>2, <2>3, AttachKeeps
<1> QED BY <1>6, <1>7

\* e, which is in neither queue, is sent, coded or not, or put back.
LEMMA SendDataKeeps ==
  ASSUME NEW me \in Node, NEW X, NEW s \in Typed(me, X), Running(s), Tied(s), NEW e \in Entry,
         ~e.hello, Accepts(s.queue, e), e.dest # Broadcast => SearchMac(s.nbrs, e.dest) # 0
  PROVE  Keeps(s, SendData(s, e))
<1> DEFINE r == IF s.queue # <<>> /\ e.dest # Broadcast THEN Encode(s, e) ELSE Plain(s, e)
<1>1. /\ r.s \in Typed(me, X) /\ Keeps(s, r.s)
      /\ r.natives \in SUBSET Native /\ r.payload \in SUBSET Pid /\ r.dest \in Nat
  <2>1. CASE s.queue # <<>> /\ e.dest # Broadcast
    BY <2>1, EncodeType, EncodeKeeps
  <2>2. CASE ~(s.queue # <<>> /\ e.dest # Broadcast)
    BY <2>2, EntryFields DEF Plain, Keeps
  <2> QED BY <2>1, <2>2
<1>2. SendData(s, e) =
        IF ~Running(r.s) THEN r.s
        ELSE IF ~r.encoded /\ e.iface \notin DevicesIf(s) THEN DoSendEnd(PutBack(s, e))
        ELSE DoSendEnd(Transmit(r))
  BY DEF SendData
<1> HIDE DEF r
<1>3. Keeps(s, DoSendEnd(PutBack(s, e)))
  <2>1. PutBack(s, e) \in Typed(me, X) /\ Keeps(s, PutBack(s, e))
    BY PutBackTyped, PutBackKeeps
  <2>2. Keeps(PutBack(s, e), DoSendEnd(PutBack(s, e)))
    BY <2>1, DoSendEndKeeps DEF Keeps
  <2> QED BY <2>1, <2>2, KeepsChain
<1>4. CASE ~Running(r.s)
  BY <1>1, <1>2, <1>4
<1>5. CASE Running(r.s)
  <2>1. Transmit(r) \in Typed(me, X) /\ Keeps(r.s, Transmit(r))
    BY <1>1, <1>5, TransmitTyped, TransmitKeeps DEF Keeps
  <2>2. Keeps(Transmit(r), DoSendEnd(Transmit(r)))
    BY <2>1, DoSendEndKeeps DEF Keeps
  <2>3. Keeps(s, DoSendEnd(Transmit(r)))
    BY <1>1, <2>1, <2>2, KeepsChain
  <2> QED BY <1>2, <1>3, <1>5, <2>3
<1> QED BY <1>4, <1>5

\* The head of the output queue leaves it together with the virtual queue of
\* its next hop.
LEMMA DequeueKeeps ==
  ASSUME NEW me \in Node, NEW X, NEW s \in Typed(me, X), Tied(s), s.queue # <<>>,
         ~Head(s.queue).hello, Head(s.queue).dest # Broadcast, NEW pos \in DOMAIN s.nbrs,
         pos = SearchMac(s.nbrs, Head(s.queue).dest), Head(s.queue).id \in Ids(s.nbrs[pos].vq)
  PROVE  Keeps(s, Dequeued(s, pos, Head(s.queue).id))
<1> DEFINE e == Head(s.queue)
           vq == Erase(s.nbrs[pos].vq, e.id)
           s1 == Dequeued(s, pos, e.id)
           W == Waiting(s.queue)
<1>1. /\ s.queue \in Bounded(Entry) /\ s.nbrs \in Seq(Neighbor) /\ Distinct(s.queue)
  BY Fields DEF Bounded
<1>2. Waiting(Tail(s.queue)) = W \ {e} /\ e \in Range(s.queue)
  BY <1>1, WaitingTail
<1>3. Linked(s.nbrs, W)
  BY DEF Tied
<1>4. s1.nbrs = Requeued(s.nbrs, pos, vq) /\ s1.queue = Tail(s.queue)
      /\ s1.rtqueue = s.rtqueue /\ s1.abort = s.abort
  BY DEF Typed, IState, Requeued, Dequeued
<1> HIDE DEF e, vq, s1
<1>5. s.nbrs[pos] \in Neighbor /\ s.nbrs[pos].vq \in Seq(Entry)
      /\ Distinct(s.nbrs[pos].vq) /\ Range(s.nbrs[pos].vq) \subseteq W
  BY <1>1, <1>3, NeighborFields DEF Linked, Sound
<1>6. e \in Range(s.nbrs[pos].vq)
  <2>1. e.id \in {x.id : x \in Range(s.nbrs[pos].vq)}
    BY IdsOfRange DEF e
  <2>2. PICK x \in Range(s.nbrs[pos].vq) : x.id = e.id
    BY <2>1
  <2>3. x \in Range(s.queue)
    BY <1>5 DEF Waiting
  <2>4. x = e
    BY <1>1, <1>2, <2>2, <2>3, DistinctEntries
  <2> QED BY <2>4
<1>7. vq \in Seq(Entry) /\ Distinct(vq) /\ Range(vq) = Range(s.nbrs[pos].vq) \ {e}
  BY <1>5, <1>6, EraseRange DEF vq
<1>8. /\ Linked(s1.nbrs, W \ {e})
      /\ \A M : Complete(s.nbrs, W, M) => Complete(s1.nbrs, W \ {e}, M)
  <2>1. /\ Linked(Requeued(s.nbrs, pos, vq), W \ {e})
        /\ \A M : Complete(s.nbrs, W, M) => Complete(Requeued(s.nbrs, pos, vq), W \ {e}, M)
    <3> HIDE DEF W
    <3> QED BY <1>1, <1>3, <1>5, <1>6, <1>7, DetachLinked
  <2> QED BY <1>4, <2>1
<1>9. Waiting(s1.queue) = W \ {e} /\ Awaited(s1) = Awaited(s)
  BY <1>2, <1>4 DEF Awaited, e
<1>10. Tied(s1)
  BY <1>4, <1>8, <1>9 DEF Tied
<1>11. Whole(s) => Whole(s1)
  BY <1>4, <1>8, <1>9 DEF Whole
<1>12. Keeps(s, s1)
  BY <1>4, <1>10, <1>11 DEF Keeps
<1> QED BY <1>12 DEF s1, e

\* The head of the output queue is in the virtual queue of its next hop, so
\* both lose it together.
LEMMA SendUnicastKeeps ==
  ASSUME NEW me \in Node, NEW X, NEW s \in Good(me, X), Running(s), Tied(s), s.queue # <<>>,
         ~Head(s.queue).hello, Head(s.queue).dest # Broadcast
  PROVE  Keeps(s, SendUnicast(s, Head(s.queue)))
<1> DEFINE e == Head(s.queue)
           pos == SearchMac(s.nbrs, e.dest)
           s1 == Dequeued(s, pos, e.id)
           W == Waiting(s.queue)
<1>1. /\ s \in Typed(me, X) /\ s.queue \in Bounded(Entry) /\ s.nbrs \in Seq(Neighbor)
      /\ Distinct(s.queue)
  BY Fields DEF Good, Bounded
<1>2. /\ Waiting(Tail(s.queue)) = W \ {e} /\ e \in Range(s.queue) /\ e \in Entry
      /\ Accepts(Tail(s.queue), e)
  BY <1>1, WaitingTail
<1>3. e \in W
  BY <1>2 DEF Waiting
<1>4. SendUnicast(s, e) =
        IF pos = 0 THEN Abort(s, "NeighborMissing")
        ELSE IF e.id \notin Ids(s.nbrs[pos].vq) THEN Abort(s, "VirtualQueueRemove")
        ELSE IF Knows(s, e.id, s.nbrs[pos]) THEN DoSendEnd(s1) ELSE SendData(s1, e)
  BY DEF SendUnicast, Dequeued
<1>5. Linked(s.nbrs, W)
  BY DEF Tied
<1> DEFINE lost == Abort(s, "NeighborMissing")
           astray == Abort(s, "VirtualQueueRemove")
<1>6. /\ Tied(lost) /\ Tied(astray)
      /\ lost.abort \notin Garbled /\ astray.abort \notin Garbled
  BY <1>1 DEF Tied, Abort, Typed, IState, Stuck, Garbled
<1>7. pos # 0 => pos \in DOMAIN s.nbrs /\ HasMac(s.nbrs[pos], e.dest)
  BY <1>1, SearchMacProperties
<1>8. pos # 0 => s1 \in Typed(me, X) /\ Running(s1) /\ SearchMac(s1.nbrs, e.dest) # 0
  <2> HIDE DEF s1
  <2>1. SearchMac(s.nbrs, e.dest) = pos
    OBVIOUS
  <2> HIDE DEF pos, e
  <2> QED BY <1>1, <1>7, <2>1, DequeueTyped DEF s1
<1>9. s1.queue = Tail(s.queue)
  BY <1>1 DEF Typed, IState, Dequeued
<1>10. ASSUME Whole(s)
       PROVE  pos # 0 /\ e \in Range(s.nbrs[pos].vq)
  <2>1. PICK i \in DOMAIN s.nbrs : e \in Range(s.nbrs[i].vq)
    BY <1>3, <1>10 DEF Whole, Complete
  <2>2. HasMac(s.nbrs[i], e.dest)
    BY <1>10, <2>1 DEF Whole, Complete, Owns
  <2>3. pos # 0
    BY <1>1, <2>2, SearchMacProperties
  <2>4. i = pos
    BY <1>5, <1>7, <2>2, <2>3 DEF Linked, Apart, ShareAddress, HasMac
  <2> QED BY <2>1, <2>3, <2>4
<1> HIDE DEF e, s1, lost, astray, pos
<1>11. ASSUME pos # 0, e.id \in Ids(s.nbrs[pos].vq)
       PROVE  Keeps(s, s1)
  <2>1. pos \in DOMAIN s.nbrs /\ pos = SearchMac(s.nbrs, e.dest)
    BY <1>7, <1>11 DEF pos
  <2>2. e.id \in Ids(s.nbrs[pos].vq) /\ ~e.hello /\ e.dest # Broadcast
    BY <1>11 DEF e
  <2>3. Keeps(s, Dequeued(s, pos, Head(s.queue).id))
    BY <1>1, <2>1, <2>2, DequeueKeeps DEF e
  <2> QED BY <2>3 DEF s1, e
<1>12. ASSUME pos # 0, e.id \in Ids(s.nbrs[pos].vq)
       PROVE  Keeps(s, DoSendEnd(s1)) /\ Keeps(s, SendData(s1, e))
  <2>1. Keeps(s, s1) /\ Tied(s1) /\ s1 \in Typed(me, X) /\ Running(s1)
        /\ SearchMac(s1.nbrs, e.dest) # 0 /\ Accepts(s1.queue, e)
    BY <1>2, <1>8, <1>9, <1>11, <1>12 DEF Keeps, e
  <2>2. Keeps(s1, DoSendEnd(s1)) /\ Keeps(s1, SendData(s1, e))
    BY <1>2, <2>1, DoSendEndKeeps, SendDataKeeps DEF e
  <2> QED BY <2>1, <2>2, KeepsChain
<1>13. ASSUME pos = 0 \/ e.id \notin Ids(s.nbrs[pos].vq)
       PROVE  Keeps(s, lost) /\ Keeps(s, astray)
  <2>1. ~Whole(s)
    BY <1>10, <1>13, IdsOfRange
  <2> QED BY <1>6, <2>1 DEF Keeps
<1> QED BY <1>4, <1>12, <1>13 DEF e, lost, astray

\* A sending attempt.
LEMMA TrySendKeeps ==
  ASSUME NEW me \in Node, NEW X, NEW s \in Good(me, X), Tied(s)
  PROVE  Keeps(s, TrySend(s))
<1> DEFINE e == Head(s.queue)
           s1 == [s EXCEPT !.queue = Tail(@)]
           h == SendHelloEntry(s, e)
<1>1. s \in Typed(me, X)
  BY DEF Good
<1>2. CASE ~(Running(s) /\ DevicesIf(s) # {} /\ s.queue # <<>>)
  BY <1>2 DEF TrySend, Keeps
<1>3. CASE Running(s) /\ DevicesIf(s) # {} /\ s.queue # <<>>
  <2>1. /\ Tail(s.queue) \in Bounded(Entry)
        /\ Waiting(Tail(s.queue)) = Waiting(s.queue) \ {e} /\ e \in Entry
        /\ Accepts(Tail(s.queue), e)
    <3>1. s.queue \in Bounded(Entry)
      BY <1>1, Fields
    <3>2. Tail(s.queue) \in Bounded(Entry)
      BY <1>3, <3>1, TailBounded
    <3> QED BY <1>3, <3>1, <3>2, WaitingTail
  <2>2. TrySend(s) = IF e.hello THEN DoSendEnd(h)
                     ELSE IF e.dest = Broadcast THEN SendData(s1, e)
                     ELSE SendUnicast(s, e)
    BY <1>3 DEF TrySend, DoSend
  <2>3. s1 \in Typed(me, X) /\ Running(s1)
    BY <1>1, <1>3, <2>1, UpdateTyped DEF Running, Typed, IState
  <2>4. /\ s1.nbrs = s.nbrs /\ s1.queue = Tail(s.queue) /\ s1.rtqueue = s.rtqueue
        /\ s1.abort = s.abort
    BY <1>1 DEF Typed, IState
  <2>5. h \in Typed(me, X)
    BY <1>1, <1>3, SendHelloEntryTyped
  <2>6. /\ h.nbrs = s.nbrs /\ h.queue \in {s.queue, Tail(s.queue)} /\ h.rtqueue = s.rtqueue
        /\ h.abort = s.abort
    BY <1>1 DEF SendHelloEntry, ForwardDown, Typed, IState
  <2> HIDE DEF s1, h
  <2>7. ASSUME e.hello PROVE Keeps(s, DoSendEnd(h))
    <3>1. Waiting(Tail(s.queue)) = Waiting(s.queue)
      BY <2>1, <2>7 DEF Waiting
    <3>2. Keeps(s, h)
      BY <2>6, <3>1, SameKeeps DEF Same
    <3>3. Keeps(h, DoSendEnd(h))
      BY <2>5, <3>2, DoSendEndKeeps DEF Keeps
    <3> QED BY <3>2, <3>3, KeepsChain
  <2>8. ASSUME ~e.hello, e.dest = Broadcast PROVE Keeps(s, SendData(s1, e))
    <3>1. Waiting(Tail(s.queue)) = Waiting(s.queue)
      BY <2>1, <2>8 DEF Waiting
    <3>2. Keeps(s, s1) /\ Tied(s1)
      BY <2>4, <3>1, SameKeeps DEF Same, Keeps
    <3>3. Keeps(s1, SendData(s1, e))
      BY <2>1, <2>3, <2>4, <2>8, <3>2, SendDataKeeps
    <3> QED BY <3>2, <3>3, KeepsChain
  <2>9. ASSUME ~e.hello, e.dest # Broadcast PROVE Keeps(s, SendUnicast(s, e))
    BY <1>3, <2>9, SendUnicastKeeps
  <2> HIDE DEF e
  <2> QED BY <2>2, <2>7, <2>8, <2>9
<1> QED BY <1>2, <1>3

-------------------------------------------------------------------------------
(* Enqueueing and retransmission                                           *)

\* A radio of this node is on a channel that somebody uses.
LEMMA ChannelKnown ==
  ASSUME NEW me \in Node, NEW s, s.me = me, NEW d \in Devices(me)
  PROVE  Channel(s, d) \in Channels
BY DEF Channel, Channels

\* A packet for an unknown next hop makes it a neighbour.
LEMMA AddVirtualKeeps ==
  ASSUME NEW me \in Node, NEW X, NEW s, s.nbrs \in Seq(Neighbor), Tied(s),
         NEW s1 \in Typed(me, X), NEW x \in Sendable(me), NEW e \in Entry, e.dest = x.dest,
         x.dest # Broadcast, Arrived(s, s1, e)
  PROVE  Keeps(s, AddVirtual(s1, x, e))
<1> DEFINE pos == SearchMac(s1.nbrs, x.dest)
           t == [ip |-> NoIP, mac |-> x.dest, channel |-> Channel(s1, x.iface)]
           nbr == [pairs |-> {t}, vq |-> <<e>>]
           r == [s1 EXCEPT !.nbrs = AddNeighbor(@, nbr)]
           W == Waiting(s.queue)
<1>1. s1.me = me /\ s1.nbrs = s.nbrs /\ s1.nbrs \in Seq(Neighbor)
  BY Fields DEF Arrived
<1>2. AddVirtual(s1, x, e) = IF pos = 0 THEN r ELSE AddVirtualQueueEntry(s1, pos, e)
  BY DEF AddVirtual
<1>3. /\ pos # 0 => pos \in DOMAIN s1.nbrs /\ HasMac(s1.nbrs[pos], e.dest)
      /\ pos = 0 => \A j \in DOMAIN s1.nbrs : ~HasMac(s1.nbrs[j], x.dest)
  BY <1>1, SearchMacProperties
<1>4. CASE pos # 0
  <2> HIDE DEF pos
  <2> QED BY <1>2, <1>3, <1>4, AttachKeeps
<1>5. CASE pos = 0
  <2>1. t \in Trinity /\ t.ip = NoIP /\ t.mac = x.dest /\ t.channel \in Channels
    <3>1. RadiosOf[me] \in Seq(Trinity) /\ x.iface \in 1..Len(RadiosOf[me])
      BY RadiosAssumption DEF Sendable, Devices
    <3>2. RadiosOf[me][x.iface] \in Trinity /\ x.dest \in Nat
      BY <3>1 DEF Sendable, IPSend
    <3> QED BY <1>1, <3>2, ChannelKnown DEF Channel, Trinity, NoIP, Broadcast, Sendable
  <2>2. Linked(s.nbrs, W) /\ W \subseteq W \union {e}
    BY DEF Tied
  <2>3. <<e>> \in Seq(Entry) /\ Distinct(<<e>>) /\ Range(<<e>>) = {e} /\ Ids(<<e>>) = {e.id}
    BY DEF Distinct, Range, Ids
  <2>4. ASSUME NEW j \in DOMAIN s.nbrs PROVE Ids(<<e>>) \intersect Ids(s.nbrs[j].vq) = {}
    <3>1. Range(s.nbrs[j].vq) \subseteq W
      BY <2>2 DEF Linked, Sound
    <3>2. \A y \in W : y.id # e.id
      BY DEF Arrived
    <3>3. e.id \notin Ids(s.nbrs[j].vq)
      BY <3>1, <3>2, IdsOfRange
    <3> QED BY <2>3, <3>3
  <2>5. r.queue = s1.queue /\ r.rtqueue = s1.rtqueue /\ r.abort = s.abort
        /\ r.nbrs = AddNeighbor(s.nbrs, nbr)
    BY <1>1 DEF Typed, IState, Arrived
  <2>6. Waiting(r.queue) = W \union {e} /\ Awaited(r) \subseteq Awaited(s)
    BY <2>5 DEF Arrived, Awaited
  <2> HIDE DEF t, W, r
  <2>7. /\ Linked(r.nbrs, W \union {e})
        /\ \A M : WellConfigured /\ Complete(s.nbrs, W, M) => Complete(r.nbrs, W \union {e}, M)
    <3> DEFINE vq == <<e>>
               n == Append(s.nbrs, nbr)
    <3>1. vq \in Seq(Entry) /\ Distinct(vq) /\ Range(vq) = {e}
          /\ \A j \in DOMAIN s.nbrs : Ids(vq) \intersect Ids(s.nbrs[j].vq) = {}
      BY <2>3, <2>4
    <3> HIDE DEF vq
    <3>2. \A j \in DOMAIN s.nbrs : ~HasMac(s.nbrs[j], t.mac)
      BY <1>1, <1>3, <1>5, <2>1
    <3> DEFINE V == W \union {e}
    <3>3. W \subseteq V /\ Range(vq) \subseteq V /\ V = W \union Range(vq)
      BY <3>1
    <3> HIDE DEF V
    <3> DEFINE u == [pairs |-> {t}, vq |-> vq]
               m == Append(s.nbrs, u)
    <3>4. /\ AddNeighbor(s.nbrs, u) = m /\ m # s.nbrs
          /\ m \in Seq(Neighbor) /\ Linked(m, V)
          /\ \E j \in DOMAIN m : HasIP(m[j], t.ip)
          /\ \A M : /\ WellConfigured /\ Complete(s.nbrs, W, M)
                    /\ \/ t.ip = NoIP
                       \/ \E from \in Node : t.ip = NodeIP(from) /\ t.mac \in Macs(from)
                    /\ V = W \union Range(vq)
                    /\ \A y \in Range(vq) : y.dest = t.mac
                 => Complete(m, V, M)
      <4>1. \A j \in DOMAIN s.nbrs : Ids(vq) \intersect Ids(s.nbrs[j].vq) = {}
        BY <3>1
      <4>2. t.ip = NoIP \/ \A j \in DOMAIN s.nbrs : ~HasIP(s.nbrs[j], t.ip)
        BY <2>1
      <4>3. vq \in Seq(Entry) /\ Distinct(vq) /\ Range(vq) \subseteq V /\ W \subseteq V
        BY <3>1, <3>3
      <4> QED BY <2>1, <2>2, <3>2, <4>1, <4>2, <4>3, NewLinked
    <3> QED BY <2>1, <2>5, <3>1, <3>3, <3>4 DEF vq, V
  <2>8. Tied(r)
    BY <2>5, <2>6, <2>7 DEF Tied, Arrived, Waiting
  <2>9. ASSUME WellConfigured, Whole(s) PROVE Whole(r)
    <3>1. Complete(s.nbrs, W, Awaited(r))
      BY <2>6, <2>9, CompleteFor DEF Whole, W
    <3>2. Complete(r.nbrs, W \union {e}, Awaited(r))
      BY <2>7, <2>9, <3>1
    <3> QED BY <2>5, <2>6, <2>9, <3>2 DEF Whole
  <2> QED BY <1>2, <1>5, <2>5, <2>8, <2>9 DEF Keeps
<1> QED BY <1>4, <1>5

\* What EnqueueData has done when it tries to send.
Queued(s, x) ==
  LET e == [id |-> x.id, dest |-> x.dest, iface |-> x.iface, retry |-> 0, hello |-> FALSE]
      s1 == [s EXCEPT !.queue = EnqueueBack(@, e), !.pool = @ \union {x.id}]
  IN  IF ~Accepts(s.queue, e) THEN s
      ELSE IF x.dest = Broadcast THEN s1
      ELSE AddVirtual(s1, x, e)

\* A packet from IP joins both queues or neither.
LEMMA QueuedKeeps ==
  ASSUME NEW me \in Node, NEW X, NEW s \in Good(me, X), Tied(s), NEW x \in Sendable(me)
  PROVE  /\ Keeps(s, Queued(s, x))
         /\ Queued(s, x) \in Good(me, X)
         /\ EnqueueData(s, x) = TrySend(Queued(s, x))
<1> DEFINE e == [id |-> x.id, dest |-> x.dest, iface |-> x.iface, retry |-> 0, hello |-> FALSE]
           q == EnqueueBack(s.queue, e)
           a == [s EXCEPT !.queue = q]
           s1 == [a EXCEPT !.pool = @ \union {x.id}]
           s2 == IF ~Accepts(s.queue, e) THEN s
                 ELSE IF x.dest = Broadcast THEN s1 ELSE AddVirtual(s1, x, e)
<1>1. s \in Typed(me, X) /\ s.nbrs \in Seq(Neighbor) /\ s.queue \in Bounded(Entry)
  BY Fields DEF Good
<1>2. x.id \in Pid /\ x.dest \in Nat /\ x.iface \in Nat \ {0}
  BY DEF Sendable, IPSend
<1>3. e \in Entry /\ ~e.hello /\ e.dest = x.dest
  BY <1>2 DEF Entry, MaxRetry
<1>4. EnqueueData(s, x) = TrySend(s2) /\ Queued(s, x) = s2
  BY <1>1 DEF EnqueueData, Queued, Typed, IState
<1> HIDE DEF e
<1>5. q \in Bounded(Entry)
  BY <1>1, <1>3, EnqueueBackBounded
<1>6. Accepts(s.queue, e) => /\ Range(q) = Range(s.queue) \union {e}
                             /\ \A y \in Range(s.queue) : y.id # e.id
  BY <1>1, <1>3, WaitingEnqueue
<1> HIDE DEF q
<1>7. a \in Good(me, X)
  BY <1>5, UpdateGood
<1>8. s1 \in Good(me, X)
  <2> HIDE DEF a
  <2> QED BY <1>2, <1>7, PoolGrows
<1>9. s1.nbrs = s.nbrs /\ s1.queue = q /\ s1.rtqueue = s.rtqueue /\ s1.abort = s.abort
  BY <1>1 DEF Typed, IState
<1> HIDE DEF s1, a
<1>10. ASSUME Accepts(s.queue, e), x.dest = Broadcast PROVE Keeps(s, s1)
  <2>1. Same(s, s1)
    BY <1>3, <1>6, <1>9, <1>10 DEF Same, Waiting
  <2> QED BY <2>1, SameKeeps
<1>11. ASSUME Accepts(s.queue, e), x.dest # Broadcast
       PROVE  Keeps(s, AddVirtual(s1, x, e)) /\ AddVirtual(s1, x, e) \in Good(me, X)
  <2>1. Arrived(s, s1, e)
    BY <1>3, <1>6, <1>9, <1>11 DEF Arrived, Waiting
  <2>2. s1 \in Typed(me, X)
    BY <1>8 DEF Good
  <2>3. AddVirtual(s1, x, e) \in Good(me, X)
    BY <1>3, <1>8, <1>11, AddVirtualGood
  <2> QED BY <1>1, <1>3, <1>11, <2>1, <2>2, <2>3, AddVirtualKeeps
<1>12. Keeps(s, s2) /\ s2 \in Good(me, X)
  BY <1>8, <1>10, <1>11 DEF Keeps
<1> HIDE DEF s2
<1> QED BY <1>4, <1>12

\* Nothing is lost when it is sent.
LEMMA EnqueueDataKeeps ==
  ASSUME NEW me \in Node, NEW X, NEW s \in Good(me, X), Tied(s), NEW x \in Sendable(me)
  PROVE  Keeps(s, EnqueueData(s, x))
BY QueuedKeeps, TrySendKeeps, KeepsChain DEF Keeps

\* A hello is in no virtual queue.
LEMMA EnqueueHelloKeeps ==
  ASSUME NEW me \in Node, NEW X, NEW s \in Good(me, X), Tied(s), NEW d \in Devices(me),
         NEW id \in Pid
  PROVE  Keeps(s, EnqueueHello(s, d, id))
<1> DEFINE e == [id |-> id, dest |-> Broadcast, iface |-> d, retry |-> 0, hello |-> TRUE]
           q == EnqueueFront(s.queue, e)
           a == [s EXCEPT !.queue = q]
<1>1. s \in Typed(me, X) /\ s.queue \in Bounded(Entry)
  BY Fields DEF Good
<1>2. e \in Entry /\ e.hello
  <2>1. d \in Nat \ {0}
    BY DEF Devices
  <2> QED BY <2>1 DEF Entry, MaxRetry, Broadcast
<1>3. EnqueueHello(s, d, id) = IF ~Running(s) THEN s ELSE TrySend(a)
  BY DEF EnqueueHello
<1> HIDE DEF e
<1>4. q \in Bounded(Entry) /\ (q = s.queue \/ Range(q) = Range(s.queue) \union {e})
  BY <1>1, <1>2, EnqueueFrontBounded, WaitingEnqueue
<1> HIDE DEF q
<1>5. a \in Good(me, X)
  BY <1>4, UpdateGood
<1>6. Same(s, a)
  <2>1. a.nbrs = s.nbrs /\ a.queue = q /\ a.rtqueue = s.rtqueue /\ a.abort = s.abort
    BY <1>1 DEF Typed, IState
  <2> QED BY <1>2, <1>4, <2>1 DEF Same, Waiting
<1> HIDE DEF a
<1>7. Keeps(s, a) /\ Keeps(a, TrySend(a))
  BY <1>5, <1>6, SameKeeps, TrySendKeeps DEF Keeps
<1>8. Keeps(s, s)
  BY DEF Keeps
<1> QED BY <1>3, <1>7, <1>8, KeepsChain

\* A hello out of every radio.
LEMMA SendHelloKeeps ==
  ASSUME NEW me \in Node, NEW X, NEW s \in Good(me, X), Tied(s),
         NEW ids \in [Devices(me) -> Pid]
  PROVE  Keeps(s, SendHello(s, ids))
<1> DEFINE n == Len(RadiosOf[me])
<1>1. PICK f : /\ HellosBy(f, me, s, ids)
               /\ \A i \in 0..n : f[i] \in Good(me, X)
  BY SendHelloRuns
<1>2. n \in Nat /\ Devices(me) = 1..n
  <2>1. RadiosOf[me] \in Seq(Trinity)
    BY RadiosAssumption
  <2> QED BY <2>1 DEF Devices
<1> DEFINE T == {i \in 0..n : Keeps(s, f[i])}
<1>3. 0 \in T
  BY <1>1, <1>2 DEF HellosBy, Keeps
<1>4. ASSUME NEW i \in 1..n, i - 1 \in T PROVE i \in T
  <2>1. f[i] = EnqueueHello(f[i - 1], i, ids[i]) /\ f[i - 1] \in Good(me, X)
        /\ Keeps(s, f[i - 1]) /\ i \in Devices(me) /\ ids[i] \in Pid
    BY <1>1, <1>2, <1>4 DEF HellosBy
  <2>2. Keeps(f[i - 1], f[i])
    BY <2>1, EnqueueHelloKeeps DEF Keeps
  <2> QED BY <1>2, <2>1, <2>2, KeepsChain
<1>5. Keeps(s, f[n])
  <2> HIDE DEF T
  <2>1. 0..n \subseteq T
    BY <1>2, <1>3, <1>4, RangeInduction
  <2> QED BY <1>2, <2>1 DEF T
<1> QED BY <1>1, <1>5 DEF HellosBy

\* What Retransmit has done when it tries to send.
Retried(s) ==
  LET e == Retry(Head(s.rtqueue))
      s1 == [s EXCEPT !.rtqueue = Tail(@), !.queue = EnqueueFront(@, e), !.timer = "running"]
      pos == SearchMac(s.nbrs, e.dest)
  IN  IF ~Accepts(s.queue, e) THEN s1
      ELSE IF pos = 0 THEN Abort(s1, "NeighborLost")
      ELSE AddVirtualQueueEntryFront(s1, pos, e)

\* The next hop of a packet to be retransmitted is still remembered.
LEMMA RetriedKeeps ==
  ASSUME NEW me \in Node, NEW X, NEW s \in Good(me, X), Tied(s), s.rtqueue # <<>>
  PROVE  /\ Keeps(s, Retried(s))
         /\ Retried(s) \in Good(me, X)
         /\ Retransmit(s) = TrySend(Retried(s))
<1> DEFINE h == Head(s.rtqueue)
           e == Retry(h)
           rt == Tail(s.rtqueue)
           q == EnqueueFront(s.queue, e)
           a == [s EXCEPT !.rtqueue = rt]
           b == [a EXCEPT !.queue = q]
           s1 == [b EXCEPT !.timer = "running"]
           pos == SearchMac(s.nbrs, e.dest)
           s2 == IF ~Accepts(s.queue, e) THEN s1
                 ELSE IF pos = 0 THEN Abort(s1, "NeighborLost")
                 ELSE AddVirtualQueueEntryFront(s1, pos, e)
<1>1. /\ s \in Typed(me, X) /\ s.rtqueue \in Bounded(RtEntry) /\ s.queue \in Bounded(Entry)
      /\ s.nbrs \in Seq(Neighbor)
  BY Fields DEF Good
<1>2. Retransmit(s) = TrySend(s2) /\ Retried(s) = s2
  BY <1>1 DEF Retransmit, Retried, Typed, IState
<1>3. /\ h \in RtEntry /\ h \in Range(s.rtqueue) /\ rt \in Bounded(RtEntry)
      /\ Range(rt) \subseteq Range(s.rtqueue)
  <2>1. s.rtqueue \in Seq(RtEntry) /\ Distinct(s.rtqueue)
    BY <1>1 DEF Bounded
  <2>2. Range(rt) = Range(s.rtqueue) \ {h} /\ h \in RtEntry /\ h \in Range(s.rtqueue)
    BY <2>1, TailRange
  <2> QED BY <1>1, <2>2, TailBounded
<1>4. e \in Entry /\ ~e.hello /\ e.dest # Broadcast /\ e.dest = h.dest
  <2>1. ~h.hello /\ h.dest # Broadcast
    BY <1>3 DEF Tied, Waiting
  <2> QED BY <1>3, <2>1 DEF Retry, RtEntry, Entry, MaxRetry
<1> HIDE DEF e
<1>5. /\ q \in Bounded(Entry)
      /\ Accepts(s.queue, e) => /\ Range(q) = Range(s.queue) \union {e}
                                /\ \A y \in Range(s.queue) : y.id # e.id
      /\ ~Accepts(s.queue, e) => q = s.queue
  BY <1>1, <1>4, EnqueueFrontBounded, WaitingEnqueue
<1>6. /\ s1.nbrs = s.nbrs /\ s1.timer = "running" /\ s1.queue = q /\ s1.rtqueue = rt
      /\ s1.abort = s.abort
  BY <1>1 DEF Typed, IState
<1> HIDE DEF q, rt
<1>7. a \in Typed(me, X)
  BY <1>1, <1>3, UpdateTyped
<1> HIDE DEF a
<1>8. b \in Typed(me, X)
  BY <1>5, <1>7, UpdateTyped
<1> HIDE DEF b
<1>9. s1 \in Typed(me, X)
  BY <1>8, UpdateTyped DEF Timer
<1>10. s1 \in Good(me, X)
  BY <1>6, <1>9 DEF Good, Armed
<1> HIDE DEF s1
<1>11. pos # 0 => pos \in DOMAIN s1.nbrs /\ HasMac(s1.nbrs[pos], e.dest)
  BY <1>1, <1>6, SearchMacProperties
<1>12. pos = 0 => ~Whole(s)
  <2>1. e.dest \in Awaited(s)
    BY <1>3, <1>4 DEF Awaited
  <2>2. Whole(s) => \E i \in DOMAIN s.nbrs : HasMac(s.nbrs[i], e.dest)
    BY <2>1 DEF Whole, Complete, Remembers
  <2> QED BY <1>1, <2>2, SearchMacProperties
<1> HIDE DEF pos
<1>13. ASSUME ~Accepts(s.queue, e) PROVE Keeps(s, s1)
  <2>1. Same(s, s1)
    BY <1>3, <1>5, <1>6, <1>13 DEF Same
  <2> QED BY <2>1, SameKeeps
<1>14. Accepts(s.queue, e) => Arrived(s, s1, e)
  BY <1>3, <1>4, <1>5, <1>6 DEF Arrived, Waiting
<1>15. ASSUME Accepts(s.queue, e), pos = 0 PROVE Keeps(s, Abort(s1, "NeighborLost"))
  <2> DEFINE r == Abort(s1, "NeighborLost")
  <2>1. /\ r.nbrs = s.nbrs /\ r.queue = s1.queue /\ r.rtqueue = s1.rtqueue
        /\ r.abort = "NeighborLost"
    BY <1>6, <1>9 DEF Abort, Typed, IState
  <2> HIDE DEF r
  <2>2. Linked(s.nbrs, Waiting(s.queue) \union {e})
    BY DEF Tied, Linked, Sound
  <2>3. Tied(r)
    BY <1>14, <1>15, <2>1, <2>2 DEF Tied, Arrived, Stuck, Waiting
  <2> QED BY <1>12, <1>15, <2>1, <2>3 DEF Keeps, Garbled, r
<1>16. ASSUME Accepts(s.queue, e), pos # 0
       PROVE  Keeps(s, AddVirtualQueueEntryFront(s1, pos, e))
  BY <1>4, <1>9, <1>11, <1>14, <1>16, AttachKeeps
<1>17. Keeps(s, s2)
  BY <1>13, <1>15, <1>16
<1>18. s2 \in Good(me, X)
  <2>1. pos # 0 => AddVirtualQueueEntryFront(s1, pos, e) \in Good(me, X)
    BY <1>4, <1>9, <1>10, <1>11, VirtualEntryTyped
  <2>2. Abort(s1, "NeighborLost") \in Good(me, X)
    BY <1>9, AbortGood DEF Aborts
  <2> QED BY <1>10, <2>1, <2>2
<1> HIDE DEF s2
<1> QED BY <1>2, <1>17, <1>18

\* A retransmission loses nothing, either.
LEMMA RetransmitKeeps ==
  ASSUME NEW me \in Node, NEW X, NEW s \in Good(me, X), Tied(s)
  PROVE  Keeps(s, Retransmit(s))
<1>1. CASE s.rtqueue = <<>>
  <2>1. Retransmit(s) = [s EXCEPT !.timer = "idle"]
    BY <1>1 DEF Retransmit
  <2>2. Same(s, [s EXCEPT !.timer = "idle"])
    BY DEF Same, Good, Typed, IState
  <2> QED BY <2>1, <2>2, SameKeeps
<1>2. CASE s.rtqueue # <<>>
  BY <1>2, RetriedKeeps, TrySendKeeps, KeepsChain DEF Keeps
<1> QED BY <1>1, <1>2

-------------------------------------------------------------------------------
(* Receiving                                                               *)

\* Memory of packets does not touch the queues.
LEMMA SetItemsKeeps ==
  ASSUME NEW me \in Node, NEW X, NEW s \in Typed(me, X), Tied(s), NEW pids, NEW mac
  PROVE  Keeps(s, SetItems(s, pids, mac))
<1>1. Same(s, SetItems(s, pids, mac))
  BY DEF Same, SetItems, Typed, IState
<1> QED BY <1>1, SameKeeps

\* Neither does holding a packet.
LEMMA HoldKeeps ==
  ASSUME NEW me \in Node, NEW X, NEW s \in Typed(me, X), Tied(s), NEW pid, NEW mac
  PROVE  Keeps(s, Hold(s, pid, mac))
<1>1. Same(s, Hold(s, pid, mac))
  BY DEF Same, Hold, SetItems, Typed, IState
<1> QED BY <1>1, SameKeeps

\* What is left of Keeps when the frame may be garbled.
Holds(s, r) == Tied(r) /\ (WellConfigured /\ Whole(s) => Whole(r))

LEMMA KeepsHolds ==
  ASSUME NEW s, NEW r, NEW t
  PROVE  /\ Keeps(s, r) => Holds(s, r)
         /\ Keeps(r, t) /\ Holds(s, r) => Holds(s, t)
         /\ Holds(s, r) /\ r.abort \notin Garbled => Keeps(s, r)
BY DEF Keeps, Holds

\* f is the sum of the natives it lists; if it is coded, no native is a
\* broadcast, and this node holds what is combined with a native for it.
Readable(s, f) ==
  /\ f.payload = {x.pid : x \in f.natives}
  /\ Coded(f) =>
       /\ \A x \in f.natives : x.mac # Broadcast
       /\ \A x, y \in f.natives : x # y /\ x.mac \in Macs(s.me) => y.pid \in s.pool

\* A packet is the one its content says.
LEMMA HashOfPacket ==
  ASSUME NEW pid \in Pid
  PROVE  Hash({pid}) = pid
<1>1. \E x \in Pid : {pid} = {x}
  OBVIOUS
<1>2. (CHOOSE x \in Pid : {pid} = {x}) = pid
  OBVIOUS
<1> QED BY <1>1, <1>2 DEF Hash

\* The native for this node is what decoding leaves: it is missing, so the
\* others are not, and they cancel out.
LEMMA ReadableCoded ==
  ASSUME NEW me \in Node, NEW X, NEW s \in Typed(me, X), NEW f \in Frame, Readable(s, f),
         Coded(f), AmINext(s, f), Cardinality(Missing(s, f)) = 1
  PROVE  /\ NativeForMe(s, f) \in Missing(s, f)
         /\ NativeForMe(s, f) = Hash(Decoded(s, f))
<1>1. s.me = me
  BY DEF Typed, IState
<1>2. PICK x \in f.natives : x.mac \in Macs(me) /\ NativeForMe(s, f) = x.pid
  BY <1>1, NativeForMeProperties
<1>3. \A y \in f.natives : y = x \/ y.pid \in s.pool
  BY <1>1, <1>2 DEF Readable
<1>4. Missing(s, f) \subseteq {x.pid}
  BY <1>3 DEF Missing
<1>5. Missing(s, f) # {}
  BY FS_EmptySet
<1>6. Missing(s, f) = {x.pid}
  BY <1>4, <1>5
<1>7. Decoded(s, f) = Missing(s, f)
  BY DEF Decoded, XOR, Missing, Readable
<1>8. x.pid \in Pid
  BY <1>2, FrameFields DEF Native
<1> QED BY <1>2, <1>6, <1>7, <1>8, HashOfPacket

\* The native of a plain packet is its content.
LEMMA ReadablePlain ==
  ASSUME NEW me \in Node, NEW X, NEW s \in Typed(me, X), NEW f \in Frame, Readable(s, f),
         ~Coded(f), AmINext(s, f)
  PROVE  NativeForMe(s, f) = Hash(f.payload)
<1>1. s.me = me
  BY DEF Typed, IState
<1>2. PICK x \in f.natives : x.mac \in Macs(me) /\ NativeForMe(s, f) = x.pid
  BY <1>1, NativeForMeProperties
<1>3. f.natives = {x}
  BY <1>2 DEF Coded
<1>4. f.payload = {x.pid}
  BY <1>3 DEF Readable
<1>5. x.pid \in Pid
  BY <1>2, FrameFields DEF Native
<1> QED BY <1>2, <1>4, <1>5, HashOfPacket

\* A node that stops over a frame loses nothing.
LEMMA GarbledHolds ==
  ASSUME NEW me \in Node, NEW X, NEW s \in Typed(me, X), Tied(s), NEW where \in Garbled
  PROVE  Holds(s, Abort(s, where))
<1> DEFINE a == Abort(s, where)
<1>1. a.nbrs = s.nbrs /\ a.queue = s.queue /\ a.rtqueue = s.rtqueue /\ a.abort = where
  BY DEF Abort, Typed, IState
<1> HIDE DEF a
<1>2. Tied(a)
  BY <1>1 DEF Tied, Garbled, Stuck
<1>3. Whole(s) => Whole(a)
  BY <1>1 DEF Whole, Awaited, Garbled, Misled
<1> QED BY <1>2, <1>3 DEF Holds, a

\* A coded frame may stop the node, but not over its queues, and not at all
\* if it is readable.
LEMMA RecvCodedKeeps ==
  ASSUME NEW me \in Node, NEW s \in Good(me, {}), Tied(s), NEW d, NEW f \in Frame, Coded(f),
         NEW mac \in Nat, NEW sends \in Sendable(me) \union {NoSend}
  PROVE  /\ Holds(s, RecvCoded(s, d, f, mac, sends))
         /\ Readable(s, f) => Keeps(s, RecvCoded(s, d, f, mac, sends))
<1> DEFINE pid == NativeForMe(s, f)
           h == Hash(Decoded(s, f))
           s1 == AddAck(s, NodeIP(f.from), pid)
           s2 == ForwardUp(s1, d, f, sends)
<1>1. s \in Typed(me, {})
  BY DEF Good
<1>2. RecvCoded(s, d, f, mac, sends) =
        IF Cardinality(Missing(s, f)) # 1 THEN s
        ELSE IF \E x \in f.natives : x.mac = Broadcast THEN Abort(s, "BroadcastCoded")
        ELSE IF ~AmINext(s, f) THEN Hold(s, h, mac)
        ELSE IF pid \notin Missing(s, f) THEN Abort(s, "DecodedOther")
        ELSE IF pid # h THEN Abort(s, "DecodedHash")
        ELSE Hold(s2, pid, mac)
  BY DEF RecvCoded
<1>3. ASSUME NEW where \in {"BroadcastCoded", "DecodedOther", "DecodedHash"}
      PROVE  Holds(s, Abort(s, where))
  BY <1>1, GarbledHolds DEF Garbled
<1>4. Keeps(s, s) /\ Keeps(s, Hold(s, h, mac))
  BY <1>1, HoldKeeps DEF Keeps
<1>5. ASSUME AmINext(s, f) PROVE Keeps(s, Hold(s2, pid, mac))
  <2>1. pid \in Pid
    BY <1>1, <1>5, NativeForMeType
  <2> HIDE DEF pid
  <2>2. s1 \in Good(me, {pid})
    BY <2>1, FrameFields, NodeIPType, AddAckGood
  <2>3. Keeps(s, s1)
    <3>1. Same(s, s1)
      BY <1>1 DEF Same, AddAck, Typed, IState
    <3> QED BY <3>1, SameKeeps
  <2> HIDE DEF s1
  <2>4. s2 \in Good(me, {pid}) /\ Keeps(s1, s2)
    <3>1. Tied(s1)
      BY <2>3 DEF Keeps
    <3>2. s2 \in Good(me, {pid})
      BY <2>2, ForwardUpGood
    <3>3. sends # NoSend => Keeps(s1, EnqueueData(s1, sends))
      BY <2>2, <3>1, EnqueueDataKeeps
    <3> QED BY <3>1, <3>2, <3>3 DEF ForwardUp, Keeps
  <2> HIDE DEF s2
  <2>5. Keeps(s2, Hold(s2, pid, mac))
    BY <2>4, HoldKeeps DEF Keeps, Good
  <2> QED BY <2>3, <2>4, <2>5, KeepsChain
<1>6. ASSUME Readable(s, f)
      PROVE  /\ ~(\E x \in f.natives : x.mac = Broadcast)
             /\ AmINext(s, f) /\ Cardinality(Missing(s, f)) = 1 =>
                  pid \in Missing(s, f) /\ pid = h
  <2>1. AmINext(s, f) /\ Cardinality(Missing(s, f)) = 1 =>
          pid \in Missing(s, f) /\ pid = h
    BY <1>1, <1>6, ReadableCoded
  <2> QED BY <1>6, <2>1 DEF Readable
<1> HIDE DEF pid, h, s1, s2
<1>7. Holds(s, RecvCoded(s, d, f, mac, sends))
  BY <1>2, <1>3, <1>4, <1>5, KeepsHolds
<1>8. Readable(s, f) => Keeps(s, RecvCoded(s, d, f, mac, sends))
  BY <1>2, <1>4, <1>5, <1>6
<1> QED BY <1>7, <1>8

\* So may a plain one.
LEMMA RecvPlainKeeps ==
  ASSUME NEW me \in Node, NEW s \in Good(me, {}), Tied(s), NEW d, NEW f \in Frame,
         ~Coded(f), NEW mac \in Nat, NEW sends \in Sendable(me) \union {NoSend}
  PROVE  /\ Holds(s, RecvPlain(s, d, f, mac, sends))
         /\ Readable(s, f) => Keeps(s, RecvPlain(s, d, f, mac, sends))
<1> DEFINE pid == NativeForMe(s, f)
           h == Hash(f.payload)
           s1 == ForwardUp(s, d, f, sends)
<1>1. s \in Typed(me, {})
  BY DEF Good
<1>2. RecvPlain(s, d, f, mac, sends) =
        IF \E x \in f.natives : x.mac = Broadcast THEN s1
        ELSE IF ~AmINext(s, f) THEN Hold(s, h, mac)
        ELSE IF pid # h THEN Abort(s, "PlainHash")
        ELSE Hold(s1, pid, mac)
  BY DEF RecvPlain
<1>3. Holds(s, Abort(s, "PlainHash"))
  BY <1>1, GarbledHolds DEF Garbled
<1>4. s1 \in Good(me, {}) /\ Keeps(s, s1)
  <2>1. sends # NoSend => Keeps(s, EnqueueData(s, sends))
    BY EnqueueDataKeeps
  <2>2. Keeps(s, s)
    BY DEF Keeps
  <2> QED BY <2>1, <2>2, ForwardUpGood DEF ForwardUp
<1>7. Readable(s, f) /\ AmINext(s, f) => pid = h
  BY <1>1, ReadablePlain
<1> HIDE DEF pid, h, s1
<1>5. Keeps(s, Hold(s, h, mac))
  BY <1>1, HoldKeeps
<1>6. Keeps(s, Hold(s1, pid, mac))
  <2>1. Keeps(s1, Hold(s1, pid, mac))
    BY <1>4, HoldKeeps DEF Keeps, Good
  <2> QED BY <1>4, <2>1, KeepsChain
<1>8. Holds(s, RecvPlain(s, d, f, mac, sends))
  BY <1>2, <1>3, <1>4, <1>5, <1>6, KeepsHolds
<1>9. Readable(s, f) => Keeps(s, RecvPlain(s, d, f, mac, sends))
  BY <1>2, <1>4, <1>5, <1>6, <1>7
<1> QED BY <1>8, <1>9

\* A header teaches where its sender is, and the directory stays whole if
\* the frame comes from a radio of that sender.
LEMMA RecvHeaderKeeps ==
  ASSUME NEW me \in Node, NEW s \in Good(me, {}), Running(s), Tied(s), NEW d \in Devices(me),
         NEW f \in Frame
  PROVE  LET r == RecvHeader(s, d, f)
         IN  /\ Tied(r) /\ Running(r) /\ r.me = me /\ r.pool = s.pool
             /\ f.src \in Macs(f.from) => Keeps(s, r)
<1> DEFINE W == Waiting(s.queue)
           t == [ip |-> NodeIP(f.from), mac |-> f.src, channel |-> Channel(s, d)]
           u == SMNeighbors(s, NodeIP(f.from), f.src, Channel(s, d))
           mac == GetMac(u.nbrs[SearchIP(u.nbrs, NodeIP(f.from))])
           pids == {a.pid : a \in Range(f.acks)} \union f.reports
           v == EraseAcked(u, f)
           r == SetItems(v, pids, mac)
<1>1. s \in Typed(me, {}) /\ s \in IState(me) /\ s.me = me /\ s.nbrs \in Seq(Neighbor)
  BY Fields DEF Good, Typed
<1>2. /\ t \in Trinity /\ t.ip = NodeIP(f.from) /\ t.mac = f.src
      /\ t.channel = Channel(s, d) /\ t.channel \in Channels
  <2>1. RadiosOf[me] \in Seq(Trinity) /\ d \in 1..Len(RadiosOf[me])
    BY RadiosAssumption DEF Devices
  <2>2. RadiosOf[me][d] \in Trinity
    BY <2>1
  <2> QED BY <1>1, <2>2, FrameFields, NodeIPType, ChannelKnown DEF Channel, Trinity
<1>3. RecvHeader(s, d, f) = IF Running(u) THEN r ELSE u
  BY DEF RecvHeader
<1>4. PICK n : /\ SMNeighbors(s, t.ip, t.mac, t.channel) = [s EXCEPT !.nbrs = n]
               /\ Taught(s.nbrs, n, t, W)
  <2>1. s = [x \in DOMAIN s |-> s[x]] /\ "nbrs" \in DOMAIN s
    BY <1>1 DEF IState
  <2>2. Linked(s.nbrs, W)
    BY DEF Tied
  <2> HIDE DEF t, W
  <2> QED BY <1>1, <1>2, <2>1, <2>2, SMNeighborsTaught
<1>5. u = [s EXCEPT !.nbrs = n]
  BY <1>2, <1>4
<1> HIDE DEF u, t
<1>6. /\ u.nbrs = n /\ u.queue = s.queue /\ u.rtqueue = s.rtqueue /\ u.abort = s.abort
      /\ u \in Good(me, {}) /\ u \in Typed(me, {}) /\ Running(u) /\ u.pool = s.pool
  <2>1. [s EXCEPT !.nbrs = n] \in Good(me, {})
    BY <1>4, UpdateGood DEF Taught
  <2> QED BY <1>1, <1>5, <2>1 DEF IState, Running, Good
<1>7. Tied(u)
  BY <1>4, <1>6 DEF Tied, Taught
<1>8. ASSUME f.src \in Macs(f.from) PROVE Keeps(s, u)
  <2>1. ASSUME WellConfigured, Whole(s) PROVE Whole(u)
    <3>1. Complete(s.nbrs, W, Awaited(s)) /\ s.abort \notin Misled
      BY <2>1 DEF Whole
    <3>2. f.from \in Node
      BY FrameFields
    <3>3. Complete(n, W, Awaited(s))
      BY <1>2, <1>4, <1>8, <2>1, <3>1, <3>2 DEF Taught
    <3> QED BY <1>6, <3>1, <3>3 DEF Whole, Awaited
  <2> QED BY <1>6, <1>7, <2>1 DEF Keeps
<1>9. v \in Good(me, {}) /\ v.abort = u.abort
  BY <1>6, EraseAckedGood
<1>10. Keeps(u, v) /\ v.pool = u.pool
  <2>1. PICK q \in Bounded(RtEntry) : /\ v = [u EXCEPT !.rtqueue = q]
                                      /\ Range(q) \subseteq Range(u.rtqueue)
    BY <1>6, EraseAckedResult
  <2>2. Same(u, v) /\ v.pool = u.pool
    BY <1>6, <2>1 DEF Same, Typed, IState
  <2> QED BY <1>7, <2>2, SameKeeps
<1> HIDE DEF v, pids, mac
<1>11. Keeps(v, r) /\ r.abort = v.abort /\ r.pool = v.pool /\ r.me = me
  <2>1. v \in Typed(me, {})
    BY <1>9 DEF Good
  <2>2. r.abort = v.abort /\ r.pool = v.pool /\ r.me = me
    BY <2>1 DEF SetItems, Typed, IState
  <2>3. Tied(v)
    BY <1>10 DEF Keeps
  <2> HIDE DEF r
  <2> QED BY <2>1, <2>2, <2>3, SetItemsKeeps DEF r
<1> HIDE DEF r
<1>12. Keeps(u, r) /\ Running(r)
  BY <1>6, <1>9, <1>10, <1>11, KeepsChain DEF Running
<1>13. f.src \in Macs(f.from) => Keeps(s, r)
  BY <1>8, <1>12, KeepsChain
<1>14. r.me = me /\ r.pool = s.pool
  BY <1>6, <1>10, <1>11
<1> QED BY <1>3, <1>6, <1>12, <1>13, <1>14 DEF Keeps

\* A data frame.
LEMMA RecvDataKeeps ==
  ASSUME NEW me \in Node, NEW s \in Good(me, {}), Running(s), Tied(s), NEW d \in Devices(me),
         NEW f \in Frame, NEW sends \in Sendable(me) \union {NoSend}
  PROVE  /\ Tied(RecvData(s, d, f, sends))
         /\ f.src \in Macs(f.from) =>
              /\ Holds(s, RecvData(s, d, f, sends))
              /\ Readable(s, f) => Keeps(s, RecvData(s, d, f, sends))
<1> DEFINE s1 == RecvHeader(s, d, f)
           mac == GetMac(s1.nbrs[SearchIP(s1.nbrs, NodeIP(f.from))])
           s2 == IF Coded(f) THEN RecvCoded(s1, d, f, mac, sends)
                 ELSE RecvPlain(s1, d, f, mac, sends)
<1>1. /\ s1 \in Good(me, {}) /\ Running(s1) /\ mac \in Nat /\ Tied(s1)
      /\ f.src \in Macs(f.from) => Keeps(s, s1)
      /\ Readable(s, f) => Readable(s1, f)
  <2>1. s.me = me
    BY DEF Good, Typed, IState
  <2> QED BY <2>1, RecvHeaderGood, RecvHeaderKeeps DEF Readable, AmINext
<1>2. RecvData(s, d, f, sends) = TrySend(s2)
  BY <1>1 DEF RecvData
<1> HIDE DEF s1, mac
<1>3. s2 \in Good(me, {}) /\ Holds(s1, s2) /\ (Readable(s, f) => Keeps(s1, s2))
  BY <1>1, RecvCodedGood, RecvPlainGood, RecvCodedKeeps, RecvPlainKeeps
<1> HIDE DEF s2
<1>4. Keeps(s2, TrySend(s2))
  BY <1>3, TrySendKeeps DEF Holds
<1>5. f.src \in Macs(f.from) => Holds(s, TrySend(s2))
  BY <1>1, <1>3, <1>4 DEF Keeps, Holds
<1>6. f.src \in Macs(f.from) /\ Readable(s, f) => Keeps(s, TrySend(s2))
  BY <1>1, <1>3, <1>4, KeepsChain
<1> QED BY <1>2, <1>4, <1>5, <1>6 DEF Keeps

\* Every frame.
LEMMA RecvKeeps ==
  ASSUME NEW me \in Node, NEW s \in Good(me, {}), Running(s), Tied(s), NEW d \in Devices(me),
         NEW f \in Frame, NEW sends \in Sendable(me) \union {NoSend}
  PROVE  /\ Tied(Recv(s, d, f, sends))
         /\ f.src \in Macs(f.from) =>
              /\ Holds(s, Recv(s, d, f, sends))
              /\ Readable(s, f) => Keeps(s, Recv(s, d, f, sends))
<1> DEFINE s1 == NeighborLearn(s, RadiosOf[f.from])
           W == Waiting(s.queue)
<1>1. Recv(s, d, f, sends) = IF f.src \in Macs(s.me) THEN s
                             ELSE IF f.hello THEN TrySend(s1)
                             ELSE IF ForOtherRadio(s, d, f) THEN s
                             ELSE RecvData(s, d, f, sends)
  BY DEF Recv
<1>2. s \in Typed(me, {}) /\ s.nbrs \in Seq(Neighbor) /\ Keeps(s, s)
  BY Fields DEF Good, Keeps
<1>3. f.from \in Node /\ Linked(s.nbrs, W)
  BY FrameFields DEF Tied
<1>4. PICK n \in Seq(Neighbor) :
        /\ s1 = [s EXCEPT !.nbrs = n]
        /\ Linked(n, W)
        /\ \A M : WellConfigured /\ Complete(s.nbrs, W, M) => Complete(n, W, M)
  <2> HIDE DEF W
  <2> QED BY <1>2, <1>3, NeighborLearnTaught
<1> HIDE DEF s1
<1>5. s1 \in Good(me, {})
  BY <1>4, UpdateGood
<1>6. s1.nbrs = n /\ s1.queue = s.queue /\ s1.rtqueue = s.rtqueue /\ s1.abort = s.abort
  BY <1>2, <1>4 DEF Typed, IState
<1>7. Keeps(s, s1)
  <2>1. Tied(s1)
    BY <1>4, <1>6 DEF Tied
  <2>2. WellConfigured /\ Whole(s) => Whole(s1)
    BY <1>4, <1>6 DEF Whole, Awaited
  <2> QED BY <1>6, <2>1, <2>2 DEF Keeps
<1>8. Keeps(s, TrySend(s1))
  BY <1>5, <1>7, TrySendKeeps, KeepsChain DEF Keeps
<1>9. Tied(s) /\ Tied(TrySend(s1)) /\ Holds(s, s) /\ Holds(s, TrySend(s1))
  BY <1>2, <1>8, KeepsHolds DEF Keeps
<1> QED BY <1>1, <1>2, <1>8, <1>9, RecvDataKeeps
===============================================================================
