-------------------------- MODULE IPCopeSending_proofs --------------------------
(***************************************************************************)
(* What a handler may do with packets, reports and acknowledgments: from   *)
(* one node state to a later one it hands frames to radios, and whatever   *)
(* leaves the queues and lists of the node without being in those frames   *)
(* has a reason to.  When addresses name one node, the next hops of every  *)
(* frame can use it.                                                       *)
(***************************************************************************)
EXTENDS IPCopeNode_proofs

-------------------------------------------------------------------------------
(* The frames handed to the radios between s and r                         *)

Extends(me, s, r) ==
  \A d \in Devices(me) :
    /\ s.macq[d] \in Seq(Frame) /\ r.macq[d] \in Seq(Frame)
    /\ Len(s.macq[d]) <= Len(r.macq[d])
    /\ \A i \in 1..Len(s.macq[d]) : r.macq[d][i] = s.macq[d][i]

Handed(me, s, r) ==
  {h \in [radio: Devices(me), frame: Frame] :
     \E i \in Len(s.macq[h.radio]) + 1..Len(r.macq[h.radio]) :
       h.frame = r.macq[h.radio][i]}

Handover(d, f) == [radio |-> d, frame |-> f]

\* One handler after another hands over what both do.
LEMMA HandedChain ==
  ASSUME NEW me, NEW s, NEW r, NEW t, Extends(me, s, r), Extends(me, r, t)
  PROVE  /\ Extends(me, s, t)
         /\ Handed(me, s, t) = Handed(me, s, r) \union Handed(me, r, t)
<1>1. ASSUME NEW d \in Devices(me)
      PROVE  /\ s.macq[d] \in Seq(Frame) /\ r.macq[d] \in Seq(Frame) /\ t.macq[d] \in Seq(Frame)
             /\ Len(s.macq[d]) <= Len(r.macq[d]) /\ Len(r.macq[d]) <= Len(t.macq[d])
             /\ \A i \in 1..Len(s.macq[d]) : r.macq[d][i] = s.macq[d][i]
             /\ \A i \in 1..Len(r.macq[d]) : t.macq[d][i] = r.macq[d][i]
             /\ Len(s.macq[d]) \in Nat /\ Len(r.macq[d]) \in Nat /\ Len(t.macq[d]) \in Nat
  <2> DEFINE a == s.macq[d]  b == r.macq[d]  c == t.macq[d]
  <2>1. /\ a \in Seq(Frame) /\ b \in Seq(Frame) /\ c \in Seq(Frame)
        /\ Len(a) <= Len(b) /\ Len(b) <= Len(c)
        /\ \A i \in 1..Len(a) : b[i] = a[i]
        /\ \A i \in 1..Len(b) : c[i] = b[i]
    BY DEF Extends
  <2> HIDE DEF a, b, c
  <2>2. Len(a) \in Nat /\ Len(b) \in Nat /\ Len(c) \in Nat
    BY <2>1
  <2> QED BY <2>1, <2>2 DEF a, b, c
<1>2. Extends(me, s, t)
  <2>1. ASSUME NEW d \in Devices(me), NEW i \in 1..Len(s.macq[d])
        PROVE  t.macq[d][i] = s.macq[d][i]
    <3>1. i \in 1..Len(r.macq[d])
      BY <1>1
    <3> QED BY <1>1, <3>1
  <2>2. ASSUME NEW d \in Devices(me) PROVE Len(s.macq[d]) <= Len(t.macq[d])
    BY <1>1
  <2> QED BY <1>1, <2>1, <2>2 DEF Extends
<1>3. ASSUME NEW h \in [radio: Devices(me), frame: Frame]
      PROVE  h \in Handed(me, s, t) <=> h \in Handed(me, s, r) \/ h \in Handed(me, r, t)
  <2> DEFINE d == h.radio
             a == Len(s.macq[d])  b == Len(r.macq[d])  c == Len(t.macq[d])
  <2>1. d \in Devices(me)
    OBVIOUS
  <2>2. /\ a \in Nat /\ b \in Nat /\ c \in Nat /\ a <= b /\ b <= c
        /\ \A i \in 1..b : t.macq[d][i] = r.macq[d][i]
    BY <1>1, <2>1
  <2> HIDE DEF a, b, c
  <2>3. /\ \A i \in a + 1..c : i \in a + 1..b \/ i \in b + 1..c
        /\ \A i \in a + 1..b : i \in a + 1..c /\ i \in 1..b
        /\ \A i \in b + 1..c : i \in a + 1..c
    BY <2>2
  <2>4. (\E i \in a + 1..c : h.frame = t.macq[d][i]) <=>
          \/ \E i \in a + 1..b : h.frame = r.macq[d][i]
          \/ \E i \in b + 1..c : h.frame = t.macq[d][i]
    BY <2>2, <2>3
  <2> QED BY <2>4 DEF Handed, a, b, c
<1> QED BY <1>2, <1>3 DEF Handed

\* Untouched MAC queues.
LEMMA HandedNone ==
  ASSUME NEW me \in Node, NEW X, NEW s \in Typed(me, X), NEW r, r.macq = s.macq
  PROVE  Extends(me, s, r) /\ Handed(me, s, r) = {}
<1>1. \A d \in Devices(me) : s.macq[d] \in Seq(Frame) /\ Len(s.macq[d]) \in Nat
  BY Fields
<1>2. \A k \in Nat : k + 1..k = {} /\ k <= k
  OBVIOUS
<1>3. Handed(me, s, r) = {}
  BY <1>1, <1>2 DEF Handed
<1> QED BY <1>1, <1>2, <1>3 DEF Extends

\* The frame f joins the MAC queue of the radio d.
Adds(s, r, d, f) == r.macq = [s.macq EXCEPT ![d] = Append(@, f)]

\* One frame for one radio.
LEMMA HandedOne ==
  ASSUME NEW me \in Node, NEW X, NEW s \in Typed(me, X), NEW d \in Devices(me),
         NEW f \in Frame, NEW r, Adds(s, r, d, f)
  PROVE  Extends(me, s, r) /\ Handed(me, s, r) = {Handover(d, f)}
<1>1. /\ s.macq \in [Devices(me) -> Seq(Frame)] /\ s.macq[d] \in Seq(Frame)
      /\ Len(s.macq[d]) \in Nat
  BY Fields
<1> DEFINE q == s.macq[d]  p == Append(q, f)  n == Len(q)
<1>2. p \in Seq(Frame) /\ Len(p) = n + 1 /\ p[n + 1] = f /\ \A i \in 1..n : p[i] = q[i]
  BY <1>1, AppendProperties
<1>3. \A e \in Devices(me) : r.macq[e] = IF e = d THEN p ELSE s.macq[e]
  BY <1>1 DEF Adds
<1>4. n \in Nat /\ n <= n + 1 /\ n + 1..n + 1 = {n + 1}
  BY <1>1
<1> HIDE DEF p
<1>5. ASSUME NEW e \in Devices(me), e # d
      PROVE  /\ r.macq[e] = s.macq[e] /\ s.macq[e] \in Seq(Frame)
             /\ Len(s.macq[e]) + 1..Len(s.macq[e]) = {} /\ Len(s.macq[e]) <= Len(s.macq[e])
  <2>1. r.macq[e] = s.macq[e] /\ s.macq[e] \in Seq(Frame) /\ Len(s.macq[e]) \in Nat
    BY <1>1, <1>3, <1>5
  <2> QED BY <2>1
<1>6. Extends(me, s, r)
  <2>1. ASSUME NEW e \in Devices(me)
        PROVE  /\ s.macq[e] \in Seq(Frame) /\ r.macq[e] \in Seq(Frame)
               /\ Len(s.macq[e]) <= Len(r.macq[e])
               /\ \A i \in 1..Len(s.macq[e]) : r.macq[e][i] = s.macq[e][i]
    BY <1>1, <1>2, <1>3, <1>4, <1>5
  <2> QED BY <2>1 DEF Extends
<1>7. ASSUME NEW h \in Handed(me, s, r) PROVE h = Handover(d, f)
  <2>1. /\ h \in [radio: Devices(me), frame: Frame] /\ h.radio \in Devices(me)
        /\ \E i \in Len(s.macq[h.radio]) + 1..Len(r.macq[h.radio]) :
             h.frame = r.macq[h.radio][i]
    BY DEF Handed
  <2>2. h.radio = d
    BY <1>5, <2>1
  <2>3. h.frame = f
    BY <1>2, <1>3, <1>4, <2>1, <2>2
  <2> QED BY <2>1, <2>2, <2>3 DEF Handover
<1>8. Handover(d, f) \in Handed(me, s, r)
  <2>1. Handover(d, f).radio = d /\ Handover(d, f).frame = f
    BY DEF Handover
  <2>2. Handover(d, f) \in [radio: Devices(me), frame: Frame]
    BY DEF Handover
  <2>3. n + 1 \in Len(s.macq[d]) + 1..Len(r.macq[d]) /\ r.macq[d][n + 1] = f
    BY <1>2, <1>3, <1>4
  <2> QED BY <2>1, <2>2, <2>3 DEF Handed
<1> QED BY <1>6, <1>7, <1>8

-------------------------------------------------------------------------------
(* What H, the frames handed over, account for                             *)

Told(H) == UNION {h.frame.reports : h \in H}
Thanked(H) == UNION {Range(h.frame.acks) : h \in H}
Carried(H) == {x.pid : x \in UNION {h.frame.natives : h \in H}}

\* The owner of a MAC address, and the name it goes by in the packet info.
OwnerIn(nbrs, mac) == nbrs[SearchMac(nbrs, mac)]
NameIn(nbrs, mac) == GetMac(OwnerIn(nbrs, mac))

\* Reports and acknowledgments leave in frames, what is held is reported,
\* and nothing known is forgotten.
Reported(s, r, H) ==
  /\ Range(s.recps) \subseteq Range(r.recps) \union Told(H)
  /\ Range(s.acks) \subseteq Range(r.acks) \union Thanked(H)
  /\ r.pool \ s.pool \subseteq Range(r.recps) \union Told(H)
  /\ s.info \subseteq r.info

\* A packet that was coded waits for its acknowledgment, unless there is no
\* room or its retries are used up.
Secured(Q, r, pid) ==
  \/ pid \in Ids(r.rtqueue)
  \/ Len(r.rtqueue) = QueueMax
  \/ \E e \in Q : e.id = pid /\ HitMax(e)

\* Nothing ceases to wait for its acknowledgment, and every native of a
\* coded frame starts to.
Remembered(Q, s, r, H) ==
  /\ Ids(s.rtqueue) \subseteq Ids(r.rtqueue)
  /\ Len(s.rtqueue) = QueueMax => Len(r.rtqueue) = QueueMax
  /\ \A e \in Range(r.queue) : HitMax(e) => e \in Q
  /\ \A h \in H : Coded(h.frame) => \A x \in h.frame.natives : Secured(Q, r, x.pid)

\* A packet still waits, was sent, or is known to be where it should go.
Accounted(r, H, e) ==
  \/ e.hello
  \/ e \in Range(r.queue)
  \/ e.id \in Carried(H)
  \/ /\ e.dest # Broadcast /\ Remembers(r.nbrs, e.dest)
     /\ <<e.id, NameIn(r.nbrs, e.dest)>> \in r.info

Accounts(Q, r, H) == Running(r) => \A e \in Q : Accounted(r, H, e)

\* The next hops know each other's packets and none has its own yet; a coded
\* frame goes to a radio of one of them, on a channel all of them listen on.
Fits(me, s, r, h) ==
  LET natives == h.frame.natives
      channel == RadiosOf[me][h.radio].channel
  IN  /\ \A x \in natives : x.mac # Broadcast =>
           Remembers(r.nbrs, x.mac) /\ <<x.pid, NameIn(r.nbrs, x.mac)>> \notin s.info
      /\ Coded(h.frame) =>
           /\ \A x \in natives : x.mac # Broadcast
           /\ \A x, y \in natives : x # y => <<y.pid, NameIn(r.nbrs, x.mac)>> \in r.info
           /\ \A x \in natives : channel \in GetChannels(OwnerIn(r.nbrs, x.mac))
           /\ \E x \in natives : \E t \in OwnerIn(r.nbrs, x.mac).pairs :
                t.mac = h.frame.dest /\ t.channel = channel

\* From s, with the entries Q at hand, to r the node only sends: it learns of
\* no new radio.
Sends(me, Q, s, r) ==
  /\ Extends(me, s, r)
  /\ SameRadios(s.nbrs, r.nbrs)
  /\ Running(r) => Running(s)
  /\ Keeps(s, r)
  /\ Reported(s, r, Handed(me, s, r))
  /\ Remembered(Q, s, r, Handed(me, s, r))
  /\ Accounts(Q, r, Handed(me, s, r))
  /\ WellConfigured /\ Whole(s) => \A h \in Handed(me, s, r) : Fits(me, s, r, h)

\* The same radios have the same owners.
LEMMA SameOwner ==
  ASSUME NEW old \in Seq(Neighbor), NEW new, SameRadios(old, new), NEW mac,
         Remembers(old, mac)
  PROVE  /\ Remembers(new, mac)
         /\ NameIn(new, mac) = NameIn(old, mac)
         /\ OwnerIn(new, mac).pairs = OwnerIn(old, mac).pairs
         /\ GetChannels(OwnerIn(new, mac)) = GetChannels(OwnerIn(old, mac))
<1>1. SearchMac(new, mac) = SearchMac(old, mac)
  BY SameRadiosSearch
<1>2. SearchMac(old, mac) \in DOMAIN old
  BY SearchMacProperties DEF Remembers
<1>3. OwnerIn(new, mac).pairs = OwnerIn(old, mac).pairs
  BY <1>1, <1>2 DEF OwnerIn, SameRadios
<1>4. Remembers(new, mac)
  BY DEF Remembers, SameRadios, HasMac
<1> QED BY <1>3, <1>4 DEF NameIn, GetMac, GetChannels

\* One handler after another.
LEMMA SendsChain ==
  ASSUME NEW me, NEW Q, NEW s, NEW r, NEW t, s.nbrs \in Seq(Neighbor),
         Sends(me, Q, s, r), Sends(me, Range(r.queue), r, t)
  PROVE  Sends(me, Q, s, t)
<1> DEFINE H == Handed(me, s, r)  K == Handed(me, r, t)  P == Range(r.queue)
<1>1. Extends(me, s, t) /\ Handed(me, s, t) = H \union K
  BY HandedChain DEF Sends
<1>2. /\ SameRadios(s.nbrs, r.nbrs) /\ SameRadios(r.nbrs, t.nbrs) /\ SameRadios(s.nbrs, t.nbrs)
      /\ Running(t) => Running(r)
      /\ Running(t) => Running(s)
      /\ Keeps(s, r) /\ Keeps(s, t)
  BY SameRadiosChain, KeepsChain DEF Sends
<1>3. r.nbrs \in Seq(Neighbor)
  BY <1>2 DEF SameRadios
<1>4. /\ Reported(s, r, H) /\ Reported(r, t, K)
      /\ Remembered(Q, s, r, H) /\ Remembered(P, r, t, K)
      /\ Accounts(Q, r, H) /\ Accounts(P, t, K)
      /\ WellConfigured /\ Whole(s) => \A h \in H : Fits(me, s, r, h)
      /\ WellConfigured /\ Whole(r) => \A h \in K : Fits(me, r, t, h)
  BY DEF Sends
<1> HIDE DEF H, K
<1>5. /\ Told(H \union K) = Told(H) \union Told(K)
      /\ Thanked(H \union K) = Thanked(H) \union Thanked(K)
      /\ Carried(H \union K) = Carried(H) \union Carried(K)
  BY DEF Told, Thanked, Carried
<1>6. Reported(s, t, H \union K)
  BY <1>4, <1>5 DEF Reported
<1>7. Remembered(Q, s, t, H \union K)
  <2>1. \A pid : Secured(Q, r, pid) => Secured(Q, t, pid)
    BY <1>4 DEF Remembered, Secured
  <2>2. \A pid : Secured(P, t, pid) => Secured(Q, t, pid)
    BY <1>4 DEF Remembered, Secured
  <2> QED BY <1>4, <2>1, <2>2 DEF Remembered
<1>8. ASSUME NEW e, Remembers(r.nbrs, e.dest), <<e.id, NameIn(r.nbrs, e.dest)>> \in r.info
      PROVE  Remembers(t.nbrs, e.dest) /\ <<e.id, NameIn(t.nbrs, e.dest)>> \in t.info
  BY <1>2, <1>3, <1>4, <1>8, SameOwner DEF Reported
<1>9. Accounts(Q, t, H \union K)
  BY <1>2, <1>4, <1>5, <1>8 DEF Accounts, Accounted
<1>10. ASSUME WellConfigured, Whole(s), NEW h \in H \union K PROVE Fits(me, s, t, h)
  <2>1. Whole(r)
    BY <1>2, <1>10 DEF Keeps
  <2>2. CASE h \in H
    <3>1. Fits(me, s, r, h)
      BY <1>4, <1>10, <2>2
    <3>2. \A x \in h.frame.natives : Remembers(r.nbrs, x.mac) =>
            /\ Remembers(t.nbrs, x.mac)
            /\ NameIn(t.nbrs, x.mac) = NameIn(r.nbrs, x.mac)
            /\ OwnerIn(t.nbrs, x.mac).pairs = OwnerIn(r.nbrs, x.mac).pairs
            /\ GetChannels(OwnerIn(t.nbrs, x.mac)) = GetChannels(OwnerIn(r.nbrs, x.mac))
      BY <1>2, <1>3, SameOwner
    <3>3. r.info \subseteq t.info
      BY <1>4 DEF Reported
    <3>4. Coded(h.frame) => \A x \in h.frame.natives : Remembers(r.nbrs, x.mac)
      BY <3>1 DEF Fits
    <3> QED BY <3>1, <3>2, <3>3, <3>4 DEF Fits
  <2>3. CASE h \in K
    <3>1. Fits(me, r, t, h)
      BY <1>4, <1>10, <2>1, <2>3
    <3>2. s.info \subseteq r.info
      BY <1>4 DEF Reported
    <3> QED BY <3>1, <3>2 DEF Fits
  <2> QED BY <1>10, <2>2, <2>3
<1> QED BY <1>1, <1>2, <1>6, <1>7, <1>9, <1>10 DEF Sends

\* A handler that hands over nothing.
LEMMA QuietSends ==
  ASSUME NEW me \in Node, NEW X, NEW s \in Typed(me, X), NEW Q, NEW r, r.macq = s.macq,
         SameRadios(s.nbrs, r.nbrs), Running(r) => Running(s), Keeps(s, r),
         Reported(s, r, {}), Remembered(Q, s, r, {}), Accounts(Q, r, {})
  PROVE  Sends(me, Q, s, r)
<1>1. Extends(me, s, r) /\ Handed(me, s, r) = {}
  BY HandedNone
<1> QED BY <1>1 DEF Sends

-------------------------------------------------------------------------------
(* Steps that hand over nothing                                            *)

\* The queues, the directory and the frames stay; reports and knowledge may
\* be added.
LEMMA UnmovedSends ==
  ASSUME NEW me \in Node, NEW X, NEW s \in Typed(me, X), NEW r, r.macq = s.macq,
         r.nbrs = s.nbrs, r.queue = s.queue, r.rtqueue = s.rtqueue,
         Running(r) => Running(s), Keeps(s, r),
         s.info \subseteq r.info, Range(s.recps) \subseteq Range(r.recps),
         Range(s.acks) \subseteq Range(r.acks), r.pool \ s.pool \subseteq Range(r.recps)
  PROVE  Sends(me, Range(s.queue), s, r)
<1>1. SameRadios(s.nbrs, r.nbrs)
  BY Fields DEF SameRadios
<1>2. Reported(s, r, {})
  BY DEF Reported
<1>3. Remembered(Range(s.queue), s, r, {})
  BY DEF Remembered
<1>4. Accounts(Range(s.queue), r, {})
  BY DEF Accounts, Accounted
<1> QED BY <1>1, <1>2, <1>3, <1>4, QuietSends

\* Nothing at all.
LEMMA StutterSends ==
  ASSUME NEW me \in Node, NEW X, NEW s \in Typed(me, X), Tied(s)
  PROVE  Sends(me, Range(s.queue), s, s)
<1>1. Keeps(s, s)
  BY DEF Keeps
<1> QED BY <1>1, UnmovedSends

\* DoSendEnd arms the timer or stops the node.
LEMMA DoSendEndSends ==
  ASSUME NEW me \in Node, NEW X, NEW s \in Typed(me, X), Tied(s)
  PROVE  Sends(me, Range(s.queue), s, DoSendEnd(s))
<1> DEFINE r == DoSendEnd(s)
<1>1. s.timer \in {"idle", "running", "due"}
  BY Fields DEF Timer
<1>2. r \in {s, [s EXCEPT !.timer = "running"], Abort(s, "TimerPending")}
  BY <1>1 DEF DoSendEnd
<1>3. /\ r.macq = s.macq /\ r.nbrs = s.nbrs /\ r.queue = s.queue /\ r.rtqueue = s.rtqueue
      /\ r.info = s.info /\ r.recps = s.recps /\ r.acks = s.acks /\ r.pool = s.pool
      /\ Running(r) => Running(s)
  BY <1>2 DEF Abort, Typed, IState, Running
<1>4. Keeps(s, r)
  BY DoSendEndKeeps
<1> HIDE DEF r
<1>5. Sends(me, Range(s.queue), s, r)
  BY <1>3, <1>4, UnmovedSends
<1> QED BY <1>5 DEF r

\* What a node holds it reports.
LEMMA HoldSends ==
  ASSUME NEW me \in Node, NEW X, NEW s \in Typed(me, X), Tied(s), NEW pid \in Pid, NEW mac
  PROVE  Sends(me, Range(s.queue), s, Hold(s, pid, mac))
<1> DEFINE r == Hold(s, pid, mac)
           p == Append(s.recps, pid)
<1>1. CASE ~Running(s)
  BY <1>1, StutterSends DEF Hold
<1>2. CASE Running(s)
  <2>1. Range(p) = Range(s.recps) \union {pid}
    BY Fields, AppendRange
  <2>2. /\ r.macq = s.macq /\ r.nbrs = s.nbrs /\ r.queue = s.queue /\ r.rtqueue = s.rtqueue
        /\ s.info \subseteq r.info /\ r.recps = p /\ r.acks = s.acks
        /\ r.pool = s.pool \union {pid}
    BY <1>2 DEF Hold, SetItems, Typed, IState
  <2>3. Keeps(s, r)
    BY HoldKeeps
  <2> HIDE DEF r, p
  <2>4. Sends(me, Range(s.queue), s, r)
    BY <1>2, <2>1, <2>2, <2>3, UnmovedSends
  <2> QED BY <2>4 DEF r
<1> QED BY <1>1, <1>2

\* Frames, reports, acknowledgments, pool and packet info stay.
SameMemory(s, r) ==
  /\ r.macq = s.macq /\ r.info = s.info /\ r.recps = s.recps /\ r.acks = s.acks
  /\ r.pool = s.pool

\* An entry joins a virtual queue.
LEMMA VirtualEntryMemory ==
  ASSUME NEW me \in Node, NEW X, NEW s \in Typed(me, X), NEW pos \in DOMAIN s.nbrs,
         NEW e \in Entry, NEW r \in {AddVirtualQueueEntry(s, pos, e),
                                    AddVirtualQueueEntryFront(s, pos, e)}
  PROVE  /\ SameMemory(s, r) /\ SameRadios(s.nbrs, r.nbrs)
         /\ r.queue = s.queue /\ r.rtqueue = s.rtqueue
         /\ Running(r) => Running(s)
<1> DEFINE vq == s.nbrs[pos].vq
<1>1. s.nbrs \in Seq(Neighbor) /\ vq \in Seq(Entry)
  BY Fields, NeighborFields
<1>2. Append(vq, e) \in Seq(Entry) /\ <<e>> \o vq \in Seq(Entry)
  <2>1. <<e>> \in Seq(Entry)
    OBVIOUS
  <2> QED BY <1>1, <2>1, AppendProperties, ConcatProperties
<1>3. ASSUME NEW q \in Seq(Entry), r = [s EXCEPT !.nbrs = Requeued(@, pos, q)]
      PROVE  /\ SameMemory(s, r) /\ SameRadios(s.nbrs, r.nbrs)
             /\ r.queue = s.queue /\ r.rtqueue = s.rtqueue
             /\ Running(r) => Running(s)
  <2> DEFINE n == Requeued(s.nbrs, pos, q)
  <2>1. SameRadios(s.nbrs, n)
    BY <1>1, RequeuedRadios
  <2> HIDE DEF n
  <2>2. r = [s EXCEPT !.nbrs = n]
    BY <1>3 DEF n
  <2> QED BY <2>1, <2>2 DEF Typed, IState, SameMemory, Running
<1>4. ASSUME r = Abort(s, "DuplicateVirtual")
      PROVE  /\ SameMemory(s, r) /\ SameRadios(s.nbrs, r.nbrs)
             /\ r.queue = s.queue /\ r.rtqueue = s.rtqueue
             /\ Running(r) => Running(s)
  <2>1. /\ r.nbrs = s.nbrs /\ SameMemory(s, r) /\ r.queue = s.queue
        /\ r.rtqueue = s.rtqueue /\ ~Running(r)
    BY <1>4 DEF Abort, Typed, IState, SameMemory, Running
  <2> QED BY <1>1, <2>1 DEF SameRadios
<1>5. \/ r = Abort(s, "DuplicateVirtual")
      \/ r = [s EXCEPT !.nbrs = Requeued(@, pos, Append(vq, e))]
      \/ r = [s EXCEPT !.nbrs = Requeued(@, pos, <<e>> \o vq)]
  BY DEF AddVirtualQueueEntry, AddVirtualQueueEntryFront, Requeued
<1> HIDE DEF vq
<1> QED BY <1>2, <1>3, <1>4, <1>5

\* A packet whose radio is busy is queued again.
LEMMA PutBackSends ==
  ASSUME NEW me \in Node, NEW X, NEW s \in Typed(me, X), Tied(s), NEW e \in Entry, ~e.hello,
         Accepts(s.queue, e), e.dest # Broadcast => SearchMac(s.nbrs, e.dest) # 0
  PROVE  Sends(me, Range(s.queue) \union {e}, s, PutBack(s, e))
<1> DEFINE q == EnqueueFront(s.queue, e)
           s1 == [s EXCEPT !.queue = q]
           pos == SearchMac(s1.nbrs, e.dest)
           r == PutBack(s, e)
           Q == Range(s.queue) \union {e}
<1>1. q \in Bounded(Entry) /\ s.queue \in Bounded(Entry)
  BY Fields, EnqueueFrontBounded
<1>2. q[1] = e /\ Range(q) = Range(s.queue) \union {e}
  BY <1>1, WaitingEnqueue
<1>3. r = IF e.dest = Broadcast THEN s1
          ELSE IF pos = 0 THEN Abort(s1, "NeighborGone")
          ELSE AddVirtualQueueEntryFront(s1, pos, s1.queue[1])
  BY DEF PutBack
<1>4. Keeps(s, r)
  BY PutBackKeeps
<1> HIDE DEF q, r
<1>5. s1 \in Typed(me, X)
  BY <1>1, UpdateTyped
<1>6. /\ s1.queue = q /\ s1.nbrs = s.nbrs /\ s1.rtqueue = s.rtqueue /\ s1.abort = s.abort
      /\ SameMemory(s, s1)
  BY DEF Typed, IState, SameMemory
<1> HIDE DEF s1
<1>7. /\ SameMemory(s1, r) /\ SameRadios(s1.nbrs, r.nbrs) /\ r.queue = q
      /\ r.rtqueue = s.rtqueue
      /\ Running(r) => Running(s1)
  <2>1. s1.nbrs \in Seq(Neighbor)
    BY <1>5, Fields
  <2>2. CASE e.dest = Broadcast
    BY <1>3, <1>6, <2>1, <2>2 DEF SameMemory, SameRadios
  <2>3. CASE e.dest # Broadcast
    <3>1. pos \in DOMAIN s1.nbrs /\ pos # 0
      BY <1>6, <2>1, <2>3, SearchMacProperties
    <3>2. r = AddVirtualQueueEntryFront(s1, pos, e)
      BY <1>2, <1>3, <1>6, <2>3, <3>1
    <3> HIDE DEF pos
    <3> QED BY <1>5, <1>6, <3>1, <3>2, VirtualEntryMemory
  <2> QED BY <2>2, <2>3
<1> HIDE DEF pos
<1>8. Reported(s, r, {}) /\ Accounts(Q, r, {})
  BY <1>2, <1>6, <1>7 DEF Reported, SameMemory, Accounts, Accounted
<1>9. Remembered(Q, s, r, {})
  BY <1>2, <1>7 DEF Remembered
<1>10. r.macq = s.macq /\ SameRadios(s.nbrs, r.nbrs) /\ (Running(r) => Running(s))
  BY <1>6, <1>7 DEF SameMemory, Running
<1> HIDE DEF Q
<1>11. Sends(me, Q, s, r)
  BY <1>4, <1>8, <1>9, <1>10, QuietSends
<1> QED BY <1>11 DEF Q, r

-------------------------------------------------------------------------------
(* Encoding                                                                *)

\* What is enqueued waits, unless there is no room; what waited still does.
LEMMA EnqueueWaits ==
  ASSUME NEW S, NEW q \in Bounded(S), NEW e \in S
  PROVE  /\ Ids(q) \subseteq Ids(EnqueueBack(q, e))
         /\ Len(q) = QueueMax => Len(EnqueueBack(q, e)) = QueueMax
         /\ e.id \in Ids(EnqueueBack(q, e)) \/ Len(EnqueueBack(q, e)) = QueueMax
<1>1. CASE Accepts(q, e)
  <2>1. Range(EnqueueBack(q, e)) = Range(q) \union {e}
    BY <1>1, WaitingEnqueue
  <2> QED BY <1>1, <2>1, IdsOfRange DEF Accepts
<1>2. CASE ~Accepts(q, e)
  BY <1>2 DEF EnqueueBack, Accepts
<1> QED BY <1>1, <1>2

\* Whatever waits for an acknowledgment in s still does in r.
StillWaits(s, r) ==
  /\ Ids(s.rtqueue) \subseteq Ids(r.rtqueue)
  /\ Len(s.rtqueue) = QueueMax => Len(r.rtqueue) = QueueMax

\* The head of a virtual queue is taken to wait for its acknowledgment.
LEMMA TakeWaits ==
  ASSUME NEW me \in Node, NEW X, NEW s \in Typed(me, X), Tied(s), NEW i \in DOMAIN s.nbrs,
         s.nbrs[i].vq # <<>>
  PROVE  LET v == Head(s.nbrs[i].vq)
             r == Take(s, i)
         IN  /\ SameMemory(s, r) /\ StillWaits(s, r) /\ Running(r) = Running(s)
             /\ v \in Range(s.queue) /\ Range(r.queue) = Range(s.queue) \ {v}
             /\ Secured(Range(s.queue), r, v.id)
<1> DEFINE v == Head(s.nbrs[i].vq)
           rt == IF HitMax(v) THEN s.rtqueue ELSE EnqueueBack(s.rtqueue, v)
           r == Take(s, i)
<1>1. /\ s.nbrs \in Seq(Neighbor) /\ s.nbrs[i].vq \in Seq(Entry)
      /\ s.queue \in Bounded(Entry) /\ s.rtqueue \in Bounded(RtEntry)
  BY Fields, NeighborFields
<1>2. v \in Range(s.queue)
  BY TakeKeeps
<1>3. v \in Entry
  BY <1>1, <1>2 DEF Range, Bounded
<1>4. /\ r.queue = Erase(s.queue, v.id) /\ r.rtqueue = rt /\ r.abort = s.abort
      /\ SameMemory(s, r)
  BY DEF Take, Typed, IState, SameMemory
<1> HIDE DEF r, v
<1>5. Range(r.queue) = Range(s.queue) \ {v}
  BY <1>1, <1>2, <1>4, EraseRange DEF Bounded
<1>6. CASE HitMax(v)
  BY <1>2, <1>4, <1>5, <1>6 DEF StillWaits, Secured, Running, v, r
<1>7. CASE ~HitMax(v)
  <2>1. v \in RtEntry
    BY <1>3, <1>7, EntryFields
  <2>2. /\ Ids(s.rtqueue) \subseteq Ids(rt)
        /\ Len(s.rtqueue) = QueueMax => Len(rt) = QueueMax
        /\ v.id \in Ids(rt) \/ Len(rt) = QueueMax
    BY <1>1, <1>7, <2>1, EnqueueWaits
  <2> QED BY <1>2, <1>4, <1>5, <2>2 DEF StillWaits, Secured, Running, v, r
<1> QED BY <1>6, <1>7

\* Why Encode may stop.
Mishaps == {"IndexChannel", "IdNexthop", "EraseFromQueue"}

\* A turn of the loop that combines nothing.
Skips(r, q) ==
  /\ q.natives = r.natives /\ q.nexthops = r.nexthops /\ q.encoded = r.encoded
  /\ q.iface = r.iface /\ q.dest = r.dest /\ q.channels \subseteq r.channels
  /\ q.first = r.first /\ q.payload = r.payload
  /\ \/ q.s = r.s
     \/ \E where \in Mishaps : q.s = Abort(r.s, where)

\* A turn that takes the packet v of neighbour i in, for a next hop that has
\* none yet, on a channel that the neighbour and all the others have.
Joins(me, r, q, i) ==
  LET nbr == r.s.nbrs[i]
      v == Head(nbr.vq)
  IN  /\ Combines(r, i) /\ Running(r.s) /\ q.s = Take(r.s, i)
      /\ q.natives = r.natives \union {[mac |-> v.dest, pid |-> v.id]}
      /\ \A x \in r.natives : x.mac # v.dest
      /\ q.first = r.first /\ q.payload = XOR({r.first}, {v.id})
      /\ q.nexthops = r.nexthops \union {GetMac(nbr)}
      /\ q.channels \subseteq r.channels \intersect GetChannels(nbr)
      /\ q.encoded /\ q.iface \in Devices(me)
      /\ RadiosOf[me][q.iface].channel \in q.channels
      /\ \E t \in nbr.pairs : t.mac = q.dest /\ t.channel = RadiosOf[me][q.iface].channel

\* There are no other turns.
LEMMA EncodeTurn ==
  ASSUME NEW me \in Node, NEW X, NEW n, NEW r \in Codes(me, X, n), NEW i \in 1..n
  PROVE  Skips(r, EncodeWith(r, i)) \/ Joins(me, r, EncodeWith(r, i), i)
<1> DEFINE nbr == r.s.nbrs[i]
           offered == GetChannels(nbr)
           common == r.channels \intersect offered
           channels == IF common = {} THEN r.channels ELSE common
           usable == {c \in channels : DeviceOn(r.s, c) \in DevicesIf(r.s)}
           r1 == [r EXCEPT !.channels = channels]
           v == Head(nbr.vq)
           c == Max(usable)
<1>1. r.s \in Typed(me, X) /\ r.channels \in SUBSET Nat
  BY DEF Codes
<1>2. CASE ~Running(r.s) \/ ~Combines(r, i)
  BY <1>2 DEF EncodeWith, Skips
<1>3. CASE Running(r.s) /\ Combines(r, i)
  <2>1. EncodeWith(r, i) = IF usable = {} THEN r1
                           ELSE IF ~(usable \subseteq offered)
                           THEN [r1 EXCEPT !.s = Abort(@, "IndexChannel")]
                           ELSE Combine(r1, i, c)
    BY <1>3 DEF EncodeWith
  <2>2. /\ r1.s = r.s /\ r1.natives = r.natives /\ r1.nexthops = r.nexthops
        /\ r1.encoded = r.encoded /\ r1.iface = r.iface /\ r1.dest = r.dest
        /\ r1.first = r.first /\ r1.payload = r.payload
        /\ r1.channels = channels /\ r1 = [x \in DOMAIN r1 |-> r1[x]]
        /\ DOMAIN r1 = {"s", "first", "nexthops", "natives", "payload", "channels",
                        "iface", "dest", "encoded"}
    BY DEF Codes
  <2>3. channels \subseteq r.channels /\ usable \subseteq channels
    OBVIOUS
  <2> HIDE DEF r1
  <2>4. ASSUME NEW where \in Mishaps, NEW q, q = [r1 EXCEPT !.s = Abort(@, where)]
        PROVE  Skips(r, q)
    <3>1. /\ q.natives = r1.natives /\ q.nexthops = r1.nexthops /\ q.encoded = r1.encoded
          /\ q.iface = r1.iface /\ q.dest = r1.dest /\ q.channels = r1.channels
          /\ q.first = r1.first /\ q.payload = r1.payload
          /\ q.s = Abort(r.s, where)
      BY <2>2, <2>4
    <3> QED BY <2>2, <2>3, <3>1 DEF Skips
  <2>5. CASE usable = {}
    BY <2>1, <2>2, <2>3, <2>5 DEF Skips
  <2>6. CASE usable # {} /\ ~(usable \subseteq offered)
    <3>1. "IndexChannel" \in Mishaps
      BY DEF Mishaps
    <3> QED BY <2>1, <2>4, <2>6, <3>1
  <2>7. CASE usable # {} /\ usable \subseteq offered
    <3>1. c \in usable
      BY <1>1, <2>7, LargestChannel
    <3>2. c \in channels /\ c \in offered /\ DeviceOn(r.s, c) \in DevicesIf(r.s)
      BY <2>7, <3>1
    <3>3. channels \subseteq r.channels \intersect offered
      BY <3>2
    <3>4. /\ DeviceOn(r.s, c) \in Devices(me)
          /\ RadiosOf[me][DeviceOn(r.s, c)].channel = c
      <4>1. r.s.me = me
        BY <1>1, Fields
      <4>2. DeviceOn(r.s, c) \in 1..Len(RadiosOf[me])
        BY <3>2, <4>1 DEF DevicesIf, Devices
      <4>3. DeviceOn(r.s, c) # 0
        BY <4>2
      <4> QED BY <1>1, <4>3, DeviceOnProperties
    <3>5. \E t \in nbr.pairs : t.mac = Index(nbr, c) /\ t.channel = c
      BY <3>2 DEF Index, GetChannels
    <3> HIDE DEF usable, channels, offered, c, common
    <3>6. EncodeWith(r, i) = Combine(r1, i, c)
      BY <2>1, <2>7
    <3>7. CASE \E x \in r1.natives : x.mac = v.dest
      <4>1. Combine(r1, i, c) = [r1 EXCEPT !.s = Abort(@, "IdNexthop")]
        BY <2>2, <3>7 DEF Combine
      <4>2. "IdNexthop" \in Mishaps
        BY DEF Mishaps
      <4> QED BY <2>4, <3>6, <4>1, <4>2
    <3>8. CASE ~(\E x \in r1.natives : x.mac = v.dest) /\ v.id \notin Ids(r1.s.queue)
      <4>1. Combine(r1, i, c) = [r1 EXCEPT !.s = Abort(@, "EraseFromQueue")]
        BY <2>2, <3>8 DEF Combine
      <4>2. "EraseFromQueue" \in Mishaps
        BY DEF Mishaps
      <4> QED BY <2>4, <3>6, <4>1, <4>2
    <3>9. CASE ~(\E x \in r1.natives : x.mac = v.dest) /\ v.id \in Ids(r1.s.queue)
      <4> DEFINE q == Combine(r1, i, c)
      <4>1. q = [r1 EXCEPT !.s = Take(@, i),
                   !.nexthops = @ \union {GetMac(nbr)},
                   !.natives = @ \union {[mac |-> v.dest, pid |-> v.id]},
                   !.payload = XOR({r1.first}, {v.id}),
                   !.iface = DeviceOn(r1.s, c),
                   !.dest = Index(nbr, c),
                   !.encoded = TRUE]
        BY <2>2, <3>9 DEF Combine
      <4> HIDE DEF v, nbr
      <4>2. /\ q.s = Take(r.s, i) /\ q.nexthops = r.nexthops \union {GetMac(nbr)}
            /\ q.natives = r.natives \union {[mac |-> v.dest, pid |-> v.id]}
            /\ q.channels = channels /\ q.encoded
            /\ q.iface = DeviceOn(r.s, c) /\ q.dest = Index(nbr, c)
            /\ q.first = r.first /\ q.payload = XOR({r.first}, {v.id})
        BY <2>2, <4>1
      <4> HIDE DEF q
      <4>3. \E t \in nbr.pairs : t.mac = q.dest /\ t.channel = RadiosOf[me][q.iface].channel
        BY <3>4, <3>5, <4>2
      <4>4. q.channels \subseteq r.channels \intersect GetChannels(nbr)
        BY <3>3, <4>2 DEF offered
      <4>5. q.iface \in Devices(me) /\ RadiosOf[me][q.iface].channel \in q.channels
        BY <3>2, <3>4, <4>2
      <4>6. Joins(me, r, q, i)
        BY <1>3, <2>2, <3>9, <4>2, <4>3, <4>4, <4>5 DEF Joins, nbr, v
      <4> QED BY <3>6, <4>6 DEF q
    <3> QED BY <3>7, <3>8, <3>9
  <2> QED BY <2>5, <2>6, <2>7
<1> QED BY <1>2, <1>3

\* What waited with Q at hand waits with more.
LEMMA SecuredStill ==
  ASSUME NEW Q, NEW P, Q \subseteq P, NEW r, NEW t, StillWaits(r, t), NEW pid,
         Secured(Q, r, pid)
  PROVE  Secured(P, t, pid)
BY DEF StillWaits, Secured

\* An address belongs to one record.
LEMMA RecordOfMac ==
  ASSUME NEW W, NEW nbrs \in Seq(Neighbor), Linked(nbrs, W), NEW i \in DOMAIN nbrs, NEW mac,
         HasMac(nbrs[i], mac)
  PROVE  /\ Remembers(nbrs, mac) /\ SearchMac(nbrs, mac) = i
         /\ OwnerIn(nbrs, mac) = nbrs[i] /\ NameIn(nbrs, mac) = GetMac(nbrs[i])
<1>1. SearchMac(nbrs, mac) \in DOMAIN nbrs /\ HasMac(nbrs[SearchMac(nbrs, mac)], mac)
  BY SearchMacProperties
<1>2. SearchMac(nbrs, mac) = i
  BY <1>1 DEF Linked, Apart, ShareAddress, HasMac
<1>3. Remembers(nbrs, mac)
  BY DEF Remembers
<1>4. OwnerIn(nbrs, mac) = nbrs[i]
  BY <1>2 DEF OwnerIn
<1>5. NameIn(nbrs, mac) = GetMac(nbrs[i])
  BY <1>4 DEF NameIn
<1> QED BY <1>2, <1>3, <1>4, <1>5

\* The packet that is coded, as a native.
Own(e) == [mac |-> e.dest, pid |-> e.id]

\* The code r that was collected from s, for e: what left the output queue
\* is in it, and waits for its acknowledgment.
Gathered(me, s, e, r) ==
  /\ SameMemory(s, r.s) /\ StillWaits(s, r.s)
  /\ Running(r.s) => Running(s)
  /\ Range(r.s.queue) \subseteq Range(s.queue)
  /\ \A x \in Range(s.queue) : x \in Range(r.s.queue) \/ x.id \in {y.pid : y \in r.natives}
  /\ Own(e) \in r.natives
  /\ \A x \in r.natives : x = Own(e) \/ Secured(Range(s.queue), r.s, x.pid)
  /\ ~r.encoded => r.natives = {Own(e)} /\ r.iface = e.iface
  /\ r.encoded => r.iface \in Devices(me)

\* Its natives match: every next hop misses its own and has the others, and
\* can be reached on the channels that are left.
Matched(me, s, r) ==
  /\ \A x \in r.natives :
       /\ x.mac # Broadcast /\ Remembers(s.nbrs, x.mac)
       /\ NameIn(s.nbrs, x.mac) \in r.nexthops
       /\ <<x.pid, NameIn(s.nbrs, x.mac)>> \notin s.info
       /\ r.channels \subseteq GetChannels(OwnerIn(s.nbrs, x.mac))
  /\ \A x, y \in r.natives : x # y => <<y.pid, NameIn(s.nbrs, x.mac)>> \in s.info
  /\ r.encoded =>
       /\ \A x \in r.natives :
            RadiosOf[me][r.iface].channel \in GetChannels(OwnerIn(s.nbrs, x.mac))
       /\ \E x \in r.natives : \E t \in OwnerIn(s.nbrs, x.mac).pairs :
            t.mac = r.dest /\ t.channel = RadiosOf[me][r.iface].channel

\* A turn gathers.
LEMMA TurnGathers ==
  ASSUME NEW me \in Node, NEW X, NEW n, NEW s, NEW e, NEW r \in Codes(me, X, n),
         Tied(r.s), Gathered(me, s, e, r), NEW i \in 1..n, NEW q,
         Skips(r, q) \/ Joins(me, r, q, i)
  PROVE  Gathered(me, s, e, q)
<1>1. r.s \in Typed(me, X) /\ i \in DOMAIN r.s.nbrs
  BY Fields DEF Codes
<1>2. CASE Skips(r, q)
  <2>1. ASSUME NEW where \in Mishaps, q.s = Abort(r.s, where)
        PROVE  /\ SameMemory(r.s, q.s) /\ StillWaits(r.s, q.s) /\ q.s.queue = r.s.queue
               /\ q.s.rtqueue = r.s.rtqueue /\ ~Running(q.s)
    BY <1>1, <2>1 DEF Abort, Typed, IState, SameMemory, StillWaits, Running, Mishaps
  <2>2. /\ SameMemory(r.s, q.s) /\ StillWaits(r.s, q.s) /\ q.s.queue = r.s.queue
        /\ Running(q.s) => Running(r.s)
    BY <1>2, <2>1 DEF Skips, SameMemory, StillWaits
  <2>3. SameMemory(s, q.s) /\ StillWaits(s, q.s) /\ (Running(q.s) => Running(s))
    BY <2>2 DEF Gathered, SameMemory, StillWaits
  <2>4. /\ Range(q.s.queue) \subseteq Range(s.queue) /\ q.natives = r.natives
        /\ q.encoded = r.encoded /\ q.iface = r.iface
        /\ \A x \in Range(s.queue) :
             x \in Range(q.s.queue) \/ x.id \in {y.pid : y \in q.natives}
    BY <1>2, <2>2 DEF Gathered, Skips
  <2>5. \A x \in q.natives : x = Own(e) \/ Secured(Range(s.queue), q.s, x.pid)
    BY <2>2, <2>4, SecuredStill DEF Gathered
  <2> QED BY <2>3, <2>4, <2>5 DEF Gathered
<1>3. CASE Joins(me, r, q, i)
  <2> DEFINE v == Head(r.s.nbrs[i].vq)
             x0 == [mac |-> v.dest, pid |-> v.id]
  <2>1. /\ r.s.nbrs[i].vq # <<>> /\ q.s = Take(r.s, i) /\ q.encoded /\ q.iface \in Devices(me)
        /\ q.natives = r.natives \union {x0} /\ x0.pid = v.id
    BY <1>3 DEF Joins, Combines
  <2>2. /\ SameMemory(r.s, q.s) /\ StillWaits(r.s, q.s) /\ Running(q.s) = Running(r.s)
        /\ v \in Range(r.s.queue) /\ Range(q.s.queue) = Range(r.s.queue) \ {v}
        /\ Secured(Range(r.s.queue), q.s, v.id)
    <3> DEFINE u == r.s
    <3>1. u \in Typed(me, X) /\ Tied(u) /\ i \in DOMAIN u.nbrs /\ u.nbrs[i].vq # <<>>
          /\ q.s = Take(u, i) /\ v = Head(u.nbrs[i].vq)
      BY <1>1, <2>1
    <3> HIDE DEF u, v
    <3>2. /\ SameMemory(u, q.s) /\ StillWaits(u, q.s) /\ Running(q.s) = Running(u)
          /\ v \in Range(u.queue) /\ Range(q.s.queue) = Range(u.queue) \ {v}
          /\ Secured(Range(u.queue), q.s, v.id)
      BY <3>1, TakeWaits
    <3> QED BY <3>2 DEF u
  <2> HIDE DEF v, x0
  <2>3. SameMemory(s, q.s) /\ StillWaits(s, q.s) /\ (Running(q.s) => Running(s))
    BY <2>2 DEF Gathered, SameMemory, StillWaits
  <2>4. Range(q.s.queue) \subseteq Range(s.queue)
    BY <2>2 DEF Gathered
  <2>5. ASSUME NEW x \in Range(s.queue)
        PROVE  x \in Range(q.s.queue) \/ x.id \in {y.pid : y \in q.natives}
    BY <2>1, <2>2 DEF Gathered
  <2>6. ASSUME NEW x \in q.natives, x # Own(e) PROVE Secured(Range(s.queue), q.s, x.pid)
    <3>1. CASE x \in r.natives
      BY <2>2, <2>6, <3>1, SecuredStill DEF Gathered
    <3>2. CASE x = x0
      <4>1. StillWaits(q.s, q.s) /\ Range(r.s.queue) \subseteq Range(s.queue)
        BY DEF StillWaits, Gathered
      <4> QED BY <2>1, <2>2, <3>2, <4>1, SecuredStill
    <3> QED BY <2>1, <2>6, <3>1, <3>2
  <2> QED BY <2>1, <2>3, <2>4, <2>5, <2>6 DEF Gathered
<1> QED BY <1>2, <1>3

\* A turn matches.
LEMMA TurnMatches ==
  ASSUME NEW me \in Node, NEW X, NEW n, NEW s, s.nbrs \in Seq(Neighbor), NEW r \in Codes(me, X, n),
         Tied(r.s), Whole(r.s), SameRadios(s.nbrs, r.s.nbrs), r.s.info = s.info,
         Matched(me, s, r), NEW i \in 1..n, NEW q, Skips(r, q) \/ Joins(me, r, q, i)
  PROVE  Matched(me, s, q)
<1>1. CASE Skips(r, q)
  <2>1. /\ q.natives = r.natives /\ q.nexthops = r.nexthops /\ q.encoded = r.encoded
        /\ q.iface = r.iface /\ q.dest = r.dest /\ q.channels \subseteq r.channels
    BY <1>1 DEF Skips
  <2> QED BY <2>1 DEF Matched
<1>2. CASE Joins(me, r, q, i)
  <2> DEFINE nbr == r.s.nbrs[i]
             v == Head(nbr.vq)
             x0 == [mac |-> v.dest, pid |-> v.id]
             channel == RadiosOf[me][q.iface].channel
  <2>1. /\ r.s \in Typed(me, X) /\ i \in DOMAIN r.s.nbrs /\ r.s.nbrs \in Seq(Neighbor)
        /\ nbr.vq \in Seq(Entry)
    BY Fields, NeighborFields DEF Codes
  <2>2. /\ Linked(r.s.nbrs, Waiting(r.s.queue)) /\ Distinct(nbr.vq)
        /\ Range(nbr.vq) \subseteq Waiting(r.s.queue)
    BY <2>1 DEF Tied, Linked, Sound
  <2>3. /\ nbr.vq # <<>> /\ GetMac(nbr) \notin r.nexthops /\ <<v.id, GetMac(nbr)>> \notin s.info
        /\ \A mac \in r.nexthops : <<v.id, mac>> \in s.info
        /\ \A x \in r.natives : <<x.pid, GetMac(nbr)>> \in s.info
    BY <1>2 DEF Joins, Combines, Knows
  <2>4. /\ q.natives = r.natives \union {x0} /\ q.nexthops = r.nexthops \union {GetMac(nbr)}
        /\ q.channels \subseteq r.channels /\ q.channels \subseteq GetChannels(nbr)
        /\ q.encoded /\ channel \in q.channels
        /\ \E t \in nbr.pairs : t.mac = q.dest /\ t.channel = channel
    BY <1>2 DEF Joins
  <2>5. v \in Range(nbr.vq)
    BY <2>1, <2>2, <2>3, TailRange
  <2>6. HasMac(nbr, v.dest) /\ v.dest # Broadcast
    BY <2>1, <2>2, <2>5 DEF Whole, Complete, Owns, Waiting
  <2>7. x0.mac = v.dest /\ x0.pid = v.id
    OBVIOUS
  <2> HIDE DEF v, x0
  <2>8. /\ Remembers(r.s.nbrs, v.dest) /\ OwnerIn(r.s.nbrs, v.dest) = nbr
        /\ NameIn(r.s.nbrs, v.dest) = GetMac(nbr)
    <3> DEFINE nbrs == r.s.nbrs
               mac == v.dest
    <3>1. /\ nbrs \in Seq(Neighbor) /\ Linked(nbrs, Waiting(r.s.queue))
          /\ i \in DOMAIN nbrs /\ HasMac(nbrs[i], mac) /\ nbr = nbrs[i]
      BY <2>1, <2>2, <2>6
    <3> HIDE DEF nbrs, mac, nbr
    <3>2. /\ Remembers(nbrs, mac) /\ OwnerIn(nbrs, mac) = nbr
          /\ NameIn(nbrs, mac) = GetMac(nbr)
      BY <3>1, RecordOfMac
    <3> QED BY <3>2 DEF nbrs, mac
  <2>9. SameRadios(r.s.nbrs, s.nbrs)
    BY DEF SameRadios
  <2>10. /\ Remembers(s.nbrs, v.dest) /\ NameIn(s.nbrs, v.dest) = GetMac(nbr)
         /\ OwnerIn(s.nbrs, v.dest).pairs = nbr.pairs
         /\ GetChannels(OwnerIn(s.nbrs, v.dest)) = GetChannels(nbr)
    BY <2>1, <2>8, <2>9, SameOwner
  <2> HIDE DEF nbr, channel
  <2>11. \A x \in r.natives :
           /\ x.mac # Broadcast /\ Remembers(s.nbrs, x.mac)
           /\ NameIn(s.nbrs, x.mac) \in r.nexthops
           /\ <<x.pid, NameIn(s.nbrs, x.mac)>> \notin s.info
           /\ r.channels \subseteq GetChannels(OwnerIn(s.nbrs, x.mac))
    BY DEF Matched
  <2>12. ASSUME NEW x \in q.natives
         PROVE  /\ x.mac # Broadcast /\ Remembers(s.nbrs, x.mac)
                /\ NameIn(s.nbrs, x.mac) \in q.nexthops
                /\ <<x.pid, NameIn(s.nbrs, x.mac)>> \notin s.info
                /\ q.channels \subseteq GetChannels(OwnerIn(s.nbrs, x.mac))
    <3>1. CASE x \in r.natives
      BY <2>4, <2>11, <3>1
    <3>2. CASE x = x0
      BY <2>3, <2>4, <2>6, <2>7, <2>10, <3>2
    <3> QED BY <2>4, <3>1, <3>2
  <2>13. ASSUME NEW x \in q.natives, NEW y \in q.natives, x # y
         PROVE  <<y.pid, NameIn(s.nbrs, x.mac)>> \in s.info
    <3>1. CASE x \in r.natives /\ y \in r.natives
      BY <2>13, <3>1 DEF Matched
    <3>2. CASE x = x0 /\ y \in r.natives
      BY <2>3, <2>7, <2>10, <3>2
    <3>3. CASE x \in r.natives /\ y = x0
      BY <2>3, <2>7, <2>11, <3>3
    <3> QED BY <2>4, <2>13, <3>1, <3>2, <3>3
  <2>14. \A x \in q.natives : channel \in GetChannels(OwnerIn(s.nbrs, x.mac))
    BY <2>4, <2>12
  <2>15. \E x \in q.natives : \E t \in OwnerIn(s.nbrs, x.mac).pairs :
           t.mac = q.dest /\ t.channel = channel
    BY <2>4, <2>7, <2>10
  <2> QED BY <2>12, <2>13, <2>14, <2>15 DEF Matched, channel
<1> QED BY <1>1, <1>2

\* What was collected may be sent: with the entries Q at hand in s, where e
\* was first among them, r is a plain or a coded packet.
Composes(me, Q, s, e, r) ==
  /\ Keeps(s, r.s) /\ SameRadios(s.nbrs, r.s.nbrs)
  /\ SameMemory(s, r.s) /\ StillWaits(s, r.s)
  /\ Running(r.s) => Running(s)
  /\ Range(r.s.queue) \subseteq Q
  /\ \A x \in Q : x \in Range(r.s.queue) \/ x.id \in {y.pid : y \in r.natives}
  /\ Running(r.s) /\ Coded(r) => \A x \in r.natives : Secured(Q, r.s, x.pid)
  /\ r.encoded => r.iface \in Devices(me)
  /\ ~r.encoded => r.iface = e.iface
  /\ WellConfigured /\ Whole(s) => Fits(me, s, r.s, Handover(r.iface, r))

\* Encode composes a packet.
LEMMA EncodeComposes ==
  ASSUME NEW me \in Node, NEW X, NEW s \in Typed(me, X), Tied(s), NEW e \in Entry,
         ~e.hello, e.dest # Broadcast, SearchMac(s.nbrs, e.dest) # 0,
         <<e.id, NameIn(s.nbrs, e.dest)>> \notin s.info
  PROVE  Composes(me, Range(s.queue) \union {e}, s, e, Encode(s, e))
<1> DEFINE n == Len(s.nbrs)
           pos == SearchMac(s.nbrs, e.dest)
           P == Range(s.queue)
           Q == P \union {e}
           Collects0(r) == /\ Coding(s, r) /\ Gathered(me, s, e, r)
                           /\ WellConfigured /\ Whole(s) => Matched(me, s, r)
<1>1. PICK f : /\ EncodesBy(f, s, e)
               /\ \A i \in 0..n : f[i] \in Codes(me, X, n)
  BY EncodeRuns
<1>2. /\ n \in Nat /\ s.nbrs \in Seq(Neighbor)
      /\ pos \in DOMAIN s.nbrs /\ HasMac(s.nbrs[pos], e.dest)
  BY Fields, SearchMacProperties
<1>3. f[0] = EncodeStart(s, e)
  BY <1>1 DEF EncodesBy
<1>4. Collects0(f[0])
  <2>1. /\ f[0].s = s /\ f[0].natives = {Own(e)} /\ ~f[0].encoded /\ f[0].iface = e.iface
        /\ f[0].nexthops = {GetMac(s.nbrs[pos])} /\ f[0].channels = GetChannels(s.nbrs[pos])
    BY <1>3 DEF EncodeStart, Own
  <2>2. Coding(s, f[0])
    BY <1>3, EncodeStartCoding
  <2>3. Gathered(me, s, e, f[0])
    BY <2>1 DEF Gathered, SameMemory, StillWaits
  <2>4. /\ Remembers(s.nbrs, e.dest) /\ OwnerIn(s.nbrs, e.dest) = s.nbrs[pos]
        /\ NameIn(s.nbrs, e.dest) = GetMac(s.nbrs[pos])
    BY <1>2 DEF Remembers, OwnerIn, NameIn
  <2>5. Own(e).mac = e.dest /\ Own(e).pid = e.id
    BY DEF Own
  <2> HIDE DEF pos
  <2>6. Matched(me, s, f[0])
    BY <2>1, <2>4, <2>5 DEF Matched
  <2> QED BY <2>2, <2>3, <2>6
<1> DEFINE T == {i \in 0..n : Collects0(f[i])}
<1>5. 0 \in T
  BY <1>2, <1>4
<1>6. ASSUME NEW i \in 1..n, i - 1 \in T PROVE i \in T
  <2> DEFINE r == f[i - 1]
             q == f[i]
  <2>1. q = EncodeWith(r, i) /\ r \in Codes(me, X, n) /\ Collects0(r)
    BY <1>1, <1>6 DEF EncodesBy
  <2> HIDE DEF r, q
  <2>2. Coding(s, q)
    BY <2>1, EncodeWithCoding
  <2>3. Skips(r, q) \/ Joins(me, r, q, i)
    BY <2>1, EncodeTurn
  <2>4. Tied(r.s) /\ SameRadios(s.nbrs, r.s.nbrs) /\ r.s.info = s.info
        /\ (WellConfigured /\ Whole(s) => Whole(r.s))
    BY <2>1 DEF Coding, Keeps, Gathered, SameMemory
  <2>5. Gathered(me, s, e, q)
    BY <2>1, <2>3, <2>4, TurnGathers
  <2>6. WellConfigured /\ Whole(s) => Matched(me, s, q)
    BY <1>2, <2>1, <2>3, <2>4, TurnMatches
  <2>7. Collects0(q)
    BY <2>2, <2>5, <2>6
  <2>8. i \in 0..n
    BY <1>2
  <2> QED BY <2>7, <2>8 DEF q
<1>7. Collects0(f[n])
  <2> HIDE DEF T
  <2>1. 0..n \subseteq T
    BY <1>2, <1>5, <1>6, RangeInduction
  <2> QED BY <1>2, <2>1 DEF T
<1> DEFINE r == f[n]
           out == Encode(s, e)
<1>8. r \in Codes(me, X, n) /\ r.s \in Typed(me, X)
  <2>1. r \in Codes(me, X, n)
    BY <1>1, <1>2
  <2> QED BY <2>1 DEF Codes
<1>9. out = IF Running(r.s) /\ r.encoded /\ ~HitMax(e)
            THEN [r EXCEPT !.s.rtqueue = EnqueueBack(@, e)]
            ELSE r
  BY <1>1 DEF EncodesBy
<1>10. /\ Gathered(me, s, e, r) /\ SameRadios(s.nbrs, r.s.nbrs)
       /\ WellConfigured /\ Whole(s) => Matched(me, s, r)
  BY <1>7 DEF Coding
<1>11. Keeps(s, out.s) /\ SameRadios(s.nbrs, out.s.nbrs)
  BY EncodeKeeps
<1> HIDE DEF r, out, Collects0, T
<1>12. /\ out.natives = r.natives /\ out.encoded = r.encoded /\ out.iface = r.iface
       /\ out.dest = r.dest /\ SameMemory(r.s, out.s) /\ out.s.queue = r.s.queue
       /\ out.s.nbrs = r.s.nbrs /\ out.s.abort = r.s.abort /\ StillWaits(r.s, out.s)
       /\ Running(r.s) /\ r.encoded /\ ~HitMax(e) =>
            e.id \in Ids(out.s.rtqueue) \/ Len(out.s.rtqueue) = QueueMax
  <2>1. CASE Running(r.s) /\ r.encoded /\ ~HitMax(e)
    <3> DEFINE b == EnqueueBack(r.s.rtqueue, e)
               u == [r.s EXCEPT !.rtqueue = b]
    <3>1. r.s.rtqueue \in Bounded(RtEntry) /\ e \in RtEntry
      BY <1>8, <2>1, Fields, EntryFields
    <3>2. /\ Ids(r.s.rtqueue) \subseteq Ids(b)
          /\ Len(r.s.rtqueue) = QueueMax => Len(b) = QueueMax
          /\ e.id \in Ids(b) \/ Len(b) = QueueMax
      BY <3>1, EnqueueWaits
    <3>3. out = [r EXCEPT !.s = u]
      BY <1>9, <2>1
    <3> HIDE DEF b
    <3>4. /\ u.rtqueue = b /\ SameMemory(r.s, u) /\ u.queue = r.s.queue /\ u.nbrs = r.s.nbrs
          /\ u.abort = r.s.abort
      BY <1>8 DEF Typed, IState, SameMemory
    <3> HIDE DEF u
    <3>5. /\ out.s = u /\ out.natives = r.natives /\ out.encoded = r.encoded
          /\ out.iface = r.iface /\ out.dest = r.dest
      BY <1>8, <3>3 DEF Codes
    <3> QED BY <3>2, <3>4, <3>5 DEF StillWaits
  <2>2. CASE ~(Running(r.s) /\ r.encoded /\ ~HitMax(e))
    BY <1>9, <2>2 DEF SameMemory, StillWaits
  <2> QED BY <2>1, <2>2
<1>13. SameMemory(s, out.s) /\ StillWaits(s, out.s)
  BY <1>10, <1>12 DEF Gathered, SameMemory, StillWaits
<1>14. /\ Running(out.s) => Running(s)
       /\ Range(out.s.queue) \subseteq Q
       /\ out.encoded => out.iface \in Devices(me)
       /\ ~out.encoded => out.iface = e.iface /\ ~Coded(out)
  BY <1>10, <1>12 DEF Gathered, Running, Coded
<1>15. ASSUME NEW x \in Q PROVE x \in Range(out.s.queue) \/ x.id \in {y.pid : y \in out.natives}
  <2>1. Own(e).pid = e.id
    BY DEF Own
  <2> QED BY <1>10, <1>12, <2>1 DEF Gathered
<1>16. ASSUME Running(out.s), Coded(out), NEW x \in out.natives
       PROVE  Secured(Q, out.s, x.pid)
  <2>1. r.encoded /\ Running(r.s)
    BY <1>12, <1>14, <1>16 DEF Running
  <2>2. CASE x = Own(e)
    <3>1. x.pid = e.id
      BY <2>2 DEF Own
    <3> QED BY <1>12, <2>1, <3>1 DEF Secured
  <2>3. CASE x # Own(e)
    <3>1. Secured(P, r.s, x.pid)
      BY <1>10, <1>12, <2>3 DEF Gathered
    <3> QED BY <1>12, <3>1, SecuredStill
  <2> QED BY <2>2, <2>3
<1>17. ASSUME WellConfigured, Whole(s) PROVE Fits(me, s, out.s, Handover(out.iface, out))
  <2> DEFINE h == Handover(out.iface, out)
             channel == RadiosOf[me][r.iface].channel
  <2>1. h.frame = out /\ h.radio = r.iface
    BY <1>12 DEF Handover
  <2> HIDE DEF h
  <2>2. Matched(me, s, r)
    BY <1>10, <1>17
  <2>3. out.s.info = s.info
    BY <1>13 DEF SameMemory
  <2>4. \A x \in r.natives : Remembers(s.nbrs, x.mac) =>
          /\ Remembers(out.s.nbrs, x.mac)
          /\ NameIn(out.s.nbrs, x.mac) = NameIn(s.nbrs, x.mac)
          /\ OwnerIn(out.s.nbrs, x.mac).pairs = OwnerIn(s.nbrs, x.mac).pairs
          /\ GetChannels(OwnerIn(out.s.nbrs, x.mac)) = GetChannels(OwnerIn(s.nbrs, x.mac))
    BY <1>2, <1>11, SameOwner
  <2>5. Coded(out) => r.encoded
    BY <1>12, <1>14
  <2>6. \A x \in r.natives :
          /\ x.mac # Broadcast
          /\ Remembers(out.s.nbrs, x.mac)
          /\ <<x.pid, NameIn(out.s.nbrs, x.mac)>> \notin s.info
    BY <2>2, <2>4 DEF Matched
  <2>7. \A x, y \in r.natives : x # y => <<y.pid, NameIn(out.s.nbrs, x.mac)>> \in out.s.info
    BY <2>2, <2>3, <2>4 DEF Matched
  <2>8. ASSUME r.encoded
        PROVE  /\ \A x \in r.natives : channel \in GetChannels(OwnerIn(out.s.nbrs, x.mac))
               /\ \E x \in r.natives : \E t \in OwnerIn(out.s.nbrs, x.mac).pairs :
                    t.mac = r.dest /\ t.channel = channel
    BY <2>2, <2>4, <2>8 DEF Matched
  <2>9. Fits(me, s, out.s, h)
    BY <1>12, <2>1, <2>5, <2>6, <2>7, <2>8 DEF Fits
  <2> QED BY <2>9 DEF h
<1> HIDE DEF Q
<1>18. Composes(me, Q, s, e, out)
  BY <1>11, <1>13, <1>14, <1>15, <1>16, <1>17 DEF Composes
<1> QED BY <1>18 DEF Q, out

\* So does sending e as it is.
LEMMA PlainComposes ==
  ASSUME NEW me \in Node, NEW X, NEW s \in Typed(me, X), Running(s), Tied(s), NEW e \in Entry,
         e.dest # Broadcast => /\ SearchMac(s.nbrs, e.dest) # 0
                               /\ <<e.id, NameIn(s.nbrs, e.dest)>> \notin s.info
  PROVE  Composes(me, Range(s.queue) \union {e}, s, e, Plain(s, e))
<1> DEFINE r == Plain(s, e)
           h == Handover(r.iface, r)
<1>1. r.s = s /\ r.natives = {Own(e)} /\ ~r.encoded /\ r.iface = e.iface
  BY DEF Plain, Own
<1> HIDE DEF r
<1>2. s.nbrs \in Seq(Neighbor) /\ Own(e).mac = e.dest /\ Own(e).pid = e.id
  BY Fields DEF Own
<1>3. e.dest # Broadcast => Remembers(s.nbrs, e.dest)
  <2>1. e.dest # Broadcast =>
          /\ SearchMac(s.nbrs, e.dest) \in DOMAIN s.nbrs
          /\ HasMac(s.nbrs[SearchMac(s.nbrs, e.dest)], e.dest)
    BY <1>2, SearchMacProperties
  <2> QED BY <2>1 DEF Remembers
<1>4. ~Coded(r)
  BY <1>1 DEF Coded
<1>5. Keeps(s, s) /\ SameRadios(s.nbrs, s.nbrs) /\ SameMemory(s, s) /\ StillWaits(s, s)
  BY <1>2 DEF Keeps, SameRadios, SameMemory, StillWaits
<1>6. Fits(me, s, s, h)
  <2>1. h.frame = r
    BY DEF Handover
  <2> HIDE DEF h
  <2> QED BY <1>1, <1>2, <1>3, <1>4, <2>1 DEF Fits
<1>7. \A x \in Range(s.queue) \union {e} :
        x \in Range(s.queue) \/ x.id \in {y.pid : y \in r.natives}
  BY <1>1, <1>2
<1>8. Composes(me, Range(s.queue) \union {e}, s, e, r)
  BY <1>1, <1>4, <1>5, <1>6, <1>7 DEF Composes
<1> QED BY <1>8 DEF r

-------------------------------------------------------------------------------
(* Sending                                                                 *)

\* A list that is cut in two is still all there.
LEMMA SplitRange ==
  ASSUME NEW S, NEW q \in Seq(S), NEW n \in 0..Len(q)
  PROVE  Range(q) \subseteq Range(SubSeq(q, 1, n)) \union Range(SubSeq(q, n + 1, Len(q)))
<1> DEFINE a == SubSeq(q, 1, n)
           b == SubSeq(q, n + 1, Len(q))
           m == Len(q)
<1>1. m \in Nat /\ n \in Nat /\ n <= m /\ \A i \in 1..m : q[i] \in S
  OBVIOUS
<1>2. /\ a \in Seq(S) /\ Len(a) = IF 1 <= n THEN n - 1 + 1 ELSE 0
      /\ \A i \in 1..n - 1 + 1 : a[i] = q[1 + i - 1]
  <2>1. \A i \in 1..n : q[i] \in S
    BY <1>1
  <2> HIDE DEF m
  <2> QED BY <1>1, <2>1, SubSeqProperties
<1>3. /\ b \in Seq(S) /\ Len(b) = IF n + 1 <= m THEN m - (n + 1) + 1 ELSE 0
      /\ \A i \in 1..m - (n + 1) + 1 : b[i] = q[n + 1 + i - 1]
  <2>1. (\A i \in n + 1..m : q[i] \in S) /\ b = SubSeq(q, n + 1, m)
    BY <1>1
  <2> HIDE DEF b, m
  <2> QED BY <1>1, <2>1, SubSeqProperties
<1> HIDE DEF a, b, m
<1>4. ASSUME NEW i \in 1..m PROVE q[i] \in Range(a) \union Range(b)
  <2>1. CASE i <= n
    <3>1. i \in 1..n - 1 + 1 /\ 1 + i - 1 = i /\ i \in 1..Len(a)
      BY <1>1, <1>2, <2>1
    <3>2. a[i] = q[i] /\ i \in DOMAIN a
      BY <1>2, <3>1
    <3> QED BY <3>2 DEF Range
  <2>2. CASE ~(i <= n)
    <3> DEFINE k == i - n
    <3>1. /\ k \in 1..m - (n + 1) + 1 /\ n + 1 + k - 1 = i /\ k \in 1..Len(b)
      BY <1>1, <1>3, <2>2
    <3>2. b[k] = q[i] /\ k \in DOMAIN b
      BY <1>3, <3>1
    <3> QED BY <3>2 DEF Range
  <2> QED BY <2>1, <2>2
<1>5. Range(q) \subseteq Range(a) \union Range(b)
  BY <1>4 DEF Range, m
<1> QED BY <1>5 DEF a, b, m

\* Turning a list round loses nothing of it.
LEMMA ReverseLosesNothing ==
  ASSUME NEW S, NEW q \in Seq(S)
  PROVE  Range(q) \subseteq Range(Reverse(q))
<1> DEFINE n == Len(q)  p == Reverse(q)
<1>1. n \in Nat /\ DOMAIN q = 1..n /\ p = [i \in 1..n |-> q[(n - i) + 1]]
  BY DEF Reverse
<1> HIDE DEF n, p
<1>2. ASSUME NEW i \in 1..n PROVE q[i] \in Range(p)
  <2>1. (n - i) + 1 \in 1..n /\ (n - ((n - i) + 1)) + 1 = i
    BY <1>1
  <2>2. p[(n - i) + 1] = q[i] /\ (n - i) + 1 \in DOMAIN p
    BY <1>1, <2>1
  <2> QED BY <2>2 DEF Range
<1> QED BY <1>1, <1>2 DEF Range, p

\* The frame f is handed to the radio r.iface, from r.s to t.
HandsOver(r, t, f) ==
  /\ t.macq = [r.s.macq EXCEPT ![r.iface] = Append(@, f)]
  /\ f.natives = r.natives /\ f.payload = r.payload /\ f.dest = r.dest /\ ~f.hello
  /\ f.from = r.s.me /\ f.src = RadiosOf[r.s.me][r.iface].mac
  /\ Range(r.s.recps) \subseteq Range(t.recps) \union f.reports
  /\ Range(r.s.acks) = Range(t.acks) \union Range(f.acks)
  /\ t.nbrs = r.s.nbrs /\ t.queue = r.s.queue /\ t.rtqueue = r.s.rtqueue
  /\ t.info = r.s.info /\ t.pool = r.s.pool /\ t.abort = r.s.abort /\ t.timer = r.s.timer

\* A frame takes along what leaves the lists of reports and acknowledgments.
LEMMA TransmitHands ==
  ASSUME NEW me \in Node, NEW X, NEW r, r.s \in Typed(me, X), r.iface \in Devices(me),
         r.natives \in SUBSET Native, r.payload \in SUBSET Pid, r.dest \in Nat
  PROVE  \E f \in Frame : HandsOver(r, Transmit(r), f)
<1> DEFINE s == r.s
           n == Share(s, s.recps)
           m == Len(s.acks) - Share(s, s.acks)
           sent == SubSeq(s.recps, 1, n)
           left == SubSeq(s.recps, n + 1, Len(s.recps))
           cut == SubSeq(s.acks, m + 1, Len(s.acks))
           acked == Reverse(cut)
           kept == SubSeq(s.acks, 1, m)
           f == [hello |-> FALSE, from |-> s.me, src |-> RadiosOf[s.me][r.iface].mac,
                 dest |-> r.dest, natives |-> r.natives, payload |-> r.payload,
                 reports |-> Range(sent), acks |-> acked]
           u == [s EXCEPT !.recps = left, !.acks = kept]
           v == [u EXCEPT !.macq[r.iface] = Append(@, f)]
<1>1. s \in IState(me) /\ s.recps \in Seq(Pid) /\ s.acks \in Seq(Ack) /\ s.me = me
  BY Fields DEF Typed
<1>2. n \in 0..Len(s.recps) /\ m \in 0..Len(s.acks)
  <2>1. Share(s, s.acks) \in 0..Len(s.acks) /\ Share(s, s.recps) \in 0..Len(s.recps)
    BY <1>1, ShareBounds
  <2> QED BY <1>1, <2>1
<1>3. Transmit(r) = v
  BY DEF Transmit, ForwardDown
<1> HIDE DEF n, m
<1>4. /\ sent \in Seq(Pid) /\ Range(s.recps) \subseteq Range(sent) \union Range(left)
      /\ Range(s.acks) = Range(kept) \union Range(cut)
  <2>1. sent \in Seq(Pid)
    BY <1>1, <1>2, SubSeqRange
  <2>2. Range(s.recps) \subseteq Range(sent) \union Range(left)
    BY <1>1, <1>2, SplitRange
  <2>3. Range(s.acks) \subseteq Range(kept) \union Range(cut)
    BY <1>1, <1>2, SplitRange
  <2>4. Range(kept) \subseteq Range(s.acks) /\ Range(cut) \subseteq Range(s.acks)
    BY <1>1, <1>2, SubSeqRange
  <2> QED BY <2>1, <2>2, <2>3, <2>4
<1>5. cut \in Seq(Ack)
  BY <1>1, <1>2, SubSeqRange
<1> HIDE DEF sent, left, cut, kept
<1>6. acked \in Seq(Ack) /\ Range(cut) = Range(acked)
  <2>1. acked \in Seq(Ack) /\ Range(acked) \subseteq Range(cut)
    BY <1>5, ReverseRange
  <2>2. Range(cut) \subseteq Range(acked)
    BY <1>5, ReverseLosesNothing
  <2> QED BY <2>1, <2>2
<1> HIDE DEF acked
<1>7. RadiosOf[me][r.iface].mac \in Nat \ {0}
  <2>1. RadiosOf[me] \in Seq(Trinity) /\ r.iface \in 1..Len(RadiosOf[me])
    BY RadiosAssumption DEF Devices
  <2>2. RadiosOf[me][r.iface] \in Trinity
    BY <2>1
  <2> QED BY <2>2 DEF Trinity
<1>8. Range(sent) \subseteq Pid
  BY <1>4 DEF Range
<1>9. f \in Frame
  BY <1>1, <1>6, <1>7, <1>8 DEF Frame
<1>10. /\ f.natives = r.natives /\ f.dest = r.dest /\ f.reports = Range(sent) /\ f.acks = acked
       /\ f.payload = r.payload /\ ~f.hello /\ f.from = s.me
       /\ f.src = RadiosOf[s.me][r.iface].mac
  OBVIOUS
<1> HIDE DEF f
<1>11. /\ u.recps = left /\ u.acks = kept /\ u.macq = s.macq /\ u.nbrs = s.nbrs
       /\ u.queue = s.queue /\ u.rtqueue = s.rtqueue /\ u.info = s.info
       /\ u.pool = s.pool /\ u.abort = s.abort /\ u.timer = s.timer /\ u = [x \in DOMAIN u |-> u[x]]
       /\ DOMAIN u = {"me", "queue", "rtqueue", "nbrs", "info", "pool", "recps", "acks",
                      "timer", "macq", "abort"}
  BY <1>1 DEF IState
<1> HIDE DEF u
<1>12. /\ v.macq = [s.macq EXCEPT ![r.iface] = Append(@, f)]
       /\ v.recps = left /\ v.acks = kept /\ v.nbrs = s.nbrs
       /\ v.queue = s.queue /\ v.rtqueue = s.rtqueue /\ v.info = s.info
       /\ v.pool = s.pool /\ v.abort = s.abort /\ v.timer = s.timer
  BY <1>11
<1> HIDE DEF v
<1>13. /\ Range(s.recps) \subseteq Range(v.recps) \union f.reports
       /\ Range(s.acks) = Range(v.acks) \union Range(f.acks)
  BY <1>4, <1>6, <1>10, <1>12
<1>14. HandsOver(r, v, f)
  BY <1>10, <1>12, <1>13 DEF HandsOver
<1> QED BY <1>3, <1>9, <1>14

\* What was composed is sent.
LEMMA TransmitSends ==
  ASSUME NEW me \in Node, NEW X, NEW Q, NEW s \in Typed(me, X), NEW e, NEW r,
         Composes(me, Q, s, e, r), r.s \in Typed(me, X), Running(r.s), r.iface \in Devices(me),
         r.natives \in SUBSET Native, r.payload \in SUBSET Pid, r.dest \in Nat
  PROVE  Sends(me, Q, s, Transmit(r))
<1> DEFINE t == Transmit(r)
           d == r.iface
<1>1. \E f \in Frame : HandsOver(r, t, f)
  BY TransmitHands
<1>2. Keeps(r.s, t)
  BY TransmitKeeps DEF Composes, Keeps
<1> HIDE DEF t
<1>3. PICK f \in Frame : HandsOver(r, t, f)
  BY <1>1
<1>4. /\ t.macq = [r.s.macq EXCEPT ![d] = Append(@, f)]
      /\ f.natives = r.natives /\ f.dest = r.dest
      /\ Range(r.s.recps) \subseteq Range(t.recps) \union f.reports
      /\ Range(r.s.acks) \subseteq Range(t.acks) \union Range(f.acks)
      /\ t.nbrs = r.s.nbrs /\ t.queue = r.s.queue /\ t.rtqueue = r.s.rtqueue
      /\ t.info = r.s.info /\ t.pool = r.s.pool /\ t.abort = r.s.abort
  BY <1>3 DEF HandsOver
<1> DEFINE h == Handover(d, f)
<1>5. h.frame = f /\ h.radio = r.iface
  BY DEF Handover
<1>6. Extends(me, s, t) /\ Handed(me, s, t) = {h}
  <2>1. r.s.macq = s.macq
    BY DEF Composes, SameMemory
  <2>2. Adds(s, t, d, f)
    BY <1>4, <2>1 DEF Adds
  <2>3. d \in Devices(me)
    OBVIOUS
  <2> HIDE DEF d
  <2>4. Extends(me, s, t) /\ Handed(me, s, t) = {Handover(d, f)}
    BY <2>2, <2>3, HandedOne
  <2> QED BY <2>4
<1> HIDE DEF h
<1>7. Told({h}) = f.reports /\ Thanked({h}) = Range(f.acks)
      /\ Carried({h}) = {x.pid : x \in r.natives}
  BY <1>4, <1>5 DEF Told, Thanked, Carried
<1>8. Reported(s, t, {h})
  BY <1>4, <1>7 DEF Reported, Composes, SameMemory
<1>9. Remembered(Q, s, t, {h})
  <2>1. StillWaits(s, t)
    BY <1>4 DEF Composes, StillWaits
  <2>2. \A x \in Range(t.queue) : HitMax(x) => x \in Q
    BY <1>4 DEF Composes
  <2>3. ASSUME Coded(f), NEW x \in f.natives PROVE Secured(Q, t, x.pid)
    <3>1. Coded(r)
      BY <1>4, <2>3 DEF Coded
    <3>2. Secured(Q, r.s, x.pid)
      BY <1>4, <2>3, <3>1 DEF Composes
    <3> QED BY <1>4, <3>2 DEF Secured
  <2> QED BY <1>5, <2>1, <2>2, <2>3 DEF Remembered, StillWaits
<1>10. Accounts(Q, t, {h})
  <2>1. \A x \in Q : x \in Range(t.queue) \/ x.id \in Carried({h})
    BY <1>4, <1>7 DEF Composes
  <2> QED BY <2>1 DEF Accounts, Accounted
<1>11. ASSUME WellConfigured, Whole(s) PROVE Fits(me, s, t, h)
  <2> DEFINE g == Handover(r.iface, r)
  <2>1. Fits(me, s, r.s, g)
    BY <1>11 DEF Composes
  <2>2. g.frame = r /\ g.radio = r.iface
    BY DEF Handover
  <2> HIDE DEF g
  <2>3. /\ h.frame.natives = g.frame.natives /\ h.frame.dest = g.frame.dest
        /\ h.radio = g.radio /\ t.nbrs = r.s.nbrs /\ t.info = r.s.info
        /\ Coded(h.frame) <=> Coded(g.frame)
    BY <1>4, <1>5, <2>2 DEF Coded
  <2> QED BY <2>1, <2>3 DEF Fits
<1>12. /\ SameRadios(s.nbrs, t.nbrs) /\ Keeps(s, t)
       /\ Running(t) => Running(s)
  BY <1>4, <1>2, KeepsChain DEF Composes, Running
<1>13. Sends(me, Q, s, t)
  BY <1>6, <1>8, <1>9, <1>10, <1>11, <1>12 DEF Sends
<1> QED BY <1>13 DEF t

\* More entries at hand, which are accounted for as well.
LEMMA SendsWider ==
  ASSUME NEW me, NEW P, NEW Q, NEW s, NEW r, Sends(me, P, s, r), P \subseteq Q,
         Running(r) => \A e \in Q \ P : Accounted(r, Handed(me, s, r), e)
  PROVE  Sends(me, Q, s, r)
<1> DEFINE H == Handed(me, s, r)
<1>1. Remembered(P, s, r, H) /\ Accounts(P, r, H)
  BY DEF Sends
<1>2. Running(r) => \A e \in Q \ P : Accounted(r, H, e)
  OBVIOUS
<1> HIDE DEF H
<1>3. Remembered(Q, s, r, H)
  BY <1>1 DEF Remembered, Secured
<1>4. Accounts(Q, r, H)
  BY <1>1, <1>2 DEF Accounts
<1> QED BY <1>3, <1>4 DEF Sends, H

\* Between s and u an entry only left the queues.
LEMMA DequeuedSends ==
  ASSUME NEW me, NEW Q, NEW s, NEW u, NEW r, SameMemory(s, u), u.rtqueue = s.rtqueue,
         SameRadios(s.nbrs, u.nbrs), Keeps(s, u), Running(u) => Running(s),
         Sends(me, Q, u, r)
  PROVE  Sends(me, Q, s, r)
<1>1. (Extends(me, s, r) <=> Extends(me, u, r)) /\ Handed(me, s, r) = Handed(me, u, r)
  BY DEF Extends, Handed, SameMemory
<1> DEFINE H == Handed(me, u, r)
<1>2. /\ Extends(me, u, r) /\ SameRadios(u.nbrs, r.nbrs) /\ Keeps(u, r)
      /\ Running(r) => Running(u)
      /\ Reported(u, r, H) /\ Remembered(Q, u, r, H) /\ Accounts(Q, r, H)
      /\ WellConfigured /\ Whole(u) => \A h \in H : Fits(me, u, r, h)
  BY DEF Sends
<1>3. Handed(me, s, r) = H
  BY <1>1
<1> HIDE DEF H
<1>4. SameRadios(s.nbrs, r.nbrs) /\ Keeps(s, r)
  BY <1>2, SameRadiosChain, KeepsChain
<1>5. Reported(s, r, H) /\ Remembered(Q, s, r, H)
  BY <1>2 DEF Reported, Remembered, SameMemory
<1>6. WellConfigured /\ Whole(s) => \A h \in H : Fits(me, s, r, h)
  BY <1>2 DEF Keeps, Fits, SameMemory
<1> QED BY <1>1, <1>2, <1>3, <1>4, <1>5, <1>6 DEF Sends

\* The outcome of handing over nothing or one frame ends as any other does.
LEMMA EndSends ==
  ASSUME NEW me \in Node, NEW X, NEW Q, NEW s, s.nbrs \in Seq(Neighbor), NEW r \in Typed(me, X),
         Sends(me, Q, s, r)
  PROVE  Sends(me, Q, s, DoSendEnd(r))
<1> DEFINE t == DoSendEnd(r)
<1>1. Tied(r)
  BY DEF Sends, Keeps
<1>2. Sends(me, Range(r.queue), r, t)
  BY <1>1, DoSendEndSends
<1> HIDE DEF t
<1>3. Sends(me, Q, s, t)
  BY <1>2, SendsChain
<1> QED BY <1>3 DEF t

\* e, which is in neither queue, is sent, coded or not, or put back.
LEMMA SendDataSends ==
  ASSUME NEW me \in Node, NEW X, NEW s \in Typed(me, X), Running(s), Tied(s), NEW e \in Entry,
         ~e.hello, Accepts(s.queue, e),
         e.dest # Broadcast => /\ SearchMac(s.nbrs, e.dest) # 0
                               /\ <<e.id, NameIn(s.nbrs, e.dest)>> \notin s.info
  PROVE  Sends(me, Range(s.queue) \union {e}, s, SendData(s, e))
<1> DEFINE r == IF s.queue # <<>> /\ e.dest # Broadcast THEN Encode(s, e) ELSE Plain(s, e)
           Q == Range(s.queue) \union {e}
           b == PutBack(s, e)
           t == Transmit(r)
           u == r.s
<1>1. /\ u \in Typed(me, X) /\ Composes(me, Q, s, e, r)
      /\ r.natives \in SUBSET Native /\ r.payload \in SUBSET Pid /\ r.dest \in Nat
  <2>1. CASE s.queue # <<>> /\ e.dest # Broadcast
    BY <2>1, EncodeType, EncodeComposes
  <2>2. CASE ~(s.queue # <<>> /\ e.dest # Broadcast)
    BY <2>2, EntryFields, PlainComposes DEF Plain
  <2> QED BY <2>1, <2>2
<1>2. SendData(s, e) =
        IF ~Running(r.s) THEN r.s
        ELSE IF ~r.encoded /\ e.iface \notin DevicesIf(s) THEN DoSendEnd(PutBack(s, e))
        ELSE DoSendEnd(Transmit(r))
  BY DEF SendData
<1> HIDE DEF r
<1>3. s.nbrs \in Seq(Neighbor) /\ s.me = me
  BY Fields
<1>4. Sends(me, Q, s, DoSendEnd(b))
  <2>1. b \in Typed(me, X) /\ Sends(me, Q, s, b)
    BY PutBackTyped, PutBackSends
  <2> HIDE DEF b, Q
  <2> QED BY <1>3, <2>1, EndSends
<1>5. CASE ~Running(u)
  <2>1. /\ Keeps(s, u) /\ SameRadios(s.nbrs, u.nbrs) /\ SameMemory(s, u) /\ StillWaits(s, u)
        /\ Running(u) => Running(s)
        /\ Range(u.queue) \subseteq Q
    BY <1>1 DEF Composes
  <2>2. Reported(s, u, {})
    BY <2>1 DEF Reported, SameMemory
  <2>3. Remembered(Q, s, u, {})
    BY <2>1 DEF Remembered, StillWaits
  <2>4. Accounts(Q, u, {})
    BY <1>5 DEF Accounts
  <2>5. u.macq = s.macq
    BY <2>1 DEF SameMemory
  <2> HIDE DEF u, Q
  <2>6. Sends(me, Q, s, u)
    BY <2>1, <2>2, <2>3, <2>4, <2>5, QuietSends
  <2> QED BY <1>2, <1>5, <2>6 DEF u, Q
<1>6. CASE Running(u) /\ ~r.encoded /\ e.iface \notin DevicesIf(s)
  BY <1>2, <1>4, <1>6
<1>7. CASE Running(u) /\ ~(~r.encoded /\ e.iface \notin DevicesIf(s))
  <2>1. r.iface \in Devices(me)
    BY <1>1, <1>3, <1>7 DEF Composes, DevicesIf
  <2> HIDE DEF Q
  <2>2. t \in Typed(me, X) /\ Sends(me, Q, s, t)
    BY <1>1, <1>7, <2>1, TransmitTyped, TransmitSends
  <2> HIDE DEF t
  <2>3. Sends(me, Q, s, DoSendEnd(t))
    BY <1>3, <2>2, EndSends
  <2> QED BY <1>2, <1>7, <2>3 DEF t, Q
<1> QED BY <1>5, <1>6, <1>7

\* The head of the output queue leaves it and its virtual queue.
LEMMA DequeueMoves ==
  ASSUME NEW me \in Node, NEW X, NEW s \in Typed(me, X), s.queue # <<>>,
         NEW pos \in DOMAIN s.nbrs, NEW pid
  PROVE  LET u == Dequeued(s, pos, pid)
         IN  /\ SameMemory(s, u) /\ u.rtqueue = s.rtqueue /\ u.queue = Tail(s.queue)
             /\ SameRadios(s.nbrs, u.nbrs) /\ u.abort = s.abort
<1> DEFINE u == Dequeued(s, pos, pid)
           vq == Erase(s.nbrs[pos].vq, pid)
<1>1. /\ u.nbrs = Requeued(s.nbrs, pos, vq) /\ u.queue = Tail(s.queue)
      /\ u.rtqueue = s.rtqueue /\ u.abort = s.abort /\ SameMemory(s, u)
  BY DEF Typed, IState, Requeued, SameMemory, Dequeued
<1>2. s.nbrs \in Seq(Neighbor) /\ vq \in Seq(Entry)
  BY Fields, NeighborFields, EraseProperties
<1> HIDE DEF u, vq
<1>3. SameRadios(s.nbrs, Requeued(s.nbrs, pos, vq))
  BY <1>2, RequeuedRadios
<1> QED BY <1>1, <1>3 DEF u

\* A packet its next hop has is dropped; any other is sent or put back.
LEMMA SendUnicastSends ==
  ASSUME NEW me \in Node, NEW X, NEW s \in Good(me, X), Running(s), Tied(s), s.queue # <<>>,
         ~Head(s.queue).hello, Head(s.queue).dest # Broadcast
  PROVE  Sends(me, Range(s.queue), s, SendUnicast(s, Head(s.queue)))
<1> DEFINE e == Head(s.queue)
           pos == SearchMac(s.nbrs, e.dest)
           u == Dequeued(s, pos, e.id)
           lost == Abort(s, "NeighborMissing")
           astray == Abort(s, "VirtualQueueRemove")
           r == SendUnicast(s, e)
           Q == Range(s.queue)
<1>1. s \in Typed(me, X) /\ s.nbrs \in Seq(Neighbor) /\ s.queue \in Bounded(Entry)
  BY Fields DEF Good
<1>2. /\ Range(Tail(s.queue)) = Q \ {e} /\ e \in Q /\ e \in Entry
      /\ Accepts(Tail(s.queue), e)
  BY <1>1, WaitingTail
<1>3. r = IF pos = 0 THEN lost
          ELSE IF e.id \notin Ids(s.nbrs[pos].vq) THEN astray
          ELSE IF Knows(s, e.id, s.nbrs[pos]) THEN DoSendEnd(u) ELSE SendData(u, e)
  BY DEF SendUnicast, Dequeued
<1>4. Keeps(s, r)
  BY SendUnicastKeeps
<1>5. pos # 0 => pos \in DOMAIN s.nbrs /\ HasMac(s.nbrs[pos], e.dest)
  BY <1>1, SearchMacProperties
<1>6. ASSUME NEW where \in {"NeighborMissing", "VirtualQueueRemove"}, r = Abort(s, where)
      PROVE  Sends(me, Q, s, r)
  <2>1. /\ r.macq = s.macq /\ r.nbrs = s.nbrs /\ r.queue = s.queue /\ r.rtqueue = s.rtqueue
        /\ r.info = s.info /\ r.recps = s.recps /\ r.acks = s.acks /\ r.pool = s.pool
        /\ Running(r) => Running(s)
    BY <1>1, <1>6 DEF Abort, Typed, IState, Running
  <2> HIDE DEF r
  <2>2. Sends(me, Range(s.queue), s, r)
    BY <1>1, <1>4, <2>1, UnmovedSends
  <2> QED BY <2>2
<1>7. ASSUME pos # 0, e.id \in Ids(s.nbrs[pos].vq)
      PROVE  Sends(me, Q, s, IF Knows(s, e.id, s.nbrs[pos]) THEN DoSendEnd(u)
                             ELSE SendData(u, e))
  <2>1. u \in Typed(me, X) /\ Running(u) /\ SearchMac(u.nbrs, e.dest) # 0
    <3> HIDE DEF u
    <3>1. SearchMac(s.nbrs, e.dest) = pos
      OBVIOUS
    <3> HIDE DEF pos, e
    <3> QED BY <1>1, <1>5, <1>7, <3>1, DequeueTyped DEF u
  <2>2. /\ SameMemory(s, u) /\ u.rtqueue = s.rtqueue /\ u.queue = Tail(s.queue)
        /\ SameRadios(s.nbrs, u.nbrs)
    <3>1. pos \in DOMAIN s.nbrs
      BY <1>5, <1>7
    <3> HIDE DEF pos, e
    <3> QED BY <1>1, <3>1, DequeueMoves
  <2>3. Keeps(s, u)
    <3>1. pos \in DOMAIN s.nbrs /\ pos = SearchMac(s.nbrs, e.dest)
      BY <1>5, <1>7
    <3> HIDE DEF pos, u
    <3>2. Keeps(s, Dequeued(s, pos, Head(s.queue).id))
      BY <1>1, <1>7, <3>1, DequeueKeeps
    <3> QED BY <3>2 DEF u
  <2>4. /\ Remembers(s.nbrs, e.dest) /\ Remembers(u.nbrs, e.dest)
        /\ NameIn(u.nbrs, e.dest) = NameIn(s.nbrs, e.dest)
        /\ NameIn(s.nbrs, e.dest) = GetMac(s.nbrs[pos])
    <3>1. Remembers(s.nbrs, e.dest)
      BY <1>5, <1>7 DEF Remembers
    <3>2. NameIn(s.nbrs, e.dest) = GetMac(s.nbrs[pos])
      BY DEF NameIn, OwnerIn
    <3> HIDE DEF u
    <3> QED BY <1>1, <2>2, <3>1, <3>2, SameOwner
  <2>5. Running(u) => Running(s)
    OBVIOUS
  <2>6. Tied(u) /\ u.nbrs \in Seq(Neighbor)
    BY <2>1, <2>3, Fields DEF Keeps
  <2> HIDE DEF u, pos
  <2>7. CASE Knows(s, e.id, s.nbrs[pos])
    <3> DEFINE t == DoSendEnd(u)
    <3>1. Sends(me, Range(u.queue), u, t)
      BY <2>1, <2>6, DoSendEndSends
    <3>2. s.info \subseteq t.info /\ SameRadios(u.nbrs, t.nbrs)
      BY <2>2, <3>1 DEF Sends, Reported, SameMemory
    <3> HIDE DEF t
    <3>3. Remembers(t.nbrs, e.dest) /\ NameIn(t.nbrs, e.dest) = NameIn(u.nbrs, e.dest)
      BY <2>4, <2>6, <3>2, SameOwner
    <3>4. <<e.id, NameIn(t.nbrs, e.dest)>> \in t.info
      BY <2>4, <2>7, <3>2, <3>3 DEF Knows
    <3>5. Accounted(t, Handed(me, u, t), e)
      BY <3>3, <3>4 DEF Accounted
    <3>6. Range(u.queue) \subseteq Q /\ Q \ Range(u.queue) \subseteq {e}
      BY <1>2, <2>2
    <3> HIDE DEF Q, e
    <3>7. Sends(me, Q, u, t)
      BY <3>1, <3>5, <3>6, SendsWider
    <3>8. Sends(me, Q, s, t)
      BY <2>2, <2>3, <2>5, <3>7, DequeuedSends
    <3> QED BY <2>7, <3>8 DEF t
  <2>8. CASE ~Knows(s, e.id, s.nbrs[pos])
    <3> DEFINE t == SendData(u, e)
    <3>1. <<e.id, NameIn(u.nbrs, e.dest)>> \notin u.info
      BY <2>2, <2>4, <2>8 DEF Knows, SameMemory
    <3>2. Range(u.queue) \union {e} = Q /\ Accepts(u.queue, e)
      BY <1>2, <2>2
    <3>3. e \in Entry /\ ~e.hello
      BY <1>2
    <3> HIDE DEF Q, e
    <3>4. Sends(me, Range(u.queue) \union {e}, u, t)
      BY <2>1, <2>6, <3>1, <3>2, <3>3, SendDataSends
    <3> HIDE DEF t
    <3>5. Sends(me, Q, s, t)
      BY <2>2, <2>3, <2>5, <3>2, <3>4, DequeuedSends
    <3> QED BY <2>8, <3>5 DEF t
  <2> QED BY <2>7, <2>8
<1> HIDE DEF u, pos, e, r
<1>8. CASE pos = 0
  BY <1>3, <1>6, <1>8 DEF r, e
<1>9. CASE pos # 0 /\ e.id \notin Ids(s.nbrs[pos].vq)
  BY <1>3, <1>6, <1>9 DEF r, e
<1>10. CASE pos # 0 /\ e.id \in Ids(s.nbrs[pos].vq)
  BY <1>3, <1>7, <1>10 DEF r, e
<1> QED BY <1>8, <1>9, <1>10

\* A hello entry leaves the queue in a hello, or stays.
LEMMA SendHelloEntrySends ==
  ASSUME NEW me \in Node, NEW X, NEW s \in Typed(me, X), Tied(s), Running(s), s.queue # <<>>,
         Head(s.queue).hello
  PROVE  Sends(me, Range(s.queue), s, SendHelloEntry(s, Head(s.queue)))
<1> DEFINE e == Head(s.queue)
           d == e.iface
           f == HelloFrame(s, d)
           r == SendHelloEntry(s, e)
           h == Handover(d, f)
           Q == Range(s.queue)
<1>1. /\ s.queue \in Bounded(Entry) /\ s.nbrs \in Seq(Neighbor) /\ s.me = me
      /\ Range(Tail(s.queue)) = Q \ {e}
      /\ Waiting(Tail(s.queue)) = Waiting(s.queue) \ {e} /\ e.hello
  BY Fields, WaitingTail
<1>2. CASE e.iface \notin DevicesIf(s)
  <2>1. r = s
    BY <1>2 DEF SendHelloEntry
  <2> HIDE DEF r
  <2> QED BY <2>1, StutterSends DEF r
<1>3. CASE e.iface \in DevicesIf(s)
  <2>1. d \in Devices(me)
    BY <1>1, <1>3 DEF DevicesIf
  <2>2. f \in Frame
    <3>1. RadiosOf[me] \in Seq(Trinity) /\ d \in 1..Len(RadiosOf[me])
      BY <2>1, RadiosAssumption DEF Devices
    <3>2. RadiosOf[me][d] \in Trinity
      BY <3>1
    <3> QED BY <1>1, <2>1, <3>2 DEF Frame, HelloFrame, Trinity, Broadcast
  <2>3. f.natives = {} /\ ~Coded(f)
    BY DEF HelloFrame, Coded
  <2>4. /\ r.macq = [s.macq EXCEPT ![d] = Append(@, f)]
        /\ r.nbrs = s.nbrs /\ r.queue = Tail(s.queue) /\ r.rtqueue = s.rtqueue
        /\ r.info = s.info /\ r.recps = s.recps /\ r.acks = s.acks /\ r.pool = s.pool
        /\ r.abort = s.abort
    BY <1>3 DEF SendHelloEntry, ForwardDown, Typed, IState
  <2> HIDE DEF r, f
  <2>5. Extends(me, s, r) /\ Handed(me, s, r) = {h}
    <3> HIDE DEF d
    <3>1. Adds(s, r, d, f)
      BY <2>4 DEF Adds
    <3> QED BY <2>1, <2>2, <3>1, HandedOne DEF h
  <2>6. h.frame = f
    BY DEF Handover
  <2> HIDE DEF h
  <2>7. Keeps(s, r)
    <3>1. Waiting(r.queue) = Waiting(s.queue)
      BY <1>1, <2>4 DEF Waiting
    <3> QED BY <2>4, <3>1, SameKeeps DEF Same
  <2>8. SameRadios(s.nbrs, r.nbrs)
    BY <1>1, <2>4 DEF SameRadios
  <2>9. Reported(s, r, {h})
    BY <2>4 DEF Reported
  <2>10. Remembered(Q, s, r, {h})
    BY <1>1, <2>3, <2>4, <2>6 DEF Remembered
  <2>11. Accounts(Q, r, {h})
    BY <1>1, <2>4 DEF Accounts, Accounted
  <2>12. Fits(me, s, r, h)
    BY <2>3, <2>6 DEF Fits
  <2> QED BY <2>4, <2>5, <2>7, <2>8, <2>9, <2>10, <2>11, <2>12 DEF Sends, r, e
<1> QED BY <1>2, <1>3

\* A sending attempt.
LEMMA TrySendSends ==
  ASSUME NEW me \in Node, NEW X, NEW s \in Good(me, X), Tied(s)
  PROVE  Sends(me, Range(s.queue), s, TrySend(s))
<1> DEFINE e == Head(s.queue)
           u == [s EXCEPT !.queue = Tail(@)]
           h == SendHelloEntry(s, e)
           Q == Range(s.queue)
<1>1. s \in Typed(me, X) /\ s.nbrs \in Seq(Neighbor)
  BY Fields DEF Good
<1>2. CASE ~(Running(s) /\ DevicesIf(s) # {} /\ s.queue # <<>>)
  BY <1>1, <1>2, StutterSends DEF TrySend
<1>3. CASE Running(s) /\ DevicesIf(s) # {} /\ s.queue # <<>>
  <2>1. TrySend(s) = IF e.hello THEN DoSendEnd(h)
                     ELSE IF e.dest = Broadcast THEN SendData(u, e)
                     ELSE SendUnicast(s, e)
    BY <1>3 DEF TrySend, DoSend
  <2>2. ASSUME e.hello PROVE Sends(me, Q, s, DoSendEnd(h))
    <3>1. h \in Typed(me, X)
      BY <1>1, <1>3, SendHelloEntryTyped
    <3>2. Sends(me, Q, s, h)
      BY <1>1, <1>3, <2>2, SendHelloEntrySends
    <3> HIDE DEF h, Q
    <3> QED BY <1>1, <3>1, <3>2, EndSends
  <2>3. ASSUME ~e.hello, e.dest = Broadcast PROVE Sends(me, Q, s, SendData(u, e))
    <3>1. /\ Tail(s.queue) \in Bounded(Entry)
          /\ Waiting(Tail(s.queue)) = Waiting(s.queue) \ {e} /\ e \in Entry /\ e \in Q
          /\ Range(Tail(s.queue)) = Q \ {e}
          /\ Accepts(Tail(s.queue), e)
      <4>1. s.queue \in Bounded(Entry)
        BY <1>1, Fields
      <4>2. Tail(s.queue) \in Bounded(Entry)
        BY <1>3, <4>1, TailBounded
      <4> QED BY <1>3, <4>1, <4>2, WaitingTail
    <3>2. /\ u.nbrs = s.nbrs /\ u.queue = Tail(s.queue) /\ u.rtqueue = s.rtqueue
          /\ u.abort = s.abort /\ SameMemory(s, u)
      BY <1>1 DEF Typed, IState, SameMemory
    <3>3. u \in Typed(me, X) /\ Running(u)
      BY <1>1, <1>3, <3>1, UpdateTyped DEF Running, Typed, IState
    <3> HIDE DEF u
    <3>4. Keeps(s, u)
      <4>1. Waiting(u.queue) = Waiting(s.queue)
        BY <2>3, <3>1, <3>2 DEF Waiting
      <4> QED BY <3>2, <4>1, SameKeeps DEF Same
    <3>5. SameRadios(s.nbrs, u.nbrs) /\ (Running(u) => Running(s))
      BY <1>1, <3>2 DEF SameRadios, Running
    <3>6. Range(u.queue) \union {e} = Q /\ Accepts(u.queue, e) /\ Tied(u)
      BY <3>1, <3>2, <3>4 DEF Keeps
    <3> DEFINE t == SendData(u, e)
    <3> HIDE DEF Q, e
    <3>7. Sends(me, Range(u.queue) \union {e}, u, t)
      BY <2>3, <3>1, <3>3, <3>6, SendDataSends
    <3> HIDE DEF t
    <3>8. Sends(me, Q, s, t)
      BY <3>2, <3>4, <3>5, <3>6, <3>7, DequeuedSends
    <3> QED BY <3>8 DEF t
  <2>4. ASSUME ~e.hello, e.dest # Broadcast PROVE Sends(me, Q, s, SendUnicast(s, e))
    BY <1>3, <2>4, SendUnicastSends
  <2> HIDE DEF h, u, Q, e
  <2> QED BY <2>1, <2>2, <2>3, <2>4 DEF Q
<1> QED BY <1>2, <1>3

\* A hello for one radio.
LEMMA EnqueueHelloSends ==
  ASSUME NEW me \in Node, NEW X, NEW s \in Good(me, X), Tied(s), NEW d \in Devices(me),
         NEW id \in Pid
  PROVE  Sends(me, Range(s.queue), s, EnqueueHello(s, d, id))
<1> DEFINE e == [id |-> id, dest |-> Broadcast, iface |-> d, retry |-> 0, hello |-> TRUE]
           q == EnqueueFront(s.queue, e)
           a == [s EXCEPT !.queue = q]
           t == TrySend(a)
           Q == Range(s.queue)
<1>1. /\ s \in Typed(me, X) /\ s.queue \in Bounded(Entry) /\ s.nbrs \in Seq(Neighbor)
  BY Fields DEF Good
<1>2. e \in Entry /\ e.hello /\ ~HitMax(e)
  <2>1. d \in Nat \ {0}
    BY DEF Devices
  <2> QED BY <2>1 DEF Entry, MaxRetry, Broadcast, HitMax
<1>3. EnqueueHello(s, d, id) = IF ~Running(s) THEN s ELSE t
  BY DEF EnqueueHello
<1> HIDE DEF e
<1>4. q \in Bounded(Entry) /\ (q = s.queue \/ Range(q) = Q \union {e})
  BY <1>1, <1>2, EnqueueFrontBounded, WaitingEnqueue
<1> HIDE DEF q
<1>5. a \in Good(me, X)
  BY <1>4, UpdateGood
<1>6. a.nbrs = s.nbrs /\ a.queue = q /\ a.rtqueue = s.rtqueue /\ a.abort = s.abort
      /\ SameMemory(s, a)
  BY <1>1 DEF Typed, IState, SameMemory
<1> HIDE DEF a
<1>7. Keeps(s, a)
  <2>1. Same(s, a)
    BY <1>2, <1>4, <1>6 DEF Same, Waiting
  <2> QED BY <2>1, SameKeeps
<1>8. Sends(me, Range(a.queue), a, t)
  BY <1>5, <1>7, TrySendSends DEF Keeps
<1> HIDE DEF t
<1>9. SameRadios(s.nbrs, a.nbrs) /\ (Running(a) => Running(s))
  BY <1>1, <1>6 DEF SameRadios, Running
<1>10. Sends(me, Range(a.queue), s, t)
  BY <1>6, <1>7, <1>8, <1>9, DequeuedSends
<1>11. Sends(me, Q, s, t)
  <2> DEFINE H == Handed(me, s, t)
  <2>1. Remembered(Range(a.queue), s, t, H) /\ Accounts(Range(a.queue), t, H)
    BY <1>10 DEF Sends
  <2> HIDE DEF H
  <2>2. \A x \in Range(a.queue) : HitMax(x) => x \in Q
    BY <1>2, <1>4, <1>6
  <2>3. Q \subseteq Range(a.queue)
    BY <1>4, <1>6
  <2> HIDE DEF Q
  <2>4. Remembered(Q, s, t, H)
    BY <2>1, <2>2 DEF Remembered, Secured
  <2>5. Accounts(Q, t, H)
    BY <2>1, <2>3 DEF Accounts
  <2> QED BY <1>10, <2>4, <2>5 DEF Sends, H
<1>12. Sends(me, Q, s, s)
  BY <1>1, StutterSends
<1> QED BY <1>3, <1>11, <1>12

\* A hello for every radio.
LEMMA SendHelloSends ==
  ASSUME NEW me \in Node, NEW X, NEW s \in Good(me, X), Tied(s),
         NEW ids \in [Devices(me) -> Pid]
  PROVE  Sends(me, Range(s.queue), s, SendHello(s, ids))
<1> DEFINE n == Len(RadiosOf[me])
           Q == Range(s.queue)
<1>1. PICK f : /\ HellosBy(f, me, s, ids)
               /\ \A i \in 0..n : f[i] \in Good(me, X)
  BY SendHelloRuns
<1>2. n \in Nat /\ Devices(me) = 1..n
  <2>1. RadiosOf[me] \in Seq(Trinity)
    BY RadiosAssumption
  <2> QED BY <2>1 DEF Devices
<1>3. s \in Typed(me, X) /\ s.nbrs \in Seq(Neighbor)
  BY Fields DEF Good
<1> DEFINE T == {i \in 0..n : Sends(me, Q, s, f[i])}
<1>4. 0 \in T
  <2>1. f[0] = s
    BY <1>1 DEF HellosBy
  <2>2. Sends(me, Q, s, s)
    BY <1>3, StutterSends
  <2> QED BY <1>2, <2>1, <2>2
<1>5. ASSUME NEW i \in 1..n, i - 1 \in T PROVE i \in T
  <2>1. f[i] = EnqueueHello(f[i - 1], i, ids[i]) /\ f[i - 1] \in Good(me, X)
        /\ Sends(me, Q, s, f[i - 1]) /\ i \in Devices(me) /\ ids[i] \in Pid
    BY <1>1, <1>2, <1>5 DEF HellosBy
  <2>2. Sends(me, Range(f[i - 1].queue), f[i - 1], f[i])
    BY <2>1, EnqueueHelloSends DEF Sends, Keeps
  <2> HIDE DEF Q
  <2>3. Sends(me, Q, s, f[i])
    BY <1>3, <2>1, <2>2, SendsChain
  <2> QED BY <1>2, <2>3
<1>6. Sends(me, Q, s, f[n])
  <2> HIDE DEF T
  <2>1. 0..n \subseteq T
    BY <1>2, <1>4, <1>5, RangeInduction
  <2> QED BY <1>2, <2>1 DEF T
<1> QED BY <1>1, <1>6 DEF HellosBy

-------------------------------------------------------------------------------
(* Before it sends, a handler may learn and take in packets                *)

\* From s to u nothing is handed over.  The packets I are new, and at most
\* the packets A cease to wait for their acknowledgments.
Prepares(I, A, s, u) ==
  /\ u.macq = s.macq
  /\ Running(u) => Running(s)
  /\ s.info \subseteq u.info
  /\ Range(s.recps) \subseteq Range(u.recps)
  /\ Range(s.acks) \subseteq Range(u.acks)
  /\ u.pool \subseteq s.pool \union I
  /\ Range(s.queue) \subseteq Range(u.queue)
  /\ \A e \in Range(u.queue) : HitMax(e) =>
       e \in Range(s.queue) \/ \E x \in Range(s.rtqueue) : e = Retry(x)
  /\ Ids(s.rtqueue) \subseteq Ids(u.rtqueue) \union A
  /\ Range(u.rtqueue) \subseteq Range(s.rtqueue)

\* A handler prepares, then sends.  If C, the directory stays whole.
Serves(me, I, A, C, s, r) ==
  \E u : /\ u.nbrs \in Seq(Neighbor)
         /\ Prepares(I, A, s, u)
         /\ C /\ WellConfigured /\ Whole(s) => Whole(u)
         /\ Sends(me, Range(u.queue), u, r)

\* Nothing to prepare.
LEMMA SendsServes ==
  ASSUME NEW me, NEW I, NEW A, NEW C, NEW s, NEW r, s.nbrs \in Seq(Neighbor),
         Sends(me, Range(s.queue), s, r)
  PROVE  Serves(me, I, A, C, s, r)
<1>1. Prepares(I, A, s, s)
  BY DEF Prepares
<1> QED BY <1>1 DEF Serves

\* One preparation more.
LEMMA PreparesServes ==
  ASSUME NEW me, NEW I, NEW A, NEW B, NEW C, NEW s, NEW u, NEW r,
         Prepares(I, A, s, u), C /\ WellConfigured /\ Whole(s) => Whole(u),
         Serves(me, I, B, C, u, r)
  PROVE  Serves(me, I, A \union B, C, s, r)
<1>1. PICK v : /\ v.nbrs \in Seq(Neighbor)
               /\ Prepares(I, B, u, v)
               /\ C /\ WellConfigured /\ Whole(u) => Whole(v)
               /\ Sends(me, Range(v.queue), v, r)
  BY DEF Serves
<1>2. Prepares(I, A \union B, s, v)
  BY <1>1 DEF Prepares
<1> QED BY <1>1, <1>2 DEF Serves

\* One sending more.
LEMMA ServesSends ==
  ASSUME NEW me, NEW I, NEW A, NEW C, NEW s, NEW r, NEW t,
         Serves(me, I, A, C, s, r), Sends(me, Range(r.queue), r, t)
  PROVE  Serves(me, I, A, C, s, t)
<1>1. PICK u : /\ u.nbrs \in Seq(Neighbor)
               /\ Prepares(I, A, s, u)
               /\ C /\ WellConfigured /\ Whole(s) => Whole(u)
               /\ Sends(me, Range(u.queue), u, r)
  BY DEF Serves
<1> DEFINE Q == Range(u.queue)
<1>2. Sends(me, Q, u, r)
  BY <1>1
<1> HIDE DEF Q
<1>3. Sends(me, Q, u, t)
  BY <1>1, <1>2, SendsChain
<1> QED BY <1>1, <1>3 DEF Serves, Q

\* Only the directory changes, or the node stops.
Relearned(s, u) ==
  /\ SameMemory(s, u) /\ u.queue = s.queue /\ u.rtqueue = s.rtqueue
  /\ Running(u) => Running(s)

\* So does a step that replaces the directory or aborts.
LEMMA RelearnedBy ==
  ASSUME NEW me \in Node, NEW X, NEW s \in Typed(me, X), NEW u,
         \/ \E n \in Seq(Neighbor) : u = [s EXCEPT !.nbrs = n]
         \/ \E a \in Aborts : a # "none" /\ u = Abort(s, a)
  PROVE  Relearned(s, u)
<1>1. ASSUME NEW n \in Seq(Neighbor), u = [s EXCEPT !.nbrs = n] PROVE Relearned(s, u)
  BY <1>1 DEF Relearned, SameMemory, Typed, IState, Running
<1>2. ASSUME NEW a \in Aborts, a # "none", u = Abort(s, a) PROVE Relearned(s, u)
  BY <1>2 DEF Relearned, SameMemory, Typed, IState, Running, Abort
<1> QED BY <1>1, <1>2

\* A packet from IP joins the output queue and the pool.
LEMMA QueuedPrepares ==
  ASSUME NEW me \in Node, NEW X, NEW s \in Good(me, X), NEW x \in Sendable(me)
  PROVE  Prepares({x.id}, {}, s, Queued(s, x))
<1> DEFINE e == [id |-> x.id, dest |-> x.dest, iface |-> x.iface, retry |-> 0, hello |-> FALSE]
           q == EnqueueBack(s.queue, e)
           a == [s EXCEPT !.queue = q]
           u == [a EXCEPT !.pool = @ \union {x.id}]
           pos == SearchMac(u.nbrs, x.dest)
           nbr == [pairs |-> {[ip |-> NoIP, mac |-> x.dest, channel |-> Channel(u, x.iface)]},
                   vq |-> <<e>>]
           v == [u EXCEPT !.nbrs = AddNeighbor(@, nbr)]
           w == AddVirtualQueueEntry(u, pos, e)
<1>1. s \in Typed(me, X) /\ s.queue \in Bounded(Entry)
  BY Fields DEF Good
<1>2. x.id \in Pid /\ x.dest \in Nat /\ x.iface \in Nat \ {0}
  BY DEF Sendable, IPSend
<1>3. e \in Entry /\ ~HitMax(e)
  BY <1>2 DEF Entry, MaxRetry, HitMax
<1>4. Queued(s, x) = IF ~Accepts(s.queue, e) THEN s
                     ELSE IF x.dest = Broadcast THEN u
                     ELSE IF pos = 0 THEN v
                     ELSE w
  BY <1>1 DEF Queued, AddVirtual, Typed, IState
<1> HIDE DEF e
<1>5. q \in Bounded(Entry) /\ Range(s.queue) \subseteq Range(q)
      /\ Range(q) \subseteq Range(s.queue) \union {e}
  BY <1>1, <1>3, EnqueueBackBounded, WaitingEnqueue
<1> HIDE DEF q
<1>6. a \in Good(me, X)
  BY <1>5, UpdateGood
<1>7. u \in Typed(me, X)
  <2> HIDE DEF a
  <2> QED BY <1>2, <1>6, PoolGrows DEF Good
<1>8. /\ u.macq = s.macq /\ u.info = s.info /\ u.recps = s.recps /\ u.acks = s.acks
      /\ u.pool = s.pool \union {x.id} /\ u.queue = q /\ u.rtqueue = s.rtqueue
      /\ u.abort = s.abort
  BY <1>1 DEF Typed, IState
<1> HIDE DEF u, nbr
<1>9. ASSUME NEW t, Relearned(u, t) PROVE Prepares({x.id}, {}, s, t)
  BY <1>3, <1>5, <1>8, <1>9 DEF Prepares, Relearned, SameMemory, Running
<1>10. Relearned(u, u)
  BY DEF Relearned, SameMemory
<1>11. Relearned(u, v)
  BY <1>7 DEF Relearned, SameMemory, Typed, IState, Running
<1>12. pos # 0 => Relearned(u, w)
  <2>1. pos # 0 => pos \in DOMAIN u.nbrs
    BY <1>7, Fields, SearchMacProperties
  <2> HIDE DEF pos
  <2> QED BY <1>3, <1>7, <2>1, VirtualEntryMemory DEF Relearned
<1>13. Prepares({x.id}, {}, s, s)
  BY DEF Prepares
<1> HIDE DEF v, w, pos
<1> QED BY <1>4, <1>9, <1>10, <1>11, <1>12, <1>13

\* The packet that waited longest returns to the output queue.
LEMMA RetriedPrepares ==
  ASSUME NEW me \in Node, NEW X, NEW s \in Good(me, X), Tied(s), s.rtqueue # <<>>
  PROVE  Prepares({}, {Head(s.rtqueue).id}, s, Retried(s))
<1> DEFINE h == Head(s.rtqueue)
           e == Retry(h)
           rt == Tail(s.rtqueue)
           q == EnqueueFront(s.queue, e)
           a == [s EXCEPT !.rtqueue = rt]
           b == [a EXCEPT !.queue = q]
           u == [b EXCEPT !.timer = "running"]
           pos == SearchMac(s.nbrs, e.dest)
           lost == Abort(u, "NeighborLost")
           w == AddVirtualQueueEntryFront(u, pos, e)
<1>1. /\ s \in Typed(me, X) /\ s.rtqueue \in Bounded(RtEntry) /\ s.queue \in Bounded(Entry)
      /\ s.nbrs \in Seq(Neighbor)
  BY Fields DEF Good
<1>2. Retried(s) = IF ~Accepts(s.queue, e) THEN u ELSE IF pos = 0 THEN lost ELSE w
  BY <1>1 DEF Retried, Typed, IState
<1>3. /\ h \in RtEntry /\ h \in Range(s.rtqueue) /\ rt \in Bounded(RtEntry)
      /\ Range(rt) = Range(s.rtqueue) \ {h}
  <2>1. s.rtqueue \in Seq(RtEntry) /\ Distinct(s.rtqueue)
    BY <1>1 DEF Bounded
  <2>2. Range(rt) = Range(s.rtqueue) \ {h} /\ h \in RtEntry /\ h \in Range(s.rtqueue)
    BY <2>1, TailRange
  <2> QED BY <1>1, <2>2, TailBounded
<1>4. e \in Entry
  BY <1>3 DEF Retry, RtEntry, Entry, MaxRetry
<1> HIDE DEF h
<1>5. Ids(s.rtqueue) \subseteq Ids(rt) \union {h.id}
  BY <1>3, IdsOfRange
<1>6. \E x \in Range(s.rtqueue) : e = Retry(x)
  BY <1>3
<1> HIDE DEF e
<1>7. q \in Bounded(Entry) /\ Range(s.queue) \subseteq Range(q)
      /\ Range(q) \subseteq Range(s.queue) \union {e}
  BY <1>1, <1>4, EnqueueFrontBounded, WaitingEnqueue
<1>8. /\ u.nbrs = s.nbrs /\ u.queue = q /\ u.rtqueue = rt /\ u.abort = s.abort
      /\ SameMemory(s, u)
  BY <1>1 DEF Typed, IState, SameMemory
<1> HIDE DEF q, rt
<1>9. u \in Typed(me, X)
  <2>1. a \in Typed(me, X)
    BY <1>1, <1>3, UpdateTyped
  <2> HIDE DEF a
  <2>2. b \in Typed(me, X)
    BY <1>7, <2>1, UpdateTyped
  <2> HIDE DEF b
  <2> QED BY <2>2, UpdateTyped DEF Timer
<1> HIDE DEF u
<1>10. ASSUME NEW t, Relearned(u, t) PROVE Prepares({}, {h.id}, s, t)
  BY <1>3, <1>5, <1>6, <1>7, <1>8, <1>10 DEF Prepares, Relearned, SameMemory, Running
<1>11. Relearned(u, u)
  BY DEF Relearned, SameMemory
<1>12. Relearned(u, lost)
  BY <1>9, RelearnedBy DEF Aborts
<1>13. pos # 0 => Relearned(u, w)
  <2>1. pos # 0 => pos \in DOMAIN u.nbrs
    BY <1>1, <1>8, SearchMacProperties
  <2> HIDE DEF pos
  <2> QED BY <1>4, <1>9, <2>1, VirtualEntryMemory DEF Relearned
<1> HIDE DEF lost, w, pos
<1> QED BY <1>2, <1>10, <1>11, <1>12, <1>13 DEF h

\* The packets that f acknowledges to the node me.
Acked(me, f) == {a.pid : a \in {k \in Range(f.acks) : k.ip = NodeIP(me)}}

\* A header: only what is acknowledged ceases to wait.
LEMMA HeaderPrepares ==
  ASSUME NEW me \in Node, NEW s \in Good(me, {}), Running(s), NEW d \in Devices(me),
         NEW f \in Frame
  PROVE  Prepares({}, Acked(me, f), s, RecvHeader(s, d, f))
<1> DEFINE ip == NodeIP(f.from)
           u == SMNeighbors(s, ip, f.src, Channel(s, d))
           mac == GetMac(u.nbrs[SearchIP(u.nbrs, ip)])
           pids == {a.pid : a \in Range(f.acks)} \union f.reports
           v == EraseAcked(u, f)
           r == SetItems(v, pids, mac)
<1>1. s \in Typed(me, {}) /\ s \in IState(me) /\ s.me = me /\ s.nbrs \in Seq(Neighbor)
  BY Fields DEF Good, Typed
<1>2. ip \in Nat /\ f.src \in Nat \ {0} /\ Channel(s, d) \in Nat
  <2>1. RadiosOf[me] \in Seq(Trinity) /\ d \in 1..Len(RadiosOf[me])
    BY RadiosAssumption DEF Devices
  <2>2. RadiosOf[me][d] \in Trinity
    BY <2>1
  <2> QED BY <1>1, <2>2, FrameFields, NodeIPType DEF Channel, Trinity
<1>3. s = [x \in DOMAIN s |-> s[x]] /\ "nbrs" \in DOMAIN s
  BY <1>1 DEF IState
<1>4. RecvHeader(s, d, f) = IF Running(u) THEN r ELSE u
  BY DEF RecvHeader
<1> HIDE DEF ip, pids
<1>5. \/ \E n \in Seq(Neighbor) : u = [s EXCEPT !.nbrs = n]
      \/ \E a \in {"DuplicateVirtual", "NewNeighbor"} : u = Abort(s, a)
  BY <1>1, <1>2, <1>3, SMNeighborsResult
<1> HIDE DEF u
<1>6. Relearned(s, u) /\ u \in Good(me, {})
  <2>1. \/ \E n \in Seq(Neighbor) : u = [s EXCEPT !.nbrs = n]
        \/ \E a \in Aborts : a # "none" /\ u = Abort(s, a)
    BY <1>5 DEF Aborts
  <2> QED BY <1>1, <2>1, RelearnedBy, UpdateGood, AbortGood
<1>7. CASE ~Running(u)
  BY <1>4, <1>6, <1>7 DEF Prepares, Relearned, SameMemory
<1>8. CASE Running(u)
  <2>1. u \in Typed(me, {})
    BY <1>6 DEF Good
  <2>2. PICK q \in Bounded(RtEntry) :
           /\ v = [u EXCEPT !.rtqueue = q]
           /\ Range(q) \subseteq Range(u.rtqueue)
           /\ \A e \in Range(u.rtqueue) : e \in Range(q) \/ \E i \in 1..Len(f.acks) :
                f.acks[i].ip = NodeIP(me) /\ f.acks[i].pid = e.id
    BY <2>1, EraseAckedResult
  <2>3. /\ r.macq = u.macq /\ r.recps = u.recps /\ r.acks = u.acks /\ r.pool = u.pool
        /\ r.queue = u.queue /\ r.rtqueue = q /\ r.abort = u.abort
        /\ u.info \subseteq r.info
    BY <2>1, <2>2 DEF SetItems, Typed, IState
  <2> HIDE DEF r
  <2>4. \A e \in Range(u.rtqueue) : e \in Range(q) \/ e.id \in Acked(me, f)
    <3>1. f.acks \in Seq(Ack)
      BY FrameFields
    <3>2. \A i \in 1..Len(f.acks) : f.acks[i] \in Range(f.acks)
      BY <3>1 DEF Range
    <3> QED BY <2>2, <3>2 DEF Acked
  <2>5. Ids(u.rtqueue) \subseteq Ids(r.rtqueue) \union Acked(me, f)
    BY <2>3, <2>4, IdsOfRange
  <2> QED BY <1>4, <1>6, <1>8, <2>2, <2>3, <2>5 DEF Prepares, Relearned, SameMemory, Running
<1> QED BY <1>7, <1>8

-------------------------------------------------------------------------------
(* The handlers                                                            *)

\* IP sends a packet.
LEMMA EnqueueDataServes ==
  ASSUME NEW me \in Node, NEW X, NEW s \in Good(me, X), Tied(s), NEW x \in Sendable(me),
         NEW I, x.id \in I, NEW C
  PROVE  Serves(me, I, {}, C, s, EnqueueData(s, x))
<1> DEFINE u == Queued(s, x)
           t == TrySend(u)
<1>1. Keeps(s, u) /\ u \in Good(me, X) /\ EnqueueData(s, x) = t
  BY QueuedKeeps
<1>2. Prepares({x.id}, {}, s, u)
  BY QueuedPrepares
<1> HIDE DEF u
<1>3. Prepares(I, {}, s, u)
  BY <1>2 DEF Prepares
<1>4. u.nbrs \in Seq(Neighbor) /\ Sends(me, Range(u.queue), u, t)
  BY <1>1, TrySendSends, Fields DEF Keeps, Good
<1> HIDE DEF t
<1>5. C /\ WellConfigured /\ Whole(s) => Whole(u)
  BY <1>1 DEF Keeps
<1> QED BY <1>1, <1>3, <1>4, <1>5 DEF Serves

\* What has waited longest for its acknowledgment.
Oldest(s) == {Head(s.rtqueue).id : pid \in Ids(s.rtqueue)}

\* The timer expires.
LEMMA RetransmitServes ==
  ASSUME NEW me \in Node, NEW X, NEW s \in Good(me, X), Tied(s), NEW C
  PROVE  Serves(me, {}, Oldest(s), C, s, Retransmit(s))
<1>1. s \in Typed(me, X) /\ s.nbrs \in Seq(Neighbor) /\ s.rtqueue \in Seq(RtEntry)
  BY Fields DEF Good
<1>2. CASE s.rtqueue = <<>>
  <2> DEFINE r == [s EXCEPT !.timer = "idle"]
  <2>1. Retransmit(s) = r /\ Keeps(s, r)
    BY <1>2, RetransmitKeeps DEF Retransmit
  <2>2. SameMemory(s, r) /\ r.nbrs = s.nbrs /\ r.queue = s.queue /\ r.rtqueue = s.rtqueue
        /\ r.abort = s.abort
    BY <1>1 DEF SameMemory, Typed, IState
  <2> HIDE DEF r
  <2>3. Sends(me, Range(s.queue), s, r)
    BY <1>1, <2>1, <2>2, UnmovedSends DEF SameMemory, Running
  <2> QED BY <1>1, <2>1, <2>3, SendsServes
<1>3. CASE s.rtqueue # <<>>
  <2> DEFINE u == Retried(s)
             t == TrySend(u)
             B == {Head(s.rtqueue).id}
  <2>1. Keeps(s, u) /\ u \in Good(me, X) /\ Retransmit(s) = t
    BY <1>3, RetriedKeeps
  <2>2. Prepares({}, B, s, u)
    BY <1>3, RetriedPrepares
  <2> HIDE DEF u
  <2>3. B \subseteq Oldest(s)
    <3>1. Head(s.rtqueue).id \in Ids(s.rtqueue)
      BY <1>1, <1>3, TailRange, IdsOfRange DEF Good, Typed, IState, Bounded
    <3> QED BY <3>1 DEF Oldest
  <2> HIDE DEF B
  <2>4. Prepares({}, Oldest(s), s, u)
    BY <2>2, <2>3 DEF Prepares
  <2>5. u.nbrs \in Seq(Neighbor) /\ Sends(me, Range(u.queue), u, t)
    BY <2>1, TrySendSends, Fields DEF Keeps, Good
  <2> HIDE DEF t
  <2>6. C /\ WellConfigured /\ Whole(s) => Whole(u)
    BY <2>1 DEF Keeps
  <2> QED BY <2>1, <2>4, <2>5, <2>6 DEF Serves
<1> QED BY <1>2, <1>3

\* A node that stops over a frame sends nothing.
LEMMA GarbledServes ==
  ASSUME NEW me \in Node, NEW X, NEW s \in Typed(me, X), Tied(s), NEW where \in Garbled,
         NEW I, NEW C
  PROVE  Serves(me, I, {}, C, s, Abort(s, where))
<1> DEFINE a == Abort(s, where)
<1>1. Holds(s, a)
  BY GarbledHolds
<1>2. a \in Typed(me, X)
  BY AbortGood DEF Garbled, Aborts, Good
<1>3. Relearned(s, a)
  BY RelearnedBy DEF Garbled, Aborts
<1> HIDE DEF a
<1>4. Prepares(I, {}, s, a)
  BY <1>3 DEF Relearned, SameMemory, Prepares
<1>5. Sends(me, Range(a.queue), a, a) /\ a.nbrs \in Seq(Neighbor)
  BY <1>1, <1>2, StutterSends, Fields DEF Holds
<1>6. C /\ WellConfigured /\ Whole(s) => Whole(a)
  BY <1>1 DEF Holds
<1>7. Serves(me, I, {}, C, s, a)
  BY <1>4, <1>5, <1>6 DEF Serves
<1> QED BY <1>7 DEF a

\* IP is given a packet, and may send one at once.
LEMMA ForwardUpServes ==
  ASSUME NEW me \in Node, NEW X, NEW s \in Good(me, X), Tied(s), NEW d, NEW f,
         NEW sends \in Sendable(me) \union {NoSend}, NEW I, sends # NoSend => sends.id \in I,
         NEW C
  PROVE  Serves(me, I, {}, C, s, ForwardUp(s, d, f, sends))
<1>1. s.nbrs \in Seq(Neighbor) /\ Sends(me, Range(s.queue), s, s)
  BY StutterSends, Fields DEF Good
<1>2. Serves(me, I, {}, C, s, s)
  BY <1>1, SendsServes
<1>3. sends # NoSend => Serves(me, I, {}, C, s, EnqueueData(s, sends))
  BY EnqueueDataServes
<1> QED BY <1>2, <1>3 DEF ForwardUp

\* Then it holds the packet.
LEMMA ForwardUpHoldServes ==
  ASSUME NEW me \in Node, NEW X, NEW s \in Good(me, X), Tied(s), NEW d, NEW f,
         NEW sends \in Sendable(me) \union {NoSend}, NEW I, sends # NoSend => sends.id \in I,
         NEW C, NEW pid \in Pid, NEW mac
  PROVE  Serves(me, I, {}, C, s, Hold(ForwardUp(s, d, f, sends), pid, mac))
<1> DEFINE u == ForwardUp(s, d, f, sends)
<1>1. Serves(me, I, {}, C, s, u) /\ u \in Good(me, X)
  BY ForwardUpServes, ForwardUpGood
<1>2. Tied(u)
  <2>1. sends # NoSend => Keeps(s, EnqueueData(s, sends))
    BY EnqueueDataKeeps
  <2> QED BY <2>1 DEF ForwardUp, Keeps
<1> HIDE DEF u
<1>3. Sends(me, Range(u.queue), u, Hold(u, pid, mac))
  BY <1>1, <1>2, HoldSends DEF Good
<1>4. Serves(me, I, {}, C, s, Hold(u, pid, mac))
  BY <1>1, <1>3, ServesSends
<1> QED BY <1>4 DEF u

\* A coded frame.
LEMMA RecvCodedServes ==
  ASSUME NEW me \in Node, NEW s \in Good(me, {}), Tied(s), NEW d, NEW f \in Frame,
         NEW mac \in Nat, NEW sends \in Sendable(me) \union {NoSend}, NEW I,
         sends # NoSend => sends.id \in I, NEW C
  PROVE  Serves(me, I, {}, C, s, RecvCoded(s, d, f, mac, sends))
<1> DEFINE pid == NativeForMe(s, f)
           h == Hash(Decoded(s, f))
           u == AddAck(s, NodeIP(f.from), pid)
           t == Hold(ForwardUp(u, d, f, sends), pid, mac)
<1>1. s \in Typed(me, {}) /\ s.nbrs \in Seq(Neighbor)
  BY Fields DEF Good
<1>2. RecvCoded(s, d, f, mac, sends) =
        IF Cardinality(Missing(s, f)) # 1 THEN s
        ELSE IF \E x \in f.natives : x.mac = Broadcast THEN Abort(s, "BroadcastCoded")
        ELSE IF ~AmINext(s, f) THEN Hold(s, h, mac)
        ELSE IF pid \notin Missing(s, f) THEN Abort(s, "DecodedOther")
        ELSE IF pid # h THEN Abort(s, "DecodedHash")
        ELSE t
  BY DEF RecvCoded
<1>3. ASSUME NEW where \in {"BroadcastCoded", "DecodedOther", "DecodedHash"}
      PROVE  Serves(me, I, {}, C, s, Abort(s, where))
  BY <1>1, GarbledServes DEF Garbled
<1>4. h \in Pid
  BY HashType
<1> HIDE DEF h
<1>5. Serves(me, I, {}, C, s, s) /\ Serves(me, I, {}, C, s, Hold(s, h, mac))
  <2>1. Sends(me, Range(s.queue), s, s) /\ Sends(me, Range(s.queue), s, Hold(s, h, mac))
    BY <1>1, <1>4, StutterSends, HoldSends
  <2> QED BY <1>1, <2>1, SendsServes
<1>6. ASSUME AmINext(s, f) PROVE Serves(me, I, {}, C, s, t)
  <2>1. pid \in Pid
    BY <1>1, <1>6, NativeForMeType
  <2> HIDE DEF pid
  <2>2. u \in Good(me, {pid})
    BY <2>1, FrameFields, NodeIPType, AddAckGood
  <2>3. /\ u.macq = s.macq /\ u.info = s.info /\ u.recps = s.recps /\ u.pool = s.pool
        /\ u.queue = s.queue /\ u.rtqueue = s.rtqueue /\ u.nbrs = s.nbrs
        /\ u.abort = s.abort /\ u.acks = Append(s.acks, [ip |-> NodeIP(f.from), pid |-> pid])
    BY <1>1 DEF AddAck, Typed, IState
  <2> HIDE DEF u
  <2>4. Range(s.acks) \subseteq Range(u.acks)
    <3> DEFINE k == [ip |-> NodeIP(f.from), pid |-> pid]
    <3>1. k \in Ack
      BY <2>1, FrameFields, NodeIPType DEF Ack
    <3>2. s.acks \in Seq(Ack) /\ u.acks = Append(s.acks, k)
      BY <1>1, <2>3, Fields
    <3> HIDE DEF k
    <3> QED BY <3>1, <3>2, AppendRange
  <2>5. Prepares(I, {}, s, u)
    BY <2>3, <2>4 DEF Prepares, Running
  <2>6. Keeps(s, u)
    BY <2>3, SameKeeps DEF Same
  <2>7. Serves(me, I, {}, C, u, t)
    BY <2>1, <2>2, <2>6, ForwardUpHoldServes DEF Keeps
  <2>8. C /\ WellConfigured /\ Whole(s) => Whole(u)
    BY <2>6 DEF Keeps
  <2> HIDE DEF t
  <2>9. Serves(me, I, {} \union {}, C, s, t)
    BY <2>5, <2>7, <2>8, PreparesServes
  <2> QED BY <2>9
<1> HIDE DEF t, pid
<1> QED BY <1>2, <1>3, <1>5, <1>6

\* A plain frame.
LEMMA RecvPlainServes ==
  ASSUME NEW me \in Node, NEW s \in Good(me, {}), Tied(s), NEW d, NEW f \in Frame,
         NEW mac \in Nat, NEW sends \in Sendable(me) \union {NoSend}, NEW I,
         sends # NoSend => sends.id \in I, NEW C
  PROVE  Serves(me, I, {}, C, s, RecvPlain(s, d, f, mac, sends))
<1> DEFINE pid == NativeForMe(s, f)
           h == Hash(f.payload)
           u == ForwardUp(s, d, f, sends)
           t == Hold(u, pid, mac)
<1>1. s \in Typed(me, {}) /\ s.nbrs \in Seq(Neighbor)
  BY Fields DEF Good
<1>2. RecvPlain(s, d, f, mac, sends) =
        IF \E x \in f.natives : x.mac = Broadcast THEN u
        ELSE IF ~AmINext(s, f) THEN Hold(s, h, mac)
        ELSE IF pid # h THEN Abort(s, "PlainHash")
        ELSE t
  BY DEF RecvPlain
<1>3. Serves(me, I, {}, C, s, Abort(s, "PlainHash"))
  BY <1>1, GarbledServes DEF Garbled
<1>4. h \in Pid
  BY HashType
<1> HIDE DEF h
<1>5. Serves(me, I, {}, C, s, Hold(s, h, mac))
  <2>1. Sends(me, Range(s.queue), s, Hold(s, h, mac))
    BY <1>1, <1>4, HoldSends
  <2> QED BY <1>1, <2>1, SendsServes
<1>6. Serves(me, I, {}, C, s, u)
  BY ForwardUpServes
<1>7. ASSUME AmINext(s, f) PROVE Serves(me, I, {}, C, s, t)
  <2>1. pid \in Pid
    BY <1>1, <1>7, NativeForMeType
  <2> HIDE DEF pid
  <2> QED BY <2>1, ForwardUpHoldServes
<1> HIDE DEF t, u, pid
<1> QED BY <1>2, <1>3, <1>5, <1>6, <1>7

\* A data frame.
LEMMA RecvDataServes ==
  ASSUME NEW me \in Node, NEW s \in Good(me, {}), Running(s), Tied(s), NEW d \in Devices(me),
         NEW f \in Frame, NEW sends \in Sendable(me) \union {NoSend}, NEW I,
         sends # NoSend => sends.id \in I
  PROVE  Serves(me, I, Acked(me, f), f.src \in Macs(f.from), s, RecvData(s, d, f, sends))
<1> DEFINE u == RecvHeader(s, d, f)
           mac == GetMac(u.nbrs[SearchIP(u.nbrs, NodeIP(f.from))])
           v == IF Coded(f) THEN RecvCoded(u, d, f, mac, sends)
                ELSE RecvPlain(u, d, f, mac, sends)
           t == TrySend(v)
           C == f.src \in Macs(f.from)
           A == Acked(me, f)
<1>1. /\ u \in Good(me, {}) /\ Running(u) /\ mac \in Nat /\ Tied(u)
      /\ C => Keeps(s, u)
  BY RecvHeaderGood, RecvHeaderKeeps
<1>2. RecvData(s, d, f, sends) = t
  BY <1>1 DEF RecvData
<1>3. Prepares({}, A, s, u)
  BY HeaderPrepares
<1> HIDE DEF u, mac, C, A
<1>4. v \in Good(me, {}) /\ Tied(v) /\ Serves(me, I, {}, C, u, v)
  <2>1. v \in Good(me, {}) /\ Holds(u, v)
    BY <1>1, RecvCodedGood, RecvPlainGood, RecvCodedKeeps, RecvPlainKeeps
  <2>2. Serves(me, I, {}, C, u, v)
    BY <1>1, RecvCodedServes, RecvPlainServes
  <2> QED BY <2>1, <2>2 DEF Holds
<1> HIDE DEF v
<1>5. Sends(me, Range(v.queue), v, t)
  BY <1>4, TrySendSends
<1> HIDE DEF t
<1>6. Serves(me, I, {}, C, u, t)
  BY <1>4, <1>5, ServesSends
<1>7. Prepares(I, A, s, u)
  BY <1>3 DEF Prepares
<1>8. C /\ WellConfigured /\ Whole(s) => Whole(u)
  BY <1>1 DEF Keeps
<1>9. Serves(me, I, A \union {}, C, s, t)
  BY <1>6, <1>7, <1>8, PreparesServes
<1>10. A \union {} = A
  OBVIOUS
<1> QED BY <1>2, <1>9, <1>10 DEF A, C

\* Every frame.
LEMMA RecvServes ==
  ASSUME NEW me \in Node, NEW s \in Good(me, {}), Running(s), Tied(s), NEW d \in Devices(me),
         NEW f \in Frame, NEW sends \in Sendable(me) \union {NoSend}, NEW I,
         sends # NoSend => sends.id \in I
  PROVE  Serves(me, I, Acked(me, f), f.src \in Macs(f.from), s, Recv(s, d, f, sends))
<1> DEFINE u == NeighborLearn(s, RadiosOf[f.from])
           t == TrySend(u)
           W == Waiting(s.queue)
           C == f.src \in Macs(f.from)
           A == Acked(me, f)
<1>1. Recv(s, d, f, sends) = IF f.src \in Macs(s.me) THEN s
                             ELSE IF f.hello THEN t
                             ELSE IF ForOtherRadio(s, d, f) THEN s
                             ELSE RecvData(s, d, f, sends)
  BY DEF Recv
<1>2. s \in Typed(me, {}) /\ s.nbrs \in Seq(Neighbor) /\ Linked(s.nbrs, W)
  BY Fields DEF Good, Tied
<1>3. PICK n \in Seq(Neighbor) :
        /\ u = [s EXCEPT !.nbrs = n]
        /\ Linked(n, W)
        /\ \A M : WellConfigured /\ Complete(s.nbrs, W, M) => Complete(n, W, M)
  <2> HIDE DEF W
  <2>1. f.from \in Node
    BY FrameFields
  <2> QED BY <1>2, <2>1, NeighborLearnTaught
<1> HIDE DEF u
<1>4. u \in Good(me, {})
  BY <1>3, UpdateGood
<1>5. Relearned(s, u)
  BY <1>2, <1>3, RelearnedBy
<1>6. u.nbrs = n /\ u.abort = s.abort
  BY <1>2, <1>3 DEF Typed, IState
<1>7. Tied(u)
  BY <1>3, <1>5, <1>6 DEF Tied, Relearned
<1>8. WellConfigured /\ Whole(s) => Whole(u)
  BY <1>3, <1>5, <1>6 DEF Whole, Awaited, Relearned
<1>9. Sends(me, Range(u.queue), u, t)
  BY <1>4, <1>7, TrySendSends
<1> HIDE DEF t, A, C
<1>10. Serves(me, I, A, C, s, t)
  <2>1. Prepares(I, A, s, u)
    BY <1>5 DEF Relearned, SameMemory, Prepares
  <2> QED BY <1>6, <1>8, <1>9, <2>1 DEF Serves
<1>11. Serves(me, I, A, C, s, s)
  <2>1. Sends(me, Range(s.queue), s, s)
    BY <1>2, StutterSends
  <2> QED BY <1>2, <2>1, SendsServes
<1> QED BY <1>1, <1>10, <1>11, RecvDataServes DEF A, C

-------------------------------------------------------------------------------
(* What a handler does, from its first state to its last                   *)

\* Besides by sending, an entry of the retransmission queue may use up its
\* retries when the timer moves it back.
SecuredFrom(s, r, pid) ==
  \/ pid \in Ids(r.rtqueue)
  \/ Len(r.rtqueue) = QueueMax
  \/ \E e \in Range(s.queue) : e.id = pid /\ HitMax(e)
  \/ \E e \in Range(s.rtqueue) : e.id = pid /\ HitMax(Retry(e))

\* From s to r the frames H are handed over.
Behaves(me, I, A, C, s, r, H) ==
  /\ Range(s.recps) \subseteq Range(r.recps) \union Told(H)
  /\ Range(s.acks) \subseteq Range(r.acks) \union Thanked(H)
  /\ r.pool \subseteq s.pool \union I \union Range(r.recps) \union Told(H)
  /\ Ids(s.rtqueue) \subseteq Ids(r.rtqueue) \union A
  /\ \A h \in H : Coded(h.frame) => \A x \in h.frame.natives : SecuredFrom(s, r, x.pid)
  /\ Running(r) => \A e \in Range(s.queue) : Accounted(r, H, e)
  /\ C /\ WellConfigured /\ Whole(s) => \A h \in H : Fits(me, s, r, h)

\* The preparation and the sending together.
LEMMA ServesBehaves ==
  ASSUME NEW me, NEW I, NEW A, NEW C, NEW s, NEW r, s.rtqueue \in Seq(RtEntry),
         Serves(me, I, A, C, s, r)
  PROVE  Behaves(me, I, A, C, s, r, Handed(me, s, r))
<1> DEFINE H == Handed(me, s, r)
<1>1. PICK u : /\ Prepares(I, A, s, u)
               /\ C /\ WellConfigured /\ Whole(s) => Whole(u)
               /\ Sends(me, Range(u.queue), u, r)
  BY DEF Serves
<1>2. Handed(me, u, r) = H
  BY <1>1 DEF Prepares, Handed
<1> DEFINE Q == Range(u.queue)
<1> HIDE DEF H
<1>3. /\ Reported(u, r, H) /\ Remembered(Q, u, r, H) /\ Accounts(Q, r, H)
      /\ WellConfigured /\ Whole(u) => \A h \in H : Fits(me, u, r, h)
  BY <1>1, <1>2 DEF Sends
<1>4. /\ Range(s.recps) \subseteq Range(r.recps) \union Told(H)
      /\ Range(s.acks) \subseteq Range(r.acks) \union Thanked(H)
      /\ r.pool \subseteq s.pool \union I \union Range(r.recps) \union Told(H)
  BY <1>1, <1>3 DEF Prepares, Reported
<1>5. Ids(s.rtqueue) \subseteq Ids(r.rtqueue) \union A
  BY <1>1, <1>3 DEF Prepares, Remembered
<1>6. ASSUME NEW h \in H, Coded(h.frame), NEW x \in h.frame.natives
      PROVE  SecuredFrom(s, r, x.pid)
  <2>1. Secured(Q, r, x.pid)
    BY <1>3, <1>6 DEF Remembered
  <2>2. ASSUME NEW e \in Q, e.id = x.pid, HitMax(e) PROVE SecuredFrom(s, r, x.pid)
    <3>1. CASE e \in Range(s.queue)
      BY <2>2, <3>1 DEF SecuredFrom
    <3>2. ASSUME NEW k \in Range(s.rtqueue), e = Retry(k) PROVE SecuredFrom(s, r, x.pid)
      <4>1. k \in RtEntry
        BY <3>2 DEF Range
      <4>2. e.id = k.id
        BY <3>2, <4>1 DEF Retry, RtEntry, Entry
      <4> QED BY <2>2, <3>2, <4>2 DEF SecuredFrom
    <3> QED BY <1>1, <2>2, <3>1, <3>2 DEF Prepares
  <2> QED BY <2>1, <2>2 DEF Secured, SecuredFrom
<1>7. Running(r) => \A e \in Range(s.queue) : Accounted(r, H, e)
  BY <1>1, <1>3 DEF Prepares, Accounts
<1>8. ASSUME C, WellConfigured, Whole(s), NEW h \in H PROVE Fits(me, s, r, h)
  <2>1. Fits(me, u, r, h) /\ s.info \subseteq u.info
    BY <1>1, <1>3, <1>8 DEF Prepares
  <2> QED BY <2>1 DEF Fits
<1>9. Behaves(me, I, A, C, s, r, H)
  BY <1>4, <1>5, <1>6, <1>7, <1>8 DEF Behaves
<1> QED BY <1>9 DEF H
===============================================================================
