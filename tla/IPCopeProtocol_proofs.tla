------------------------- MODULE IPCopeProtocol_proofs -------------------------
(***************************************************************************)
(* What holds of one node in every environment that keeps to the           *)
(* assumptions on the constants.                                           *)
(***************************************************************************)
EXTENDS IPCopeProtocol, IPCopeSending_proofs

\* The invariant: between handlers no report is on trust.
IInv == cope \in Good(Me, {})

-------------------------------------------------------------------------------
(* The specification                                                       *)

\* A node starts in the invariant.
LEMMA InitGood == Init => IInv
<1> SUFFICES ASSUME Init PROVE IInv
  OBVIOUS
<1>1. cope = Init0(Me)
  BY DEF Init
<1>2. cope \in IState(Me)
  <2>1. <<>> \in Bounded(Entry) /\ <<>> \in Bounded(RtEntry)
    BY EmptyBounded
  <2> QED BY <1>1, <2>1 DEF Init0, IState, Timer, Aborts
<1>3. Truthful(Me, cope, cope.pool \union {}) /\ cope.rtqueue = <<>>
  BY <1>1 DEF Init0, Truthful, Range
<1> QED BY <1>2, <1>3 DEF IInv, Good, Typed, Armed

\* Every step of the node keeps the invariant.
LEMMA NextGood == IInv /\ [Next]_cope => IInv'
<1> SUFFICES ASSUME cope \in Good(Me, {}), [Next]_cope PROVE cope' \in Good(Me, {})
  BY DEF IInv
<1>1. cope \in Typed(Me, {}) /\ cope \in IState(Me)
  BY DEF Good, Typed
<1>2. ASSUME NEW x \in IPSends, Send(x) PROVE cope' \in Good(Me, {})
  <2>1. x \in Sendable(Me)
    BY IPSendsAssumption DEF Sendable
  <2> QED BY <1>2, <2>1, MeAssumption, EnqueueDataGood DEF Send
<1>3. ASSUME NEW h \in Heard, NEW sends \in Answers, Receive(h, sends)
      PROVE  cope' \in Good(Me, {})
  <2>1. h.radio \in Devices(Me) /\ h.frame \in Frame
    BY HeardAssumption
  <2>2. sends \in Sendable(Me) \union {NoSend}
    BY IPSendsAssumption DEF Sendable
  <2> QED BY <1>3, <2>1, <2>2, MeAssumption, RecvGood DEF Receive
<1>4. ASSUME NEW ids \in [Devices(Me) -> HelloIds], HelloTimerExpire(ids)
      PROVE  cope' \in Good(Me, {})
  <2>1. ids \in [Devices(Me) -> Pid]
    BY HelloIdsAssumption
  <2> QED BY <1>4, <2>1, MeAssumption, SendHelloGood DEF HelloTimerExpire
<1>5. CASE Try
  BY <1>5, MeAssumption, TrySendGood DEF Try
<1>6. CASE TimerDue
  <2>1. cope' = [cope EXCEPT !.timer = "due"] /\ cope'.timer = "due"
    BY <1>1, <1>6 DEF TimerDue, IState
  <2>2. cope' \in Typed(Me, {})
    BY <1>1, <2>1, MeAssumption, UpdateTyped DEF Timer
  <2> QED BY <2>1, <2>2 DEF Good, Armed
<1>7. CASE TimerExpire
  BY <1>7, MeAssumption, RetransmitGood DEF TimerExpire
<1>8. ASSUME NEW d \in Devices(Me), MacSend(d) PROVE cope' \in Good(Me, {})
  <2> DEFINE q == Tail(cope.macq[d])
             c == [cope EXCEPT !.macq[d] = q]
  <2>1. cope' = c
    BY <1>8 DEF MacSend
  <2>2. cope.macq \in [Devices(Me) -> Seq(Frame)] /\ cope.macq[d] \in Seq(Frame)
    BY <1>1, MeAssumption, Fields
  <2>3. q \in Seq(Frame) /\ Range(q) \subseteq Range(cope.macq[d])
    <3>1. cope.macq[d] # <<>>
      BY <1>8 DEF MacSend
    <3>2. /\ q \in Seq(Frame)
          /\ \A i \in DOMAIN q : i + 1 \in DOMAIN cope.macq[d] /\ q[i] = cope.macq[d][i + 1]
      BY <2>2, <3>1, HeadTailProperties
    <3> QED BY <3>2 DEF Range
  <2> HIDE DEF q
  <2>4. /\ c \in IState(Me) /\ c.macq = [cope.macq EXCEPT ![d] = q]
        /\ c.pool = cope.pool /\ c.recps = cope.recps /\ c.acks = cope.acks
        /\ c.rtqueue = cope.rtqueue /\ c.timer = cope.timer /\ c.abort = cope.abort
    BY <1>1, <2>2, <2>3 DEF IState
  <2> HIDE DEF c
  <2>5. ASSUME NEW e \in Devices(Me) PROVE Range(c.macq[e]) \subseteq Range(cope.macq[e])
    BY <2>2, <2>3, <2>4
  <2>6. ASSUME Truthful(Me, cope, cope.pool \union {}) PROVE Truthful(Me, c, c.pool \union {})
    BY <2>4, <2>5, <2>6 DEF Truthful
  <2>7. c \in Good(Me, {})
    BY <2>4, <2>6 DEF Good, Typed, Armed, Running
  <2> QED BY <2>1, <2>7
<1>9. CASE UNCHANGED cope
  BY <1>9
<1> QED BY <1>2, <1>3, <1>4, <1>5, <1>6, <1>7, <1>8, <1>9 DEF Next

\* IInv holds in every state of every behaviour: the queues stay typed,
\* bounded and free of duplicates, the timer stays armed while coded packets
\* wait, and nothing is reported that the node does not hold.
THEOREM Invariance == Spec => []IInv
BY InitGood, NextGood, PTL DEF Spec

\* Type correctness: in particular neither queue exceeds QueueMax, no entry is
\* retried more than MaxRetry times, and what waits for an acknowledgment has
\* a retry left.
THEOREM TypeCorrectness == Spec => []TypeOK
<1>1. IInv => TypeOK
  BY DEF IInv, Good, Typed, IState, Bounded, TypeOK, State
<1> QED BY <1>1, Invariance, PTL

\* IPCopeQueue: neither queue ever exceeds m_max or holds a packet id twice,
\* whatever Enqueue, Retransmit, Encode and the put-back of DoSend do.
THEOREM NoDuplicates == Spec => []QueuesHaveNoDuplicates
<1>1. IInv => QueuesHaveNoDuplicates
  BY DEF IInv, Good, Typed, IState, Bounded, Distinct, QueuesHaveNoDuplicates
<1> QED BY <1>1, Invariance, PTL

\* DoSendEnd and Retransmit: while coded packets wait for acknowledgments,
\* the timer that retransmits them is running or due.
THEOREM TimerArmed == Spec => []RetransmitArmed
<1>1. IInv => RetransmitArmed
  BY DEF IInv, Good, Armed, RetransmitArmed
<1> QED BY <1>1, Invariance, PTL

\* Recv: a node never reports or acknowledges a packet it cannot decode
\* with, though it may acknowledge, and even send the acknowledgment, before
\* it puts the packet into its pool.
THEOREM TruthfulReports == Spec => []ReportsAreHeld
<1>1. IInv => ReportsAreHeld
  BY DEF IInv, Good, Typed, Truthful, ReportsAreHeld
<1> QED BY <1>1, Invariance, PTL

-------------------------------------------------------------------------------
(* The virtual queues and the directory                                    *)

\* The invariant of the queues, and what it becomes when addresses name one
\* node and the frames of other nodes are honest.
QInv ==
  /\ IInv
  /\ Tied(cope)
  /\ Configured => Whole(cope)
  /\ Configured /\ HonestFrames => cope.abort \notin Garbled

\* Nothing waits and nobody is known at first.
LEMMA InitTied == Init => QInv
<1> SUFFICES ASSUME Init PROVE QInv
  OBVIOUS
<1>1. /\ cope.nbrs = <<>> /\ cope.queue = <<>> /\ cope.rtqueue = <<>>
      /\ cope.abort = "none"
  BY DEF Init, Init0
<1>2. Waiting(<<>>) = {} /\ Range(<<>>) = {} /\ DOMAIN <<>> = {}
  BY DEF Waiting, Range
<1>3. Tied(cope)
  BY <1>1, <1>2 DEF Tied, Linked, Stuck
<1>4. Whole(cope)
  BY <1>1, <1>2 DEF Whole, Complete, Awaited, Misled
<1> QED BY <1>1, <1>3, <1>4, InitGood DEF QInv, Garbled

\* No step unties them.
LEMMA NextTied == QInv /\ [Next]_cope => QInv'
<1> SUFFICES ASSUME QInv, [Next]_cope PROVE QInv'
  OBVIOUS
<1>1. cope \in Good(Me, {}) /\ cope \in Typed(Me, {}) /\ cope \in IState(Me) /\ Tied(cope)
  BY DEF QInv, IInv, Good, Typed
<1>2. IInv'
  BY NextGood DEF QInv
<1> SUFFICES /\ Tied(cope')
             /\ Configured => Holds(cope, cope')
             /\ Configured /\ HonestFrames => Keeps(cope, cope')
  BY <1>2 DEF QInv, Keeps, Holds, Configured
<1>3. ASSUME NEW x \in IPSends, Send(x) PROVE Keeps(cope, cope')
  <2>1. x \in Sendable(Me)
    BY IPSendsAssumption DEF Sendable
  <2> QED BY <1>1, <1>3, <2>1, MeAssumption, EnqueueDataKeeps DEF Send
<1>4. ASSUME NEW h \in Heard, NEW sends \in Answers, Receive(h, sends)
      PROVE  /\ Tied(cope')
             /\ Configured => Holds(cope, cope')
             /\ Configured /\ HonestFrames => Keeps(cope, cope')
  <2>1. h.radio \in Devices(Me) /\ h.frame \in Frame
    BY HeardAssumption
  <2>2. sends \in Sendable(Me) \union {NoSend}
    BY IPSendsAssumption DEF Sendable
  <2>3. Configured => h.frame.src \in Macs(h.frame.from)
    BY DEF Configured
  <2>4. /\ Running(cope) /\ cope' = Recv(cope, h.radio, h.frame, sends)
        /\ CodedForMe(cope, h.frame) /\ cope.me = Me
    BY <1>1, <1>4 DEF Receive, IState
  <2>5. HonestFrames => Readable(cope, h.frame)
    <3>1. SUFFICES ASSUME HonestFrames PROVE Readable(cope, h.frame)
      OBVIOUS
    <3>2. /\ h.frame.payload = {x.pid : x \in h.frame.natives}
          /\ \A x, y \in h.frame.natives : x.mac \in Macs(Me) /\ y.mac \in Macs(Me) => x = y
          /\ Coded(h.frame) => \A x \in h.frame.natives : x.mac # Broadcast
      BY <3>1 DEF HonestFrames
    <3>3. ASSUME Coded(h.frame), NEW x \in h.frame.natives, NEW y \in h.frame.natives,
                 x # y, x.mac \in Macs(cope.me)
          PROVE  y.pid \in cope.pool
      BY <2>4, <3>2, <3>3 DEF CodedForMe, AmINext
    <3> QED BY <3>2, <3>3 DEF Readable
  <2> QED BY <1>1, <2>1, <2>2, <2>3, <2>4, <2>5, MeAssumption, RecvKeeps
<1>5. ASSUME NEW ids \in [Devices(Me) -> HelloIds], HelloTimerExpire(ids)
      PROVE  Keeps(cope, cope')
  <2>1. ids \in [Devices(Me) -> Pid]
    BY HelloIdsAssumption
  <2> QED BY <1>1, <1>5, <2>1, MeAssumption, SendHelloKeeps DEF HelloTimerExpire
<1>6. CASE Try
  BY <1>1, <1>6, MeAssumption, TrySendKeeps DEF Try, Keeps, Holds
<1>7. CASE TimerDue
  <2>1. Same(cope, cope')
    BY <1>1, <1>7 DEF TimerDue, Same, IState
  <2> QED BY <1>1, <2>1, SameKeeps DEF Keeps, Holds
<1>8. CASE TimerExpire
  BY <1>1, <1>8, MeAssumption, RetransmitKeeps DEF TimerExpire, Keeps, Holds
<1>9. ASSUME NEW d \in Devices(Me), MacSend(d) PROVE Keeps(cope, cope')
  <2>1. Same(cope, cope')
    BY <1>1, <1>9 DEF MacSend, Same, IState
  <2> QED BY <1>1, <2>1, SameKeeps
<1>10. CASE UNCHANGED cope
  BY <1>1, <1>10 DEF Keeps, Holds
<1>11. ASSUME Keeps(cope, cope') PROVE Tied(cope') /\ Holds(cope, cope')
  BY <1>11 DEF Keeps, Holds
<1> QED BY <1>3, <1>4, <1>5, <1>6, <1>7, <1>8, <1>9, <1>10, <1>11 DEF Next

\* The queues and the directory stay tied together.
THEOREM QueueInvariance == Spec => []QInv
BY InitTied, NextTied, PTL DEF Spec

\* IPCopeNeighbors: hellos, data frames and packets for unknown next hops
\* never leave an address in two records, whatever the addresses are.
THEOREM DirectoryIsDisjoint == Spec => []DirectoryDisjoint
<1>1. QInv => DirectoryDisjoint
  BY DEF QInv, Tied, Linked, Apart, DirectoryDisjoint
<1> QED BY <1>1, QueueInvariance, PTL

\* The raw pointers of the virtual queues never dangle and are never shared:
\* AddVirtualQueueEntry, RemoveEntryFromVirtualQueue, DequeueVirtual, Merge
\* and Learn, with the put-back and the retransmission, stay in step with
\* Enqueue, Dequeue and EraseFromQueue.
THEOREM PointersNeverDangle == Spec => []NoDanglingPointer
<1>1. QInv => NoDanglingPointer
  <2> SUFFICES ASSUME QInv PROVE NoDanglingPointer
    OBVIOUS
  <2>1. Linked(cope.nbrs, Waiting(cope.queue))
    BY DEF QInv, Tied
  <2>2. ASSUME NEW i \in DOMAIN cope.nbrs
        PROVE  /\ Range(cope.nbrs[i].vq) \subseteq Waiting(cope.queue)
               /\ IsInjective(cope.nbrs[i].vq)
    BY <2>1 DEF Linked, Sound, Distinct, IsInjective
  <2>3. ASSUME NEW i \in DOMAIN cope.nbrs, NEW j \in DOMAIN cope.nbrs, i # j
        PROVE  Range(cope.nbrs[i].vq) \intersect Range(cope.nbrs[j].vq) = {}
    <3>1. Ids(cope.nbrs[i].vq) \intersect Ids(cope.nbrs[j].vq) = {}
      BY <2>1, <2>3 DEF Linked, Apart
    <3> QED BY <3>1, IdsOfRange
  <2> QED BY <2>2, <2>3 DEF NoDanglingPointer, Waiting
<1> QED BY <1>1, QueueInvariance, PTL

\* No handler puts a packet twice into a virtual queue, loses a queue entry
\* a virtual queue points to, or fails to add a neighbour that is new.
THEOREM DirectoryNeverStuck == Spec => [](cope.abort \notin Stuck)
<1>1. QInv => cope.abort \notin Stuck
  BY DEF QInv, Tied
<1> QED BY <1>1, QueueInvariance, PTL

\* When addresses name one node, the virtual queues mirror the output queue.
THEOREM MirrorsTheQueue == ASSUME Configured PROVE Spec => []VirtualQueuesMirrorQueue
<1>1. QInv => VirtualQueuesMirrorQueue
  <2> SUFFICES ASSUME QInv PROVE VirtualQueuesMirrorQueue
    OBVIOUS
  <2> DEFINE W == Waiting(cope.queue)
  <2>1. /\ Linked(cope.nbrs, W) /\ Complete(cope.nbrs, W, Awaited(cope))
        /\ cope.nbrs \in Seq(Neighbor)
    BY DEF QInv, Tied, Whole, IInv, Good, Typed, IState
  <2>2. \A mac : \A i \in DOMAIN cope.nbrs :
          SearchMac(cope.nbrs, mac) = i <=> HasMac(cope.nbrs[i], mac)
    <3>1. ASSUME NEW mac, NEW i \in DOMAIN cope.nbrs, SearchMac(cope.nbrs, mac) = i
          PROVE  HasMac(cope.nbrs[i], mac)
      <4>1. i # 0
        BY <2>1
      <4> QED BY <2>1, <3>1, <4>1, SearchMacProperties
    <3>2. ASSUME NEW mac, NEW i \in DOMAIN cope.nbrs, HasMac(cope.nbrs[i], mac)
          PROVE  SearchMac(cope.nbrs, mac) = i
      <4>1. /\ SearchMac(cope.nbrs, mac) \in DOMAIN cope.nbrs
            /\ HasMac(cope.nbrs[SearchMac(cope.nbrs, mac)], mac)
        BY <2>1, <3>2, SearchMacProperties
      <4> QED BY <2>1, <3>2, <4>1 DEF Linked, Apart, ShareAddress, HasMac
    <3> QED BY <3>1, <3>2
  <2>3. ASSUME NEW i \in DOMAIN cope.nbrs
        PROVE  /\ IsInjective(cope.nbrs[i].vq)
               /\ Range(cope.nbrs[i].vq) = {e \in W : SearchMac(cope.nbrs, e.dest) = i}
    <3>1. IsInjective(cope.nbrs[i].vq) /\ Range(cope.nbrs[i].vq) \subseteq W
      BY <2>1 DEF Linked, Sound, Distinct, IsInjective
    <3>2. \A e \in Range(cope.nbrs[i].vq) : SearchMac(cope.nbrs, e.dest) = i
      BY <2>1, <2>2 DEF Complete, Owns
    <3>3. ASSUME NEW e \in W, SearchMac(cope.nbrs, e.dest) = i
          PROVE  e \in Range(cope.nbrs[i].vq)
      <4>1. PICK j \in DOMAIN cope.nbrs : e \in Range(cope.nbrs[j].vq)
        BY <2>1 DEF Complete
      <4>2. SearchMac(cope.nbrs, e.dest) = j
        BY <2>1, <2>2, <4>1 DEF Complete, Owns
      <4> QED BY <3>3, <4>1, <4>2
    <3> QED BY <3>1, <3>2, <3>3
  <2> QED BY <2>3 DEF VirtualQueuesMirrorQueue, Waiting
<1> QED BY <1>1, QueueInvariance, PTL

\* Nor is the next hop of a packet ever forgotten before the packet is sent.
THEOREM NextHopNeverLost == ASSUME Configured PROVE Spec => []NextHopStaysKnown
<1>1. QInv => NextHopStaysKnown
  BY DEF QInv, Tied, Whole, Stuck, Misled, NextHopStaysKnown
<1> QED BY <1>1, QueueInvariance, PTL

\* No assertion and no fatal error of the code is reached but the one over
\* the due timer, in an environment of nodes that code two packets at most
\* and can all hear each other.
THEOREM NothingAborts == ASSUME Configured, HonestFrames, OneChannel PROVE Spec => []NoAbort
<1>1. QInv => NoAbort
  <2> SUFFICES ASSUME QInv PROVE NoAbort
    OBVIOUS
  <2>1. cope.abort \in Aborts
    BY DEF QInv, IInv, Good, Typed, IState
  <2>2. cope.abort \notin Stuck \union Misled \union Garbled
    BY DEF QInv, Tied, Whole
  <2>3. "IndexChannel" \in Stuck
    BY DEF Stuck
  <2> QED BY <2>1, <2>2, <2>3 DEF NoAbort, Aborts, Stuck, Misled, Garbled
<1> QED BY <1>1, QueueInvariance, PTL

\* When radios use several channels, one more can be: the neighbour a packet
\* is coded for need not be on the channel of the code.
THEOREM OnlyChannelsAbort ==
  ASSUME Configured, HonestFrames
  PROVE  Spec => [](NoAbort \/ cope.abort = "IndexChannel")
<1>1. QInv => NoAbort \/ cope.abort = "IndexChannel"
  BY DEF QInv, IInv, Good, Typed, IState, Tied, Whole, Aborts, Stuck, Misled, Garbled, NoAbort
<1> QED BY <1>1, QueueInvariance, PTL

-------------------------------------------------------------------------------
(* What a step may do                                                      *)

\* What a step does, when the packets A may cease to wait.
StepBehaves(A) ==
  Behaves(Me, {x.id : x \in IPSends}, A, Configured, cope, cope', Handed(Me, cope, cope'))

\* Behaves(I, A, C, ...) holds of a step that hands over nothing and leaves
\* the queues, the lists and the pool alone.
LEMMA IdleBehaves ==
  ASSUME NEW me \in Node, NEW X, NEW s \in Typed(me, X), NEW r, NEW I, NEW A, NEW C,
         \A d \in Devices(me) : Len(r.macq[d]) <= Len(s.macq[d]) /\ Len(r.macq[d]) \in Nat,
         r.recps = s.recps, r.acks = s.acks, r.pool = s.pool, r.queue = s.queue,
         r.rtqueue = s.rtqueue
  PROVE  Behaves(me, I, A, C, s, r, Handed(me, s, r))
<1>1. \A d \in Devices(me) : Len(s.macq[d]) \in Nat
  BY Fields
<1>2. \A m, n \in Nat : m <= n => n + 1..m = {}
  OBVIOUS
<1>3. Handed(me, s, r) = {}
  BY <1>1, <1>2 DEF Handed
<1> QED BY <1>3 DEF Behaves, Accounted

\* A weaker condition on the step makes the statement stronger.
LEMMA ServesStep ==
  ASSUME QInv, NEW A, NEW C, Configured => C,
         Serves(Me, {x.id : x \in IPSends}, A, C, cope, cope')
  PROVE  StepBehaves(A)
<1> DEFINE I == {x.id : x \in IPSends}
           H == Handed(Me, cope, cope')
<1>1. cope.rtqueue \in Seq(RtEntry)
  BY MeAssumption, Fields DEF QInv, IInv, Good
<1> HIDE DEF I
<1>2. Behaves(Me, I, A, C, cope, cope', H)
  BY <1>1, ServesBehaves DEF I
<1> HIDE DEF H
<1>3. Behaves(Me, I, A, Configured, cope, cope', H)
  BY <1>2 DEF Behaves
<1> QED BY <1>3 DEF StepBehaves, I, H

\* Every step behaves: what ceases to wait for its acknowledgment is
\* acknowledged in the frame that is received, or the timer takes it.
LEMMA NextBehaves ==
  ASSUME QInv, [Next]_cope
  PROVE  \/ StepBehaves({})
         \/ TimerExpire /\ StepBehaves(Oldest(cope))
         \/ \E h \in Heard, sends \in Answers :
              Receive(h, sends) /\ StepBehaves(Acked(Me, h.frame))
<1> DEFINE I == {x.id : x \in IPSends}
<1>1. /\ cope \in Good(Me, {}) /\ cope \in Typed(Me, {}) /\ cope \in IState(Me) /\ Tied(cope)
      /\ cope.nbrs \in Seq(Neighbor)
  BY DEF QInv, IInv, Good, Typed, IState
<1>2. ASSUME NEW x \in IPSends, Send(x) PROVE StepBehaves({})
  <2>1. x \in Sendable(Me) /\ x.id \in I
    BY IPSendsAssumption DEF Sendable
  <2> HIDE DEF I
  <2>2. Serves(Me, I, {}, TRUE, cope, cope')
    BY <1>1, <1>2, <2>1, MeAssumption, EnqueueDataServes DEF Send
  <2> QED BY <2>2, ServesStep DEF I
<1>3. ASSUME NEW h \in Heard, NEW sends \in Answers, Receive(h, sends)
      PROVE  StepBehaves(Acked(Me, h.frame))
  <2> DEFINE f == h.frame
             C == f.src \in Macs(f.from)
             A == Acked(Me, f)
  <2>1. h.radio \in Devices(Me) /\ f \in Frame
    BY HeardAssumption
  <2>2. /\ sends \in Sendable(Me) \union {NoSend}
        /\ sends # NoSend => sends.id \in I
    BY IPSendsAssumption DEF Sendable
  <2>3. Configured => C
    BY DEF Configured
  <2>4. Running(cope) /\ cope' = Recv(cope, h.radio, f, sends)
    BY <1>3 DEF Receive
  <2> HIDE DEF I, f
  <2>5. Serves(Me, I, A, C, cope, cope')
    BY <1>1, <2>1, <2>2, <2>4, MeAssumption, RecvServes
  <2> HIDE DEF A, C
  <2>6. StepBehaves(A)
    BY <2>3, <2>5, ServesStep DEF I
  <2> QED BY <2>6 DEF A, f
<1>4. ASSUME NEW ids \in [Devices(Me) -> HelloIds], HelloTimerExpire(ids)
      PROVE  StepBehaves({})
  <2>1. ids \in [Devices(Me) -> Pid]
    BY HelloIdsAssumption
  <2>2. Sends(Me, Range(cope.queue), cope, cope')
    BY <1>1, <1>4, <2>1, MeAssumption, SendHelloSends DEF HelloTimerExpire
  <2> QED BY <1>1, <2>2, SendsServes, ServesStep
<1>5. CASE Try
  <2>1. Sends(Me, Range(cope.queue), cope, cope')
    BY <1>1, <1>5, MeAssumption, TrySendSends DEF Try
  <2> QED BY <1>1, <2>1, SendsServes, ServesStep
<1>6. CASE TimerExpire
  <2> DEFINE A == Oldest(cope)
  <2>1. Serves(Me, {}, A, TRUE, cope, cope')
    BY <1>1, <1>6, MeAssumption, RetransmitServes DEF TimerExpire
  <2> HIDE DEF A
  <2>2. Serves(Me, I, A, TRUE, cope, cope')
    BY <2>1 DEF Serves, Prepares
  <2>3. StepBehaves(A)
    BY <2>2, ServesStep
  <2> QED BY <1>6, <2>3 DEF A
<1>7. \A d \in Devices(Me) : cope.macq[d] \in Seq(Frame) /\ Len(cope.macq[d]) \in Nat
  BY <1>1, MeAssumption, Fields
<1>8. ASSUME cope'.macq = cope.macq, cope'.recps = cope.recps, cope'.acks = cope.acks,
             cope'.pool = cope.pool, cope'.queue = cope.queue, cope'.rtqueue = cope.rtqueue
      PROVE  StepBehaves({})
  <2>1. \A d \in Devices(Me) : Len(cope'.macq[d]) <= Len(cope.macq[d])
                               /\ Len(cope'.macq[d]) \in Nat
    BY <1>7, <1>8
  <2> QED BY <1>1, <1>8, <2>1, MeAssumption, IdleBehaves DEF StepBehaves
<1>9. CASE TimerDue
  BY <1>1, <1>8, <1>9 DEF TimerDue, IState
<1>10. ASSUME NEW d \in Devices(Me), MacSend(d) PROVE StepBehaves({})
  <2>1. /\ cope'.recps = cope.recps /\ cope'.acks = cope.acks /\ cope'.pool = cope.pool
        /\ cope'.queue = cope.queue /\ cope'.rtqueue = cope.rtqueue
        /\ cope'.macq = [cope.macq EXCEPT ![d] = Tail(@)]
    BY <1>1, <1>10 DEF MacSend, IState
  <2>2. Len(Tail(cope.macq[d])) = Len(cope.macq[d]) - 1 /\ Len(cope.macq[d]) > 0
    BY <1>7, <1>10 DEF MacSend
  <2>3. \A e \in Devices(Me) : Len(cope'.macq[e]) <= Len(cope.macq[e])
                               /\ Len(cope'.macq[e]) \in Nat
    BY <1>1, <1>7, <2>1, <2>2 DEF IState
  <2> QED BY <1>1, <2>1, <2>3, MeAssumption, IdleBehaves DEF StepBehaves
<1>11. CASE UNCHANGED cope
  BY <1>8, <1>11
<1> QED BY <1>2, <1>3, <1>4, <1>5, <1>6, <1>9, <1>10, <1>11 DEF Next

\* The frames a step sends are those it hands over.
LEMMA SentIsHanded ==
  ASSUME QInv, QInv'
  PROVE  /\ \A d \in Devices(Me) : \A f \in Sent(d) :
              Handover(d, f) \in Handed(Me, cope, cope')
         /\ \A h \in Handed(Me, cope, cope') :
              h.radio \in Devices(Me) /\ h.frame \in Sent(h.radio)
<1>1. /\ \A d \in Devices(Me) : cope.macq[d] \in Seq(Frame) /\ cope'.macq[d] \in Seq(Frame)
      /\ \A d \in Devices(Me) : Len(cope.macq[d]) \in Nat /\ Len(cope'.macq[d]) \in Nat
  BY MeAssumption, Fields DEF QInv, IInv, Good
<1>2. ASSUME NEW d \in Devices(Me), NEW f
      PROVE  f \in Sent(d) <=> \E i \in Len(cope.macq[d]) + 1..Len(cope'.macq[d]) :
                                  f = cope'.macq[d][i]
  <2> DEFINE q == cope'.macq[d]  m == Len(cope.macq[d])  n == Len(q)
             t == SubSeq(q, m + 1, n)
  <2>1. q \in Seq(Frame) /\ m \in Nat /\ n \in Nat /\ DOMAIN q = 1..n
    BY <1>1
  <2>2. Sent(d) = Range(t)
    BY DEF Sent
  <2> HIDE DEF q, m
  <2>3. CASE m >= n
    <3>1. t = <<>>
      BY <2>1, <2>3
    <3>2. m + 1..n = {}
      BY <2>1, <2>3
    <3> HIDE DEF t, n
    <3>3. f \notin Range(t)
      BY <3>1 DEF Range
    <3>4. ~\E i \in m + 1..n : f = q[i]
      BY <3>2
    <3> QED BY <2>2, <3>3, <3>4 DEF q, m, n
  <2>4. CASE m < n
    <3>1. /\ DOMAIN t = 1..(n - m)
          /\ \A i \in 1..(n - m) : t[i] = q[m + i]
      BY <2>1, <2>4
    <3>2. \A i \in 1..(n - m) : m + i \in m + 1..n
      BY <2>1
    <3>3. \A j \in m + 1..n : j - m \in 1..(n - m) /\ m + (j - m) = j
      BY <2>1
    <3> HIDE DEF t
    <3>4. f \in Range(t) <=> \E i \in m + 1..n : f = q[i]
      BY <3>1, <3>2, <3>3 DEF Range
    <3> QED BY <2>2, <3>4 DEF q, m
  <2> QED BY <2>1, <2>3, <2>4
<1>3. ASSUME NEW d \in Devices(Me), NEW f \in Sent(d)
      PROVE  Handover(d, f) \in Handed(Me, cope, cope')
  <2>1. PICK i \in Len(cope.macq[d]) + 1..Len(cope'.macq[d]) : f = cope'.macq[d][i]
    BY <1>2
  <2>2. i \in 1..Len(cope'.macq[d])
    BY <1>1
  <2>3. f \in Frame
    BY <1>1, <2>1, <2>2
  <2> QED BY <2>1, <2>3 DEF Handed, Handover
<1>4. ASSUME NEW h \in Handed(Me, cope, cope')
      PROVE  h.radio \in Devices(Me) /\ h.frame \in Sent(h.radio)
  BY <1>2 DEF Handed
<1> QED BY <1>3, <1>4

\* Reports and acknowledgments leave the lists of the node in frames only:
\* Recv adds to them and SendingPrepared, ForwardDown and the hello take
\* from them what they send, whatever they leave for later.
THEOREM ReportsLeaveInFrames == Spec => ReportsAndAcksTravel
<1> DEFINE sent == UNION {Sent(d) : d \in Devices(Me)}
<1>1. ASSUME QInv, QInv', [Next]_cope
      PROVE  /\ Range(cope.recps) \subseteq
                  Range(cope'.recps) \union UNION {f.reports : f \in sent}
             /\ Range(cope.acks) \subseteq
                  Range(cope'.acks) \union UNION {Range(f.acks) : f \in sent}
  <2> DEFINE H == Handed(Me, cope, cope')
  <2>1. /\ Range(cope.recps) \subseteq Range(cope'.recps) \union Told(H)
        /\ Range(cope.acks) \subseteq Range(cope'.acks) \union Thanked(H)
    BY <1>1, NextBehaves DEF StepBehaves, Behaves
  <2>2. \A h \in H : h.frame \in sent
    BY <1>1, SentIsHanded
  <2> HIDE DEF H, sent
  <2>3. /\ Told(H) \subseteq UNION {f.reports : f \in sent}
        /\ Thanked(H) \subseteq UNION {Range(f.acks) : f \in sent}
    BY <2>2 DEF Told, Thanked
  <2> QED BY <2>1, <2>3
<1> QED BY <1>1, QueueInvariance, PTL DEF Spec, ReportsAndAcksTravel

\* RecvData: what the node takes into its pool from the air it reports, in
\* a frame of the same step or, at the latest, from its list.
THEOREM PoolIsReported == Spec => WhatIsHeardIsReported
<1>1. ASSUME QInv, QInv', [Next]_cope, Running(cope'), NEW pid \in cope'.pool \ cope.pool
      PROVE  \/ pid \in Range(cope'.recps) \union {x.id : x \in IPSends}
             \/ \E d \in Devices(Me) : \E f \in Sent(d) : pid \in f.reports
  <2> DEFINE H == Handed(Me, cope, cope')
             I == {x.id : x \in IPSends}
  <2>1. cope'.pool \subseteq cope.pool \union I \union Range(cope'.recps) \union Told(H)
    BY <1>1, NextBehaves DEF StepBehaves, Behaves
  <2>2. \A h \in H : h.radio \in Devices(Me) /\ h.frame \in Sent(h.radio)
    BY <1>1, SentIsHanded
  <2> HIDE DEF H, I
  <2>3. ASSUME pid \in Told(H)
        PROVE  \E d \in Devices(Me) : \E f \in Sent(d) : pid \in f.reports
    BY <2>2, <2>3 DEF Told
  <2> QED BY <1>1, <2>1, <2>3 DEF I
<1>2. QInv /\ QInv' /\ [Next]_cope =>
        (Running(cope') =>
           \A pid \in cope'.pool \ cope.pool :
             \/ pid \in Range(cope'.recps) \union {x.id : x \in IPSends}
             \/ \E d \in Devices(Me) : \E f \in Sent(d) : pid \in f.reports)
  BY <1>1
<1> QED BY <1>2, QueueInvariance, PTL DEF Spec, WhatIsHeardIsReported

\* EraseAcked and Retransmit: neither overhearing a packet, nor a report of
\* it, nor sending it again ends the wait for its acknowledgment.
THEOREM WaitEndsByAck == Spec => OnlyAcksEndTheWait
<1>1. ASSUME QInv, [Next]_cope, NEW pid \in Ids(cope.rtqueue) \ Ids(cope'.rtqueue)
      PROVE  \/ TimerExpire /\ pid = Head(cope.rtqueue).id
             \/ \E h \in Heard : \E a \in Range(h.frame.acks) :
                  /\ a.ip = NodeIP(Me) /\ a.pid = pid
                  /\ \E sends \in Answers : Receive(h, sends)
  <2>1. ASSUME NEW A, StepBehaves(A) PROVE pid \in A
    BY <1>1, <2>1 DEF StepBehaves, Behaves
  <2>2. ASSUME NEW h \in Heard, NEW sends \in Answers, Receive(h, sends),
               StepBehaves(Acked(Me, h.frame))
        PROVE  \E a \in Range(h.frame.acks) :
                  /\ a.ip = NodeIP(Me) /\ a.pid = pid
                  /\ \E n \in Answers : Receive(h, n)
    <3>1. pid \in Acked(Me, h.frame)
      BY <2>1, <2>2
    <3> QED BY <2>2, <3>1 DEF Acked
  <2>3. StepBehaves(Oldest(cope)) => pid = Head(cope.rtqueue).id
    BY <2>1 DEF Oldest
  <2> QED BY <1>1, <2>1, <2>2, <2>3, NextBehaves
<1>2. QInv /\ [Next]_cope =>
        \A pid \in Ids(cope.rtqueue) \ Ids(cope'.rtqueue) :
          \/ TimerExpire /\ pid = Head(cope.rtqueue).id
          \/ \E h \in Heard : \E a \in Range(h.frame.acks) :
               /\ a.ip = NodeIP(Me) /\ a.pid = pid
               /\ \E sends \in Answers : Receive(h, sends)
  BY <1>1
<1> QED BY <1>2, QueueInvariance, PTL DEF Spec, OnlyAcksEndTheWait

\* DoSend and Encode: a native of a coded frame is in the retransmission
\* queue when the frame is handed over, unless it has no retry left or the
\* queue is full.
THEOREM NativesAwaitAck == Spec => CodedAwaitsAck
<1>1. ASSUME QInv, QInv', [Next]_cope, NEW d \in Devices(Me), NEW f \in Sent(d), Coded(f),
             NEW x \in f.natives
      PROVE  \/ x.pid \in Ids(cope'.rtqueue)
             \/ Len(cope'.rtqueue) = QueueMax
             \/ \E e \in Range(cope.queue) : e.id = x.pid /\ HitMax(e)
             \/ \E e \in Range(cope.rtqueue) : e.id = x.pid /\ HitMax(Retry(e))
  <2>1. Handover(d, f) \in Handed(Me, cope, cope') /\ Handover(d, f).frame = f
    BY <1>1, SentIsHanded DEF Handover
  <2>2. \A h \in Handed(Me, cope, cope') :
          Coded(h.frame) => \A y \in h.frame.natives : SecuredFrom(cope, cope', y.pid)
    BY <1>1, NextBehaves DEF StepBehaves, Behaves
  <2>3. SecuredFrom(cope, cope', x.pid)
    BY <1>1, <2>1, <2>2
  <2> QED BY <2>3 DEF SecuredFrom
<1>2. QInv /\ QInv' /\ [Next]_cope =>
        \A d \in Devices(Me) : \A f \in Sent(d) : Coded(f) =>
          \A x \in f.natives :
            \/ x.pid \in Ids(cope'.rtqueue)
            \/ Len(cope'.rtqueue) = QueueMax
            \/ \E e \in Range(cope.queue) : e.id = x.pid /\ HitMax(e)
            \/ \E e \in Range(cope.rtqueue) : e.id = x.pid /\ HitMax(Retry(e))
  BY <1>1
<1> QED BY <1>2, QueueInvariance, PTL DEF Spec, CodedAwaitsAck

\* A packet leaves the output queue in a frame, or because its next hop has
\* it: no path of TrySend, SendUnicast, Encode or the put-back forgets one.
THEOREM NothingDropsSilently == Spec => NoSilentDrop
<1>1. ASSUME QInv, QInv', [Next]_cope, Running(cope'), NEW e \in Range(cope.queue)
      PROVE  \/ e.hello
             \/ e.id \in Ids(cope'.queue) \union SentPids
             \/ e.dest # Broadcast /\ <<e.id, GetMac(Owner(e.dest))>> \in cope'.info
  <2> DEFINE H == Handed(Me, cope, cope')
  <2>1. Accounted(cope', H, e)
    BY <1>1, NextBehaves DEF StepBehaves, Behaves
  <2>2. \A h \in H : h.radio \in Devices(Me) /\ h.frame \in Sent(h.radio)
    BY <1>1, SentIsHanded
  <2> HIDE DEF H
  <2>3. Carried(H) \subseteq SentPids
    BY <2>2 DEF Carried, SentPids, SentNatives
  <2>4. CASE e \in Range(cope'.queue)
    BY <2>4, IdsOfRange
  <2> QED BY <2>1, <2>3, <2>4 DEF Accounted, NameIn, OwnerIn, Owner
<1>2. QInv /\ QInv' /\ [Next]_cope =>
        (Running(cope') =>
           \A e \in Range(cope.queue) :
             \/ e.hello
             \/ e.id \in Ids(cope'.queue) \union SentPids
             \/ e.dest # Broadcast /\ <<e.id, GetMac(Owner(e.dest))>> \in cope'.info)
  BY <1>1
<1> QED BY <1>2, QueueInvariance, PTL DEF Spec, NoSilentDrop

\* The output queue after the head of the retransmission queue returned.
LEMMA RetriedQueue ==
  ASSUME NEW me \in Node, NEW X, NEW s \in Good(me, X), Tied(s), s.rtqueue # <<>>
  PROVE  LET e == Retry(Head(s.rtqueue))
         IN  /\ e \in Entry /\ ~e.hello /\ e.dest # Broadcast
             /\ e.id = Head(s.rtqueue).id /\ e.dest = Head(s.rtqueue).dest
             /\ Retried(s).queue = EnqueueFront(s.queue, e)
<1> DEFINE h == Head(s.rtqueue)
           e == Retry(h)
           u == [s EXCEPT !.rtqueue = Tail(@), !.queue = EnqueueFront(@, e), !.timer = "running"]
           q == EnqueueFront(s.queue, e)
           pos == SearchMac(s.nbrs, e.dest)
<1>1. /\ s \in IState(me) /\ s.rtqueue \in Seq(RtEntry) /\ s.nbrs \in Seq(Neighbor)
      /\ Waiting(s.rtqueue) = Range(s.rtqueue)
  BY DEF Good, Typed, IState, Bounded, Tied
<1>2. h \in RtEntry /\ h \in Range(s.rtqueue)
  <2>1. s.rtqueue[1] \in Range(s.rtqueue)
    BY <1>1 DEF Range
  <2> QED BY <1>1, <2>1
<1>3. ~h.hello /\ h.dest # Broadcast
  BY <1>1, <1>2 DEF Waiting
<1>4. e \in Entry /\ ~e.hello /\ e.dest # Broadcast /\ e.id = h.id /\ e.dest = h.dest
  BY <1>2, <1>3 DEF Retry, RtEntry, Entry, MaxRetry
<1>5. Retried(s) = IF ~Accepts(s.queue, e) THEN u
                   ELSE IF pos = 0 THEN Abort(u, "NeighborLost")
                   ELSE AddVirtualQueueEntryFront(u, pos, e)
  BY DEF Retried
<1> HIDE DEF h, e, pos
<1>6. u.queue = q
  BY <1>1 DEF IState
<1>7. Abort(u, "NeighborLost").queue = q /\ AddVirtualQueueEntryFront(u, pos, e).queue = q
  BY <1>1 DEF IState, Abort, AddVirtualQueueEntryFront
<1> HIDE DEF u, q
<1>8. Retried(s).queue = q
  BY <1>5, <1>6, <1>7
<1> QED BY <1>4, <1>8 DEF h, e, q

\* Retransmit: what returns from the retransmission queue is queued again,
\* sent, or known to have arrived, unless the output queue refuses it: it is
\* full, or it has an entry with this id for somebody else.
THEOREM RetriedIsKept == Spec => RetransmissionKeepsPacket
<1>1. ASSUME QInv, QInv', TimerExpire, cope.rtqueue # <<>>, Running(cope'),
             Len(cope.queue) # QueueMax
      PROVE  LET e == Head(cope.rtqueue)
             IN  \/ e.id \in Ids(cope'.queue) \union SentPids
                 \/ \E x \in Range(cope.queue) : x.id = e.id /\ (x.hello \/ x.dest # e.dest)
                 \/ <<e.id, GetMac(Owner(e.dest))>> \in cope'.info
  <2> DEFINE h == Head(cope.rtqueue)
             e == Retry(h)
             u == Retried(cope)
             H == Handed(Me, cope, cope')
  <2>1. cope \in Good(Me, {}) /\ Tied(cope) /\ cope.queue \in Bounded(Entry)
    BY <1>1 DEF QInv, IInv, Good, Typed, IState
  <2>2. /\ e \in Entry /\ ~e.hello /\ e.dest # Broadcast /\ e.id = h.id /\ e.dest = h.dest
        /\ u.queue = EnqueueFront(cope.queue, e)
    BY <1>1, <2>1, MeAssumption, RetriedQueue
  <2>3. u \in Good(Me, {}) /\ Tied(u) /\ cope' = TrySend(u) /\ u.macq = cope.macq
    BY <1>1, <2>1, MeAssumption, RetriedKeeps, RetriedPrepares
       DEF TimerExpire, Keeps, Prepares
  <2> HIDE DEF h, e, u
  <2>4. Sends(Me, Range(u.queue), u, cope')
    BY <2>3, MeAssumption, TrySendSends
  <2>5. Handed(Me, u, cope') = H
    BY <2>3 DEF Handed
  <2>6. \A x \in Range(u.queue) : Accounted(cope', H, x)
    BY <1>1, <2>4, <2>5 DEF Sends, Accounts
  <2>7. \A g \in H : g.radio \in Devices(Me) /\ g.frame \in Sent(g.radio)
    BY <1>1, SentIsHanded
  <2> HIDE DEF H
  <2>8. Carried(H) \subseteq SentPids
    BY <2>7 DEF Carried, SentPids, SentNatives
  <2>9. \E x \in Range(u.queue) : /\ x.id = h.id
                                  /\ x = e \/ x \in Range(cope.queue)
    <3>1. CASE Accepts(cope.queue, e)
      BY <2>1, <2>2, <3>1, WaitingEnqueue
    <3>2. CASE ~Accepts(cope.queue, e)
      <4>1. e.id \in Ids(cope.queue) /\ u.queue = cope.queue
        BY <1>1, <2>2, <3>2 DEF Accepts, EnqueueFront
      <4> QED BY <2>2, <4>1, IdsOfRange
    <3> QED BY <3>1, <3>2
  <2>10. PICK x \in Range(u.queue) : x.id = h.id /\ (x = e \/ x \in Range(cope.queue))
    BY <2>9
  <2>11. CASE x.hello \/ x.dest # h.dest
    BY <2>2, <2>10, <2>11 DEF h
  <2>12. CASE ~x.hello /\ x.dest = h.dest
    <3>1. Accounted(cope', H, x)
      BY <2>6
    <3>2. x \in Range(cope'.queue) => h.id \in Ids(cope'.queue)
      BY <2>10, IdsOfRange
    <3>3. \/ h.id \in Ids(cope'.queue) \union SentPids
          \/ <<h.id, GetMac(Owner(h.dest))>> \in cope'.info
      BY <2>8, <2>10, <2>12, <3>1, <3>2 DEF Accounted, NameIn, OwnerIn, Owner
    <3> QED BY <3>3 DEF h
  <2> QED BY <2>11, <2>12
<1>2. QInv /\ QInv' /\ [Next]_cope =>
        (TimerExpire /\ cope.rtqueue # <<>> /\ Running(cope') /\ Len(cope.queue) # QueueMax =>
           LET e == Head(cope.rtqueue)
           IN  \/ e.id \in Ids(cope'.queue) \union SentPids
               \/ \E x \in Range(cope.queue) : x.id = e.id /\ (x.hello \/ x.dest # e.dest)
               \/ <<e.id, GetMac(Owner(e.dest))>> \in cope'.info)
  BY <1>1
<1> QED BY <1>2, QueueInvariance, PTL DEF Spec, RetransmissionKeepsPacket

\* When addresses name one node, every frame is of use to its next hops.
LEMMA SentFits ==
  ASSUME Configured, QInv, QInv', [Next]_cope, NEW d \in Devices(Me), NEW f \in Sent(d)
  PROVE  Fits(Me, cope, cope', Handover(d, f))
<1>1. Handover(d, f) \in Handed(Me, cope, cope')
  BY SentIsHanded
<1>2. WellConfigured /\ Whole(cope)
  BY DEF QInv, Configured
<1> QED BY <1>1, <1>2, NextBehaves DEF StepBehaves, Behaves

\* IPCopeNeighbors::Encode: whoever a coded frame is for is believed to hold
\* every native of it but its own.
THEOREM CodesDecode == ASSUME Configured PROVE Spec => CodedFramesDecodable
<1>1. ASSUME QInv, QInv', [Next]_cope, NEW d \in Devices(Me), NEW f \in Sent(d),
             NEW x \in f.natives, NEW y \in f.natives, x # y
      PROVE  <<y.pid, GetMac(Owner(x.mac))>> \in cope'.info
  <2>1. Fits(Me, cope, cope', Handover(d, f)) /\ Handover(d, f).frame = f
    BY <1>1, SentFits DEF Handover
  <2>2. Coded(f)
    BY <1>1 DEF Coded
  <2> QED BY <1>1, <2>1, <2>2 DEF Fits, NameIn, OwnerIn, Owner
<1>2. QInv /\ QInv' /\ [Next]_cope =>
        \A d \in Devices(Me) : \A f \in Sent(d) : \A x, y \in f.natives :
          x # y => <<y.pid, GetMac(Owner(x.mac))>> \in cope'.info
  BY <1>1
<1> QED BY <1>2, QueueInvariance, PTL DEF Spec, CodedFramesDecodable

\* And can hear it: the frame goes to a radio of one of them, on a channel
\* all of them have a radio on.
THEOREM CodesReachAll == ASSUME Configured PROVE Spec => CodedFramesReachAll
<1>1. ASSUME QInv, QInv', [Next]_cope, NEW d \in Devices(Me), NEW f \in Sent(d), Coded(f)
      PROVE  LET channel == RadiosOf[Me][d].channel
             IN  /\ \A x \in f.natives : channel \in GetChannels(Owner(x.mac))
                 /\ \E x \in f.natives : \E t \in Owner(x.mac).pairs :
                      t.mac = f.dest /\ t.channel = channel
  <2>1. /\ Fits(Me, cope, cope', Handover(d, f))
        /\ Handover(d, f).frame = f /\ Handover(d, f).radio = d
    BY <1>1, SentFits DEF Handover
  <2> QED BY <1>1, <2>1 DEF Fits, OwnerIn, Owner
<1>2. QInv /\ QInv' /\ [Next]_cope =>
        \A d \in Devices(Me) : \A f \in Sent(d) : Coded(f) =>
          LET channel == RadiosOf[Me][d].channel
          IN  /\ \A x \in f.natives : channel \in GetChannels(Owner(x.mac))
              /\ \E x \in f.natives : \E t \in Owner(x.mac).pairs :
                   t.mac = f.dest /\ t.channel = channel
  BY <1>1
<1> QED BY <1>2, QueueInvariance, PTL DEF Spec, CodedFramesReachAll

\* No frame, first sent or retransmitted, coded or plain, carries a packet to
\* a next hop the node knew to hold it before the step, under the name the
\* next hop has after it.
THEOREM NothingInVain == ASSUME Configured PROVE Spec => NothingSentTwiceInVain
<1>1. ASSUME QInv, QInv', [Next]_cope, NEW x \in SentNatives, x.mac # Broadcast
      PROVE  <<x.pid, GetMac(Owner(x.mac))>> \notin cope.info
  <2>1. PICK d \in Devices(Me) : \E f \in Sent(d) : x \in f.natives
    BY <1>1 DEF SentNatives
  <2>2. PICK f \in Sent(d) : x \in f.natives
    BY <2>1
  <2>3. Fits(Me, cope, cope', Handover(d, f)) /\ Handover(d, f).frame = f
    BY <1>1, SentFits DEF Handover
  <2> QED BY <1>1, <2>2, <2>3 DEF Fits, NameIn, OwnerIn, Owner
<1>2. QInv /\ QInv' /\ [Next]_cope =>
        \A x \in SentNatives : x.mac # Broadcast =>
          <<x.pid, GetMac(Owner(x.mac))>> \notin cope.info
  BY <1>1
<1> QED BY <1>2, QueueInvariance, PTL DEF Spec, NothingSentTwiceInVain
===============================================================================
