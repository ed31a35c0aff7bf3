---------------------------- MODULE IPCopeProtocol ----------------------------
(***************************************************************************)
(* One IPCope node in an open environment: IP sends packets, frames of     *)
(* other nodes are heard, the three timers expire and the radios take      *)
(* frames out of their MAC queues, in any order.                           *)
(***************************************************************************)
EXTENDS IPCopeNode

CONSTANTS
  Me,          \* the node
  IPSends,     \* what IP may send
  Answers,     \* what IP may send at once when it is given a packet
  Heard,       \* the frames the radios of Me may hear
  HelloIds,    \* values the memory of an uninitialized m_packetId may hold; when
               \* there are none, the node does not say hello
  MaxRecps,    \* bound on m_recps, which only sending shortens
  MaxAcks      \* bound on m_ackBlockList, which only sending shortens

ASSUME MeAssumption == Me \in Node

ASSUME IPSendsAssumption ==
  /\ IPSends \subseteq IPSend
  /\ \A x \in IPSends : x.iface \in Devices(Me)
  /\ Answers \subseteq IPSends \union {NoSend}

ASSUME HeardAssumption ==
  Heard \subseteq [radio: Devices(Me), frame: Frame]

ASSUME HelloIdsAssumption == HelloIds \subseteq Pid

\* Addresses name one node, and a heard frame comes from a radio of the node
\* it is from.  Not assumed: the properties that need it say so.
Configured ==
  WellConfigured /\ \A h \in Heard : h.frame.src \in Macs(h.frame.from)

ASSUME MaxAssumption == MaxRecps \in Nat /\ MaxAcks \in Nat

VARIABLE cope    \* the state of the node

Init == cope = Init0(Me)

\* IPCopeDevice::Send.
Send(x) ==
  /\ Running(cope)
  /\ cope' = EnqueueData(cope, x)

\* What other nodes guarantee: a frame coded for this node combines its
\* packet with packets this node holds.  (They code for neighbours known to
\* hold the other natives, CodedFramesDecodable, and what they know comes
\* from truthful reports, ReportsAreHeld, and from frames they received.)
CodedForMe(s, f) ==
  Coded(f) /\ AmINext(s, f) =>
    \A x \in f.natives : x.mac \notin Macs(s.me) => x.pid \in s.pool

\* What else their frames are when they code two packets at most: the
\* payload is the sum of the natives, of which at most one is for this node,
\* and a broadcast is never coded.  Not assumed either.
HonestFrames ==
  \A h \in Heard :
    LET f == h.frame
    IN  /\ f.payload = {x.pid : x \in f.natives}
        /\ \A x, y \in f.natives : x.mac \in Macs(Me) /\ y.mac \in Macs(Me) => x = y
        /\ Coded(f) => \A x \in f.natives : x.mac # Broadcast

\* IPCopeDevice::ReceiveFromDevice; IP may answer the packet it is given.
Receive(h, sends) ==
  /\ Running(cope)
  /\ CodedForMe(cope, h.frame)
  /\ Len(cope.recps) < MaxRecps
  /\ Len(cope.acks) < MaxAcks
  /\ cope' = Recv(cope, h.radio, h.frame, sends)

HelloTimerExpire(ids) ==
  /\ Running(cope)
  /\ cope' = SendHello(cope, ids)

\* m_try expires.
Try ==
  /\ Running(cope)
  /\ cope' = TrySend(cope)

\* The time of m_timer comes; other events of that instant may run first.
TimerDue ==
  /\ Running(cope)
  /\ cope.timer = "running"
  /\ cope' = [cope EXCEPT !.timer = "due"]

TimerExpire ==
  /\ Running(cope)
  /\ cope.timer = "due"
  /\ cope' = Retransmit(cope)

\* The radio d has sent the first frame of its MAC queue.
MacSend(d) ==
  /\ Running(cope)
  /\ cope.macq[d] # <<>>
  /\ cope' = [cope EXCEPT !.macq[d] = Tail(@)]

Next ==
  \/ \E x \in IPSends : Send(x)
  \/ \E h \in Heard, sends \in Answers : Receive(h, sends)
  \/ \E ids \in [Devices(Me) -> HelloIds] : HelloTimerExpire(ids)
  \/ Try
  \/ TimerDue
  \/ TimerExpire
  \/ \E d \in Devices(Me) : MacSend(d)

Spec == Init /\ [][Next]_cope

\* A timer that is set expires and its event is executed, and the medium
\* takes the frames of every radio: weak fairness, with the enabling
\* condition of the large handlers spelled out.
Fairness ==
  /\ WF_cope(TimerDue)
  /\ []<>(~Running(cope) \/ cope.timer # "due") \/ []<><<TimerExpire>>_cope
  /\ []<>(~Running(cope) \/ TrySend(cope) = cope) \/ []<><<Try>>_cope
  /\ \A d \in Devices(Me) : WF_cope(MacSend(d))

FairSpec == Spec /\ Fairness

-------------------------------------------------------------------------------
(* Properties                                                              *)

\* The queues of the node hold at most QueueMax entries that were retried at
\* most MaxRetry times, those that wait for an acknowledgment have a retry
\* left, and every other part of the state has its type.
State ==
  [me: {Me}, queue: Seq(Entry), rtqueue: Seq(RtEntry), nbrs: Seq(Neighbor),
   info: SUBSET (Pid \X Nat), pool: SUBSET Pid, recps: Seq(Pid), acks: Seq(Ack),
   timer: Timer, macq: [Devices(Me) -> Seq(Frame)], abort: Aborts]

TypeOK ==
  cope \in State /\ Len(cope.queue) <= QueueMax /\ Len(cope.rtqueue) <= QueueMax

\* No assertion and no fatal error of the code is reached, except the one
\* ns-3 raises when the retransmission timer is armed while it is due.
NoAbort == cope.abort \in {"none", "TimerPending"}

\* The neighbour a packet is coded for can be indexed by the channel the
\* coded packet is sent on.
CodingChannelIndexed == cope.abort # "IndexChannel"

\* The next hop of a queued packet stays a known neighbour until the packet
\* is sent or put back.
NextHopStaysKnown ==
  cope.abort \notin {"NeighborMissing", "NeighborGone", "NeighborLost"}

\* The raw pointers of the virtual queues are exact: for every neighbour
\* they name, once each, the unicast data entries of the output queue whose
\* next hop that neighbour is; none dangles and none is missing.
VirtualQueuesMirrorQueue ==
  Running(cope) =>
    \A i \in DOMAIN cope.nbrs :
      LET vq == cope.nbrs[i].vq
      IN  /\ IsInjective(vq)
          /\ Range(vq) = {e \in Range(cope.queue) :
                            /\ ~e.hello /\ e.dest # Broadcast
                            /\ SearchMac(cope.nbrs, e.dest) = i}

\* Even when addresses are not unique, or the node has stopped, the raw
\* pointers of the virtual queues are safe to follow: each points to a
\* queued unicast data entry, and no two point to the same one.
NoDanglingPointer ==
  \A i \in DOMAIN cope.nbrs :
    LET vq == cope.nbrs[i].vq
    IN  /\ \A e \in Range(vq) : e \in Range(cope.queue) /\ ~e.hello /\ e.dest # Broadcast
        /\ IsInjective(vq)
        /\ \A j \in DOMAIN cope.nbrs : i # j => Range(vq) \intersect Range(cope.nbrs[j].vq) = {}

\* No packet id is queued twice, in either queue, whatever the enqueueing,
\* retransmission and put-back paths do.
QueuesHaveNoDuplicates ==
  \A q \in {cope.queue, cope.rtqueue} :
    /\ Len(q) <= QueueMax
    /\ \A i, j \in DOMAIN q : q[i].id = q[j].id => i = j

\* An address belongs to one neighbour record only: hellos, data frames and
\* packets for unknown next hops never leave two records for one radio.
DirectoryDisjoint ==
  \A i, j \in DOMAIN cope.nbrs :
    i # j => ~ShareAddress(cope.nbrs[i], cope.nbrs[j])

\* Whenever a coded packet waits for its acknowledgment, the timer that
\* retransmits it is armed.
RetransmitArmed ==
  Running(cope) /\ cope.rtqueue # <<>> => cope.timer # "idle"

\* What a node reports or acknowledges, in a frame or still waiting, it can
\* decode with: neighbours code on the strength of it.
ReportsAreHeld ==
  Running(cope) =>
    /\ Range(cope.recps) \subseteq cope.pool
    /\ \A a \in Range(cope.acks) : a.pid \in cope.pool
    /\ \A d \in Devices(Me) : \A f \in Range(cope.macq[d]) :
         f.reports \subseteq cope.pool /\ \A a \in Range(f.acks) : a.pid \in cope.pool

-------------------------------------------------------------------------------
(* What a step may do.  Sent(d) are the frames it hands to radio d.        *)

Sent(d) ==
  Range(SubSeq(cope'.macq[d], Len(cope.macq[d]) + 1, Len(cope'.macq[d])))

SentNatives == UNION {f.natives : f \in UNION {Sent(d) : d \in Devices(Me)}}
SentPids == {x.pid : x \in SentNatives}

\* The record that owns a MAC after the step, and what it was known to have.
Owner(mac) == cope'.nbrs[SearchMac(cope'.nbrs, mac)]

\* A coded frame is only sent when every next hop is believed to hold all
\* the natives but its own, so that each can decode it.
CodedFramesDecodable ==
  [][\A d \in Devices(Me) : \A f \in Sent(d) : \A x, y \in f.natives :
       x # y => <<y.pid, GetMac(Owner(x.mac))>> \in cope'.info]_cope

\* A coded frame goes out on a channel on which every next hop has a radio,
\* and to the MAC address of such a radio.
CodedFramesReachAll ==
  [][\A d \in Devices(Me) : \A f \in Sent(d) : Coded(f) =>
       LET channel == RadiosOf[Me][d].channel
       IN  /\ \A x \in f.natives : channel \in GetChannels(Owner(x.mac))
           /\ \E x \in f.natives : \E t \in Owner(x.mac).pairs :
                t.mac = f.dest /\ t.channel = channel]_cope

\* The payload of a data frame is the sum of the natives its header lists:
\* a next hop that takes the natives it holds out of it is left with its own.
CodedFramesCarryNatives ==
  [][\A d \in Devices(Me) : \A f \in Sent(d) :
       f.payload = {x.pid : x \in f.natives}]_cope

\* No frame carries a packet to a next hop that was already known to hold
\* it, under the name it has after the step, not even a retransmission
\* overtaken by a report.
NothingSentTwiceInVain ==
  [][\A x \in SentNatives : x.mac # Broadcast =>
       <<x.pid, GetMac(Owner(x.mac))>> \notin cope.info]_cope

\* A data packet only leaves the output queue in a frame, or because its
\* next hop is known to hold it.
NoSilentDrop ==
  [][Running(cope') =>
       \A e \in Range(cope.queue) :
         \/ e.hello
         \/ e.id \in Ids(cope'.queue) \union SentPids
         \/ e.dest # Broadcast /\ <<e.id, GetMac(Owner(e.dest))>> \in cope'.info]_cope

\* A packet waiting for its acknowledgment leaves the retransmission queue
\* when the timer takes it, as the oldest, or when an acknowledgment for this
\* node arrives, never because of what the node overhears or sends.
OnlyAcksEndTheWait ==
  [][\A pid \in Ids(cope.rtqueue) \ Ids(cope'.rtqueue) :
       \/ TimerExpire /\ pid = Head(cope.rtqueue).id
       \/ \E h \in Heard : \E a \in Range(h.frame.acks) :
            /\ a.ip = NodeIP(Me) /\ a.pid = pid
            /\ \E sends \in Answers : Receive(h, sends)]_cope

\* The timer moves the oldest unacknowledged packet back to the output
\* queue.  Only a full output queue loses it, or an entry with its id: a
\* waiting hello whose uninitialized id happens to be the packet's, or the
\* same packet on its way to another next hop.
RetransmissionKeepsPacket ==
  [][TimerExpire /\ cope.rtqueue # <<>> /\ Running(cope') /\ Len(cope.queue) # QueueMax =>
       LET e == Head(cope.rtqueue)
       IN  \/ e.id \in Ids(cope'.queue) \union SentPids
           \/ \E x \in Range(cope.queue) : x.id = e.id /\ (x.hello \/ x.dest # e.dest)
           \/ <<e.id, GetMac(Owner(e.dest))>> \in cope'.info]_cope

\* Every native of a coded frame is remembered until it is acknowledged,
\* unless its retries are used up or the retransmission queue is full.
CodedAwaitsAck ==
  [][\A d \in Devices(Me) : \A f \in Sent(d) : Coded(f) =>
       \A x \in f.natives :
         \/ x.pid \in Ids(cope'.rtqueue)
         \/ Len(cope'.rtqueue) = QueueMax
         \/ \E e \in Range(cope.queue) : e.id = x.pid /\ HitMax(e)
         \/ \E e \in Range(cope.rtqueue) : e.id = x.pid /\ HitMax(Retry(e))]_cope

\* Reports and acknowledgments still to be sent are neither lost nor left
\* out: they leave the node's lists only in a frame.
ReportsAndAcksTravel ==
  [][LET sent == UNION {Sent(d) : d \in Devices(Me)}
     IN  /\ Range(cope.recps) \subseteq
              Range(cope'.recps) \union UNION {f.reports : f \in sent}
         /\ Range(cope.acks) \subseteq
              Range(cope'.acks) \union UNION {Range(f.acks) : f \in sent}]_cope

\* A packet that enters the decoding pool from the air is reported to the
\* neighbours: they will code on the strength of it.
WhatIsHeardIsReported ==
  [][Running(cope') =>
       \A pid \in cope'.pool \ cope.pool :
         \/ pid \in Range(cope'.recps) \union {x.id : x \in IPSends}
         \/ \E d \in Devices(Me) : \E f \in Sent(d) : pid \in f.reports]_cope

\* An unacknowledged packet does not wait forever for its retry, however
\* often other packets join the queue: unless it is gone again and again,
\* the timer serves it again and again.
RetransmitProgress ==
  \A pid \in {x.id : x \in IPSends} :
    \/ []<>(~Running(cope) \/ pid \notin Ids(cope.rtqueue))
    \/ []<><<TimerExpire /\ pid \in Ids(cope.rtqueue) /\ Head(cope.rtqueue).id = pid>>_cope

\* Once nothing new comes from IP or from the air, both queues run empty:
\* retransmission without acknowledgment ends, and neither a hello nor a
\* packet for a busy radio blocks the output queue for good.
QuietNodeRunsEmpty ==
  <>[][Try \/ TimerDue \/ TimerExpire \/ \E d \in Devices(Me) : MacSend(d)]_cope =>
    <>[](~Running(cope) \/ cope.queue \o cope.rtqueue = <<>>)
===============================================================================
