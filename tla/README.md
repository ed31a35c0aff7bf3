# IPCope in TLA+

Murco is a network coding framework for multi-radio ad hoc networks, written as
the ns-3 module IPCope. A node sits between IPv4 and its Wi-Fi radios. It
overhears everything, remembers which neighbour holds which packet, and sends
the XOR of several packets in one frame when every next hop can take the others
out. This directory holds TLA+ modules translated from `src/IPCope`, the TLC
instances that check them and TLAPS proofs about them.

Line numbers below refer to `src/IPCope/model/IPCope-*.cc` unless a path is
given.

## 1. The system

### Components

| component | state | operations | what makes it correct |
|---|---|---|---|
| protocol engine, `IPCopeProtocol` (protocol.cc) | output queue, retransmission queue, neighbours, packet info, packet pool, reports and acknowledgments to send, three timers | `Enqueue`, `TrySend`, `DoSend`, `Encode`, `Recv`, `Decode`, `Retransmit`, `SendHello` | coded frames can be decoded by every next hop; coded packets are retried until acknowledged; reports are true; no assertion is hit |
| `IPCopeQueue` (queue.cc) | a list of entries, its limit | `EnqueueBack`, `EnqueueFront`, `Dequeue`, `Erase` | bounded, no packet id twice |
| `IPCopeNeighbors`, `IPCopeNeighbor` (neighbor.cc) | a deque of records: the radios of one neighbour, pointers into the output queue | `NeighborLearn` (hello), `SMNeighbors` (data frame), `AddNeighbor`, virtual queue operations | an address belongs to one record; virtual queues name exactly the queued packets of their neighbour |
| `IPCopeDevice` (device.cc) | the radio it covers, its channel and addresses | `Send`, `ReceiveFromDevice`, `ForwardDown`, `ForwardUp`, `IsQueueFull` | packets for IP reach IP; a full MAC queue is not sent to |
| `IPCopePacketInfo` | packet id to MACs of neighbours that hold it | `GetItem`, `SetItem` | only holds what was heard |
| `IPCopePacketPool` | packet id to packet | `AddToPool`, `Find` | holds what was reported |
| frame headers (header.cc) | natives with next hops, reports, acknowledgments; the radios of a hello | queries, serialization | every field survives the wire |
| hash (hash.cc) | none | `Hash` | the id of a packet is the same at every node |
| helper, example, test, doc | none | installation | templates, except `InstallProtocol` |

### Interaction

IP calls `IPCopeDevice::Send`, which calls `Enqueue`. A radio calls
`ReceiveFromDevice`, which calls `Recv`; `Recv` gives packets to IP through
`ForwardUp`, and IP may call `Send` inside that call. `Enqueue`, `Recv`,
`Retransmit` and the retry timer all end in `TrySend`, which sends at most one
packet through `DoSend`. ns-3 executes one event at a time, so no handler is
interrupted, but handlers nest, events of one instant are ordered by the
scheduler, and everything between nodes is asynchronous and lossy.

### What is hard

* Virtual queues are raw pointers into a `std::list` that six code paths modify.
* Neighbour records appear from three sources (hello, data frame, packet for an
  unknown next hop) and merge while packets are queued for them.
* The coding decision rests on beliefs about other nodes and narrows packets,
  next hops and channels in one loop.
* A packet leaves the queues, is coded, retried, acknowledged, reported and
  overheard, in any order.
* IP runs inside the receive handler, between the acknowledgment of a packet and
  its entry into the pool.
* Nodes rely on each other's reports, which are overheard, delayed and lost;
  acknowledgments are sent once and only with data.
* XOR and `Decode` work on bytes of packets of different lengths, of which each
  node holds its own copy.
* Queues have limits, MAC queues are busy, `m_packetId` of a hello is never
  initialized, and assertions end the simulation.

`PROJECT.json` lists each hazard at its line with the properties that cover it.

## 2. Modules

| module | models | how |
|---|---|---|
| `IPCopeTypes` | entries, records, frames, radios | records over small sets; `Abort` is `NS_ASSERT` and `NS_FATAL_ERROR` |
| `IPCopeQueue` | queue.cc | operators on sequences |
| `IPCopeNeighbor` | neighbor.cc | operators on the record of a node |
| `IPCopeNode` | protocol.cc, device.cc, packet-info.cc, packet-pool.cc | one operator per handler, from node state to node state |
| `IPCopeProtocol` | one node in an open environment | the specification: variable `cope`, actions, fairness, properties |
| `IPCopeNetwork` | several nodes, `IPCopeDevice::ForwardUp`, IP routes and the air | the specification of a network: `cope[n]` per node, the same handlers, frames that were really sent |
| `IPCopeKnowledge` | | the abstract specification: packets and beliefs spread, and are true |
| `IPCopePacket` | `XOR` (protocol.cc), `Hash` (hash.cc) | operators on sequences of bytes |
| `IPCopeHeader` | header.cc | building, writing and reading headers |
| `IPCopeDecoding` | one frame: `DoSend`, `SendHello`, `Recv`, `Decode` | the specification: bytes and fields from sender to receiver, `Decode`'s loop turn by turn |
| `IPCopeNeighbor_proofs` | | lemmas about sequences, ranges and loops; what queue and directory operators preserve |
| `IPCopeNode_proofs` | | every handler leads from good states to good states: types, bounds, reports, the timer; it keeps virtual queues, directory and queues together, and which aborts this excludes |
| `IPCopeSending_proofs` | | what a handler hands to the radios, and what it still has afterwards |
| `IPCopeProtocol_proofs` | | the theorems of one node |
| `IPCopeKnowledge_proofs` | | what spreads that way is true for good |
| `IPCopeNetwork_proofs` | | the theorems of a network: what a node sends is what it holds, so that beliefs spread and are true |
| `IPCopeCustody_proofs` | | what happens to a packet at the node that sends it on: how often the next hop gives it to IP, and that it is not lost |
| `IPCopeDecoding_proofs` | | the theorems of a frame: of two packets the missing one is recovered, headers are read as written, `Decode` counts |
| `MCBase`, `MC*` | | the instances for TLC |

The handlers are operators, and the state of a node is one record, so that
`IPCopeNetwork` holds one record per node and uses the same handlers as
`IPCopeProtocol`. The record's fields are the fields of `IPCopeProtocol`:

| field | code |
|---|---|
| `queue`, `rtqueue` | `m_queue`, `m_rtqueue` |
| `nbrs` | `m_neighbors`: `pairs` is `m_addressPairs`, `vq` is `m_virtualQueue` |
| `info`, `pool` | `m_packetInfo`, `m_pool` |
| `recps`, `acks` | `m_recps`, `m_ackBlockList` |
| `timer` | `m_timer`: idle, running, or due and not yet executed |
| `macq` | the MAC queue of each radio (ns-3) |
| `abort` | which assertion or fatal error ended the simulation |

`m_try` is armed at all times and `m_isSending` is false between handlers:
neither is state. `m_helloTimer` may expire at any time.

| action | code |
|---|---|
| `Send` | `IPCopeDevice::Send`, `Enqueue(DATA)`, `TrySend` |
| `Receive` | `ReceiveFromDevice`, `Recv`, with what IP does inside `ForwardUp` |
| `HelloTimerExpire` | `SendHello`: one `Enqueue(HELLO)` per radio, each with a `TrySend` |
| `Try` | `m_try` expires: `TrySend` |
| `TimerDue`, `TimerExpire` | the time of `m_timer` comes; `Retransmit` is executed |
| `MacSend` | a radio takes a frame out of its MAC queue |

`IPCopeNetwork` has the same events per node: `Originate` (an application sends),
`HelloTimerExpire(n, ids)`, which happens again and again with whatever ids the
entries read from memory, `Try`, `TimerDue`, `TimerExpire`, and
`MacSend(n, d, hearers)`: radio `d` of `n` sends a frame and exactly the nodes of
`hearers` receive it. They execute `Recv` in the same step. A handler touches its
own node only, so receiving at two nodes commutes, and a reception that takes
place later is one that follows the other node's events. Its other variables
record what no node knows: `given`, how often IP of a node was handed a packet;
`bypassed`, packets decoded from a frame for another radio; `todo`, the packets applications still have to send; `hellos` and `missed`, how many
hello timers expired and receptions failed.

`IPCopeDecoding` follows one frame: `SendData` or `SendHello` writes it,
`RecvData` or `RecvHello` reads it, and `Miss`, `Find`, `Exhaust` and `Return`
are the turns of `Decode`'s loop and its end.

### Abstractions

* A packet is its id. `Hash` is injective on packets; anything else, such as the
  XOR of two packets, has the id `Garbage`.
* A payload is the set of packets it is the XOR of, so `XOR` is symmetric
  difference. That keeps what `Encode` computes for three natives exactly as it
  is (line 741 combines with the first packet each time). What it rests on is in
  `IPCopeDecoding`: `Decode` decides by the number of natives missing
  (`DecodeCounts`), and with two of them the missing one is recovered
  (`TwoNativesDecode`).
* In `IPCopePacket` an IPv4 header is two bytes: the TTL, which differs from hop
  to hop, and the length of the body. `Hash` is injective on what it reads, the
  body and its padding. An XOR without a byte other than zero makes the search of
  line 827 leave its buffer; the model stops there (`"undefined"`).
* In `IPCopeHeader` a frame is a sequence of fields. Bytes per field matter to
  the comparison of sizes only (header.cc:198).
* Pointers in virtual queues are the entries they point to. Entries in the list
  are never modified in place, so a dangling pointer is an entry that is not in
  the output queue.
* A record's radios are a set. The order matters to `Index` only, and only for
  two radios of one neighbour on one channel.
* A handler that reaches an assertion or a fatal error sets `abort`, and no
  action is enabled any more. What else that handler changed is irrelevant.
* A hello entry's id is any value of `HelloIds`: reading it is reading
  uninitialized memory (queue.cc:28-37, protocol.cc:113). `HelloIds` is a constant of
  both specifications and may contain ids of packets, as it does in `relay` and
  `network`. While a hello with the id of a packet waits, the queue refuses that
  packet, and nobody is told: see `Custody`.
* `CodedForMe` is what a node relies on: a frame coded for it combines its
  packet with packets it holds. What the node guarantees in return are
  `CodedFramesDecodable` and `ReportsAreHeld`. `IPCopeNetwork` does without the
  assumption.

## 3. What is checked

`CHECK_DEADLOCK FALSE` everywhere: a node that aborted has stopped, so has a node
at its bounds of received packets with nothing to send, a network whose packets
are delivered, and a frame that was received.

| run | instance | shows |
|---|---|---|
| `relay` | a relay between A and B on one channel; crossing packets, acknowledgments, uninitialized hello ids | queues and virtual queues are consistent, coded packets are remembered and retried, reports are true, no assertion is reached |
| `multi_radio` | a relay and a neighbour with radios on two channels, another neighbour on one of them; a broadcast among the packets | records merge without losing packets; coded frames go where all next hops listen; a packet for a busy radio is put back |
| `two_radios_live` | a relay and a neighbour with two radios each, crossing packets, an acknowledgment, with fairness | the oldest unacknowledged packet is retried; a hello for a full radio may block the output queue, but a node left alone runs empty |
| `coded` | a node that hears frames coded for itself and for others | decoding works, and every report and acknowledgment is true and leaves in a frame |
| `network` | A - relay - B in a line, p1 and p2 crossing, up to three failed receptions, two hellos of the relay with the id of p1 or none, fairness | no node aborts (but over the due timer), IP gets nothing more than twice nor more than once in excess of what was sent, and the network comes to rest although no acknowledgment ever arrives |
| `overhear` | the same with C, which also hears B and says so in a frame of its own; one failed reception, one hello | the relay codes on what it was told; frames can be decoded, no packet is lost on a hop, beliefs are true |
| `decoding` | frames of one to three packets of one to three bytes, with reports and acknowledgments | headers survive, `Decode` counts, two natives come apart byte by byte |
| `indexing` | neighbours without a common channel | violation: `Encode` asks for a radio that is not there |
| `same_channel` | a neighbour with two radios on one channel | violation: a hello removes the next hop of a queued packet |
| `three_way` | three packets coded together | violation: the payload lacks the second native |
| `trailing_zeros` | packets that end in zero bytes | violation: what is decoded does not have the announced id |
| `decode_doc` | a receiver that holds every native | violation: `Decode` returns -2, not 0 |

### The properties

Of every reachable state:

* `NoAbort`: none of the assertions and fatal errors in the handlers is reached.
  `TimerPending` is exempt: ns-3 refuses to schedule a timer whose event is
  pending, line 380 does so when the event is due at that very instant, and
  whether that instant is shared is a matter of simulated time, which the model
  does not have. Aborting is the model's reaction to it all the same.
* `VirtualQueuesMirrorQueue`: every virtual queue names, once each, the
  unicast data entries of the output queue that go to its neighbour.
* `TypeOK`: besides types, at most `QueueMax` entries in each queue, and a retry left to
  each one that waits for an acknowledgment.
* `QueuesHaveNoDuplicates`, `DirectoryDisjoint`, `RetransmitArmed`.
* `ReportsAreHeld`: what a node has told, or will tell, its neighbours it can
  decode with. This holds even though the acknowledgment may leave inside
  `ForwardUp`, before `AddToPool`: the packet is in the pool when the handler
  ends, and the frame is still in the MAC queue.

Of every step:

* `CodedFramesDecodable`, `CodedFramesReachAll`, `CodedAwaitsAck`: every next
  hop of a coded frame is believed to hold the other natives, listens on the
  channel, and its packet is remembered.
* `NothingSentTwiceInVain`, `NoSilentDrop`, `OnlyAcksEndTheWait`,
  `RetransmissionKeepsPacket`, `ReportsAndAcksTravel`, `WhatIsHeardIsReported`:
  the life of a packet, a report and an acknowledgment; none is lost outside the
  cases the property names (a full queue, a hello with a colliding id).
* `CodedFramesCarryNatives`: violated with three natives.

Under fairness: `RetransmitProgress` and `QuietNodeRunsEmpty`.

Of a network:

* `NetworkNoAbort`: the assertions of lines 493, 494 and 529 among others are not
  reached; the one of the due timer is exempt, as in `NoAbort`, and may stop any node.
  What `CodedForMe` assumes of neighbours in the runs of one node, they guarantee.
* `FramesDecodable`: every next hop of a coded frame on its way holds the other
  natives; what the sender *believes* is `CodedFramesDecodable`, here it is so.
* `Custody`: while the MAC delivers unicast frames and fewer receptions fail than
  a coded packet has transmissions, a packet that IP sent is kept by its node or
  has reached the next hop. One way to reach it is `bypassed`: see section 5. This is
  so only if hellos have no packet's id (`HelloIdsApart`): with `HelloIds` containing
  p1, TLC finds `Custody` violated in `overhear` in seven states: a hello of the relay
  waits for the full radio, and when p1 arrives there and IP sends it on, the queue
  takes it for a duplicate and drops it.
* `AtMostOnceMore`: nothing on the receiving side remembers plain packets, so
  that a coded packet whose acknowledgment is lost may be given to IP again, but
  only once: coded copies find it in the pool and are not decoded, and the first
  copy that is sent uncoded is not retried any more. So the next hop gives a
  packet to IP at most once more than IP of the sender has sent it.
* `GivenAtMostTwice`: on a path on which one node codes, this adds up to two.
* `ComesToRest` (under fairness): all queues run empty for good.
* `SpreadsTruth`: the network implements `IPCopeKnowledge!Spec`, with the pool of
  a node as what it holds and its packet info as what it believes; neighbours are
  called by any of their addresses. Every reception is a `Hear`, every packet an
  application sends an `Originate`, and everything else stutters.

Of one frame: `HeadersSurvive`, `DecodeCounts`, `TwoNativesDecode` and
`TwoNativesStayInBounds`.

Every property of a passing run has a mutation of a modelled definition that TLC
finds to violate it; `PROJECT.json` lists them. The mutated operators stand just
above the definitions they replace and are used by nothing else.

### Bounds

| bound | value | why it is enough |
|---|---|---|
| `QueueMax` (800) | 2; 3 in `three_way` | full queues are reached, two packets meet in a queue, and one can be refused |
| `MacMax` (10) | 1 | full and free radios both occur, and packets wait, which coding needs |
| packets | 2 or 3 | two cross, a third overtakes |
| `MaxRecps`, `MaxAcks` | 1 and 1; 3 and 2 in `coded`; 3 and 1 in `three_way` | `m_recps` and `m_ackBlockList` are unbounded and shortened by sending only: `Receive` waits when they are full. More entries than neighbours, so that a frame takes only some, occur in `coded` |
| `Heard`, `IPSends`, `Answers` | a few frames and packets per instance | chosen so that packets cross, are reported, acknowledged and overheard; each may occur any number of times and in any order |
| retries | 3, as in the code | |
| `QueueMax` in a network | 4 | two packets, a hello and a retransmission; full queues are a subject of the runs of one node |
| `MaxMissed` | 3 in `network`, 1 in `overhear` | nobody acknowledges in `network`, so that retries run out whatever is heard, and up to three frames that bring nothing are mixed with those that do; `overhear` has four nodes and many more frames |
| `Greeters`, `HelloIds`, `MaxHellos` in a network | the relay; its garbage or p1, twice in `network`; garbage, once in `overhear` | two hellos meet in a queue or follow each other, one is taken for a packet; `overhear` is an instance of `HelloIdsApart` |
| `ReliableMac` | FALSE in `network`, TRUE in `overhear` | a Wi-Fi MAC retries unicast frames; plain packets depend on that, and `Custody` speaks of what coding adds |
| bytes | 2 bits, words of 2 | padding by one and by two bytes, packets that end alike, lengths that differ by two |
| `MaxNatives` | 3; 2 in `trailing_zeros` and `decode_doc` | with three, both early exits of `Decode`'s loop are taken before its last turn |

Frames may be heard again and again, which covers duplication and reordering;
a frame that is never heard is lost.

### Fairness

* `WF(TimerDue)` and the recurrence of `TimerExpire`: a timer that was set
  expires and ns-3 executes its event.
* The recurrence of `Try`: `TrySend` reschedules `m_try` each time (lines
  193-198), so it is called again and again.
* `WF(MacSend(d))`: a Wi-Fi MAC sends a frame or gives it up after a bounded
  number of attempts.

`IPCopeNetwork` assumes the same of every node. Nothing is assumed of IP or of the air. For `Try`, `TimerExpire` and the
actions of a network weak fairness is written as `[]<>disabled \/ []<><<A>>_v` with the enabling condition
spelled out: it is the same formula, and TLC need not evaluate `ENABLED` on the
largest handlers.

## 4. What is proved

Proofs are for any set of nodes, radios, packets, bounds, heard frames and
hello ids that satisfy the named assumptions: `RadiosAssumption`,
`PidAssumption`, `BoundsAssumption` (`IPCopeTypes`), `MeAssumption`,
`IPSendsAssumption`, `HeardAssumption`, `HelloIdsAssumption`, `MaxAssumption`
(`IPCopeProtocol`), and those of `IPCopeNetwork` for networks: `NearAssumption`,
`RouteAssumption`, `FlowAssumption`, `MediumAssumption`. `CodedForMe` is not used.
Those about a frame are for bytes, packets, radios, reports and acknowledgments of any
number and size: `ByteAssumption`, `WordAssumption` (`IPCopePacket`), `PacketAssumption`,
`FieldAssumption` (`IPCopeDecoding`).

Conditions that the code does not establish are hypotheses of some theorems, never
assumptions:

* `Configured`: an address belongs to one node (`WellConfigured`), and a frame comes
  from a radio of the node its header names. The code takes both for granted;
  `same_channel` shows what happens otherwise.
* `HonestFrames`: what other nodes send when they code two packets at most.
  `three_way` shows what happens with three.
* `OneChannel`: all radios share a channel. `indexing` shows what happens with two.
* `TwoHops`, of a network: IP of one node sends to two radios at most, so that no
  node codes three packets. `three_way` shows why that matters. It replaces
  `HonestFrames`: what nodes send is proved, not assumed.
* `Routed`: a packet that is sent on is a packet, and its next hop is another node.
  The table of routes is arbitrary otherwise.
* `OnePath`: a packet comes to a node from one other node only. With two, each may
  give it to IP once more than it was asked to.
* `CodedOnce`: a node that sends a packet on gets it from an application, or else
  from one node that has a single next hop and so never codes. Where two nodes of
  a path code, the second is asked twice and may bring the packet three times.
* `Direct`: the next hop of a packet hears the node it gets it from and nobody else
  who sends it, and does not send it for an application. Otherwise it may hold
  the packet already and report it; `DoSend` then drops it (line 272) although IP of the
  next hop was never given it.
* `ReliableMac` and `MaxMissed <= MaxRetry`: MAC destinations hear their frames, and no
  more receptions fail than a coded packet has retries. A packet that is sent
  uncoded is remembered nowhere, and a coded one is given up after its retries:
  neither is safe otherwise.
* `HelloIdsApart`: what the uninitialized id of a hello reads from memory is no packet
  that is sent on. Otherwise a waiting hello makes the queue refuse the packet. Only
  `CustodyKept` needs this.
* `Room`: queues have room for all packets, which are finitely many. A full queue
  refuses packets in silence.
* `NoTrailingZeros`, of packets: none ends in a zero byte. `trailing_zeros` shows what
  happens to one that does.

The instances state them as `ASSUME`, so that TLC evaluates them there: `relay` and
`coded` satisfy the first three, `multi_radio` the first two, `network` and
`overhear` `WellConfigured`, `OneChannel`, `TwoHops`, `Routed` and `OnePath`, the first of
them `CodedOnce` besides and the second `Direct`, `HelloIdsApart`, `ReliableMac`, the bound
on `MaxMissed` and `Room`. The packets of `decoding` have no
trailing zeros.

| theorem | statement | under |
|---|---|---|
| `Invariance` | `Spec => []IInv` | |
| `TypeCorrectness` | `Spec => []TypeOK` | |
| `NoDuplicates` | `Spec => []QueuesHaveNoDuplicates` | |
| `TimerArmed` | `Spec => []RetransmitArmed` | |
| `TruthfulReports` | `Spec => []ReportsAreHeld` | |
| `QueueInvariance` | `Spec => []QInv` | |
| `PointersNeverDangle` | `Spec => []NoDanglingPointer` | |
| `DirectoryIsDisjoint` | `Spec => []DirectoryDisjoint` | |
| `DirectoryNeverStuck` | no packet twice in a virtual queue, no lost entry, no refused neighbour | |
| `MirrorsTheQueue` | `Spec => []VirtualQueuesMirrorQueue` | `Configured` |
| `NextHopNeverLost` | a next hop stays known while a packet waits for it | `Configured` |
| `NothingAborts` | `Spec => []NoAbort` (the due timer is exempt) | all three |
| `OnlyChannelsAbort` | nothing but a missing channel or the due timer aborts | `Configured`, `HonestFrames` |
| `ReportsLeaveInFrames` | `Spec => ReportsAndAcksTravel` | |
| `PoolIsReported` | `Spec => WhatIsHeardIsReported` | |
| `WaitEndsByAck` | `Spec => OnlyAcksEndTheWait` | |
| `NativesAwaitAck` | `Spec => CodedAwaitsAck` | |
| `NothingDropsSilently` | `Spec => NoSilentDrop` | |
| `RetriedIsKept` | `Spec => RetransmissionKeepsPacket` | |
| `CodesDecode` | `Spec => CodedFramesDecodable` | `Configured` |
| `CodesReachAll` | `Spec => CodedFramesReachAll` | `Configured` |
| `NothingInVain` | `Spec => NothingSentTwiceInVain` | `Configured` |
| `TrueBeliefs` | `IPCopeKnowledge!Spec => []BeliefsTrue` | an address belongs to one node |
| `NetworkInvariance` | `Spec => []NInv` | `WellConfigured`, `TwoHops` |
| `ImplementsKnowledge` | `Spec => SpreadsTruth` | `WellConfigured`, `TwoHops` |
| `BeliefsAreTrue` | `Spec => []Knowledge!BeliefsTrue` | `WellConfigured`, `TwoHops` |
| `AlwaysDecodable` | `Spec => []FramesDecodable` | `WellConfigured`, `TwoHops` |
| `OnlyChannelsAbortAnybody` | nothing but a missing channel or the due timer stops a node | `WellConfigured`, `TwoHops` |
| `NobodyAborts` | `Spec => []NetworkNoAbort` (the due timer is exempt) | `WellConfigured`, `TwoHops`, `OneChannel` |
| `GivenPerAsk` | `Spec => []AtMostOnceMore` | `WellConfigured`, `TwoHops`, `Routed`, `OnePath` |
| `GivenTwice` | `Spec => []GivenAtMostTwice` | the same and `CodedOnce` |
| `CustodyKept` | `Spec => []Custody` | `WellConfigured`, `TwoHops`, `OneChannel`, `Routed`, `Direct`, `HelloIdsApart`, `ReliableMac`, `MaxMissed <= MaxRetry`, finitely many nodes, `Room` |
| `NativeRecovered` | of two different packets, taking the first out of the sum of both leaves the second, with its id | the second does not end in a zero byte |
| `DecodingInvariant` | `Spec => []DInv` | |
| `HeadersAlwaysSurvive` | `Spec => []HeadersSurvive` | |
| `DecodeAlwaysCounts` | `Spec => []DecodeCounts` | |
| `TwoNativesAlwaysInBounds` | `Spec => []TwoNativesStayInBounds` | |
| `TwoNativesAlwaysDecode` | `Spec => []TwoNativesDecode` | `NoTrailingZeros` |

### Good states

`IInv` says that the state is in `Good({})`: typed, with both queues bounded and
free of duplicates, every report and acknowledgment about a pooled packet, and
the timer armed while packets wait. The four depend on each other through the
handlers: types alone are not inductive, because an entry is `Retry`-ed and stays
an entry only when it came from the retransmission queue, whose entries have a
retry left (`RtEntry`).

Three things shape the argument.

* The handlers nest, so each is a lemma: from any state in `Good(X)` the handler
  ends in `Good(X)`. `NextGood` then has one step per action.
* `X` is needed by `RecvCoded`. Between `AddAck` and `Hold` the acknowledgment
  may be sent although its packet is not yet in the pool; `X` holds that
  packet, and `Hold` moves it into the pool.
* The loops of `NeighborLearn`, `Encode`, `SendHello` and `EraseAcked` are
  `ForEach`; a lemma about it reduces an invariant of a loop to one of its body.

Some steps pass through states where the timer is not armed yet although the
retransmission queue is not empty (`Encode` before `DoSendEnd`); the lemmas about
coding speak of `Typed(X)`, and `DoSendEnd` leads from there to `Good(X)`.

### Queues and directory

`QInv` adds what ties the queues to the directory.

* `Tied`, whatever the addresses are: records are disjoint, every pointer points to
  a waiting packet and no two to the same one, only unicast data waits for
  acknowledgments, and none of the assertions `Stuck` was reached.
  `NoDanglingPointer` is the part about pointers. It says less than
  `VirtualQueuesMirrorQueue`, which the runs check, but is proved for addresses that
  name several nodes and for nodes that aborted.
* `Whole`, under `Configured`: besides, every waiting packet has a pointer in the
  record of its next hop, the next hop of a packet in either queue is known, and
  every address known of a neighbour is one of its own, so that `Misled` aborts
  are unreachable. Without the part about addresses a hello or a frame may
  move a packet to another neighbour's record or drop the radio it waits for.
* `Garbled` aborts are excluded under `HonestFrames` as well.

`Keeps(s, r)` is what each handler does to these three from its first state `s` to
its last state `r`, and it is transitive. Handlers pass through states in which a
packet has left one queue and not the other; there the invariant speaks of
the set of waiting packets, not of the queue.

### What a step may do

The action properties speak of frames a step hands to radios, which a handler
may do several times (one hello per radio, or a packet IP sends inside
`ForwardUp`). `Handed(me, s, r)` are the frames added to the MAC queues from `s`
to `r`; it is the union over the parts of a handler (`HandedChain`). Every handler
first prepares (learns, takes in packets, deletes what is acknowledged; nothing
is handed over: `Prepares`) and then sends (`Sends`: nothing is learned, reports
travel, entries are accounted for, and frames fit the beliefs and the directory).
`Serves` is one after the other, `ServesBehaves` turns it into what the properties
of a step need, and `NextBehaves` has one step per action. The directory a frame
was chosen by and the one after the step differ in virtual queues alone
(`SameRadios`), which is what makes `Owner` of the properties the owner `Encode`
saw.

### A network

`NInv` holds of all nodes together.

* `Lives`, of each node: the invariants of one node (`Good`, `Tied`, `Whole`),
  `Stocked`, and no `Garbled` abort. `Stocked` is what makes frames trustworthy: all
  that a node queues, retries or has handed to a radio are packets of its pool for
  next hops of its own, and a frame is `Genuine`: it names its sender, and its
  payload is the sum of the packets it lists. `TwoHops` is needed for the last part
  alone.
* `Truth`, of all nodes: whoever is believed to hold a packet holds it. This is
  the invariant of `IPCopeKnowledge_proofs`.
* `Decodable`: the natives of every frame on its way are held by the other next
  hops. `FramesDecodable` says this while the simulation goes on.

None of the three can do without the others. What a receiver decodes is the packet
announced because the frame is `Decodable` and `Genuine`; what it learns is true because
the sender is `Stocked`; and what it codes next is `Decodable` because its beliefs are
true when the frame is handed over (`Fits`) and pools only grow.

One lemma per handler says that a node `Goes` on: it `Lives`, takes in packets and
beliefs only from the node it hears (`Learns`), and what it hands over `Fits` what it
knows. Every step of the network is then of one of two kinds. In `Heeds(n)` all
nodes go on and learn of `n` at most: `MacSend`, and the timers and hellos, of which
nobody learns. In `SetsOut(x)` one node takes in the packet its application sends.
`NextNet` shows that `NInv` survives both kinds, and `ImplementsKnowledge` maps the
first to `Hear` or a stutter and the second to `Originate`. Who hears whom, which
receptions fail and how often is left open.

### The life of a packet

`NInv` says what frames carry, not how many of them there are. Both theorems about
delivery count, so `IPCopeCustody_proofs` follows one packet at one node. Its
life, `LifeOf`, is where it is there: `wait`, the retries of its entry in the output
queue; `again`, those of its entry in the retransmission queue; `plain` and
`coded`, how many frames in MAC queues carry it alone and with others; and `asked`,
how often IP has sent it.

However long a handler is, it does six things to such a life: a waiting packet
is sent alone (`SentAlone`), or with others and is remembered unless its retries
are used up (`SentCoded`); a remembered one waits again with one more retry
(`SentAgain`); IP sends it (`AskedFor`); it is dropped because its queue is full or
its next hop is believed to have it (`GivenUp`); an acknowledgment ends its wait
(`Thanks`). `Reaches` is any number of these, stated without induction: what leads from
`v` to `w` leads out of no set that is closed under the six. Each handler has one
lemma that says that it `Turns` lives only so. The last two moves are for packets
that are `free` to get lost; a packet is `Bound` when there is `Room` and its next hops
are not believed to have it (`Uninformed`), and then no handler makes
them: `BoundBefore` carries that through the parts of a handler.

An invariant of the network is now one of a set closed under the moves, and what
is left to show is what a frame on the air does.

* `GInv`: the `Burden` of a packet at its sender, which is what it may still send
  uncoded (`wait`, `again` and `plain`), and what was given to IP by the next hop make
  up at most what IP of the sender asked for, and one more once the next hop
  holds the packet. `SentCoded` leaves the burden as it is (the packet is
  remembered) although the coded frame may bring the packet; but only a next hop
  that does not hold it yet decodes it, and from then on it does. A sender with a single next hop never codes, and
  nothing is spared there.
* `CInv`: a next hop holds a packet only if it was delivered (`HeldIsDelivered`; given to
  IP, or `bypassed`), and one that was not is `Kept(missed)`: its retries are at most
  the frames that failed and those on their way, and it waits, is remembered or
  is in a frame that will be heard, unless failed frames and those on their way
  exceed `MaxRetry`. A coded frame that is sent in vain moves one from the frames on
  their way to `missed`. As `missed` is at most `MaxRetry`, a frame is on its way
  in the remaining case, too.

### Beliefs and bytes

`TrueBeliefs` is the abstract half of what the network promises: its invariant adds
to `BeliefsTrue` only that holdings have a type, because `Hear` speaks of the
sender's packets and addresses. `ImplementsKnowledge` is the other half: the network
is such a system.

`NativeRecovered` is about `XOR`, `SetTtl` and `Hash` for bytes of any kind, with
`ByteXor` an operator of which only `ByteAssumption` is known (closed,
commutative, its own inverse), packets of any length, and any TTL of the copy
held. It goes byte by byte: the sum with the first packet taken out is the second
followed by zeros (bytes past the end count as zero, which also covers what the
sender cut off), and cutting zeros off leaves the second, because its last byte
is none. Only the first byte depends on the TTL, and a fresh TTL replaces it. The
two packets differ behind the TTL, so that the search for the last byte stays in
its buffer.

`DInv` carries this through a frame and `Decode`'s loop.

* A frame is what was written, and reading it gives that back. `DataWritten` says at
  which position each field of a header of any size ends up, `DataRead` that
  `Deserialize` finds it there. `BuiltHeader` and `FlattenSeq` are recursive: that such
  functions exist for any number of entries is `IterationExists`, by induction over a
  range (`RangeInduction`, about a set and not about an operator, which is what the
  provers can instantiate). The header's map is written in the order of MACs;
  `OrderExists` is why there is one.
* `Turns`: of the natives looked up so far at most one was missing, that one is `pid`,
  and `found` and `missing` add up to the turns taken. The loop comes to each native
  once (`EachLookedUp`), hence `found` reaches the number of natives only when none was
  missing, and a second miss means that at least two are not held. `found` alone is
  not enough for that: the two early exits of the loop leave `next` where it is.
* `Removed`: with two natives, at most one was taken out of the payload. The one that
  would be the second stays in (`found < encodedNum`), which is why the sum is
  never empty (`RemovalInBounds`: the lengths of packets are not zero) and why the
  packet left is the one missing.

### Not proved

* Liveness (`RetransmitProgress`, `QuietNodeRunsEmpty`, `ComesToRest`) is model-checked
  only: TLAPS does not
  handle `ENABLED`, and fairness of this kind is out of its reach.
* Delivery where the hypotheses of `CustodyKept` fail (several channels, full queues, next
  hops that overhear packets on an earlier hop, hellos with the id of a packet): no run
  and no theorem covers it.
* What a step learns, and what is known under a name that is replaced in it, is outside
  `NothingSentTwiceInVain`: knowledge under the old name of a neighbour that shows a
  smaller MAC is lost, and an acknowledged packet may be sent to it again.
* `CodedFramesCarryNatives`: with three natives it is false (`three_way`).
* The payload of three natives: it is not their sum (`three_way`), and the search of `XOR`
  may leave its buffer.
* The installed provers cannot instantiate induction theorems over operators. Where
  induction over data is needed it is stated over sets (`RangeInduction`, the lemma about
  `ForEach`); the values of `Hash` are not computed, only that what is read equal gives
  equal ids.

## 5. Disagreements found

* `indexing`: `IPCopeNeighbor::Index` takes it for granted that the neighbour has
  the channel (neighbor.cc:609). `Encode` calls it for channels the neighbour
  does not have when the intersection is empty (protocol.cc:712-731).
* `same_channel`: `DoSend` asserts that the next hop is known (protocol.cc:269).
  `AddTrinity` drops the radio it was known by (neighbor.cc:417).
* `three_way`: `Recv` asserts that decoding yields the packet announced
  (protocol.cc:494). With three natives the payload holds the first and the last
  only (protocol.cc:741).
* `trailing_zeros`: the same assertion fails for a packet that ends in zero
  bytes. `XOR` cuts all zeros at the end of a sum (protocol.cc:826-828), and the
  hash of what is left reads fewer bytes unless its padding makes up for it.
* `decode_doc`: the comment of `Decode` promises 0 when every native is held
  (protocol.cc:549); it returns -2 (protocol.cc:586), and 0 would be taken for a
  packet decoded (line 472).

Seen in the model, with no text that says otherwise:

* A next hop of a coded frame that is not its MAC destination acknowledges its
  packet, and so ends its retransmission, but `ForwardUp` takes the frame for
  another host's and does not call the receive callback (device.cc:398). In
  `overhear` such packets are in `bypassed`.
* A receiver that holds the first and the last of three natives removes both from
  a payload that is their sum, and `XOR` reads in front of its buffer (line 827).
  In `decoding` that is the phase `"undefined"`, which `TwoNativesStayInBounds`
  excludes for two natives.
* A hello whose uninitialized id is a packet's makes the queue refuse the packet while
  the hello waits (queue.cc:51): IP has sent it and it is gone.
* A packet that returns from the retransmission queue when the output queue is full is
  lost (line 603).
* The id of a packet is the hash of its payload alone (hash.cc:70): two packets
  with the same payload are one packet to queues, pool and packet info.

## 6. Not modelled

* Hash collisions, and the mixing of the hash.
* The limits of the 8- and 16-bit counters of headers: they count the radios of a
  node, its neighbours and one frame's reports, and stay far below.
* Setters of headers that nothing calls (`SetEncodedNum`, `SetReportNum`,
  `SetAckNum`, `AddAckBlock` of a vector).
* Simulated time: whether another event shares the instant at which the
  retransmission timer is due. Both specifications allow it, with the fatal error
  of ns-3 it may lead to (`TimerPending`), which the properties exempt.
* Nodes that come, go or restart: nothing is persisted, and the code has no
  operation for it.
* ARP and other protocols, which bypass the protocol engine and share the MAC
  queue; printing and logging.
* The fatal error for a broadcast entry in a virtual queue (protocol.cc:680):
  `Enqueue` and `Retransmit` only put unicast packets there.
* Validity of the deque iterator `neighborIter` across `ForwardUp`
  (protocol.cc:509).
* Code nobody calls: `RemoveNeighbor(ip)`, `GetIP(index)`, `Index(mac)`.

## 7. Plan

Done: types, queue, directory, handlers and one open node with its runs; the
network, the abstract specification of beliefs and the refinement; bytes, headers
and decoding. Proved: the invariants of one node, the aborts they exclude and its
action properties; the network's invariant, true beliefs, the refinement and the
aborts it excludes; how often a packet is given to IP, and that it is not lost on
a hop; headers of any size, what `Decode` returns and recovers. Every invariant
and every action property of a passing run has a theorem.

Left:

1. `CustodyKept` for nodes with several radios. A node may then hear a frame that is
   for one of its neighbours on another channel, and `ForwardUp` decides what IP sees.
2. What is still true of delivery when queues are full, in terms of the packets
   `NoSilentDrop` lets go and of those that are refused.
3. `ComesToRest` for networks of any size: by hand, as long as the provers do not
   handle `ENABLED`.
