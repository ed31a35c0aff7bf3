------------------------------ MODULE IPCopeNode ------------------------------
(***************************************************************************)
(* IPCopeProtocol and IPCopeDevice: the event handlers of one node, as     *)
(* operators from node state to node state.  ns-3 runs one event at a      *)
(* time, so a handler, with every call it makes (a received packet goes up *)
(* to IP, which may send at once, which may transmit at once), is one      *)
(* step.                                                                   *)
(*                                                                         *)
(* A node state s is a record:                                             *)
(*   me       the node                                                     *)
(*   queue    m_queue, the output queue                                    *)
(*   rtqueue  m_rtqueue, coded packets waiting for an acknowledgment       *)
(*   nbrs     m_neighbors                                                  *)
(*   info     m_packetInfo: <<pid, mac>> when the neighbour whose smallest *)
(*            MAC is mac is known to hold pid                              *)
(*   pool     m_pool: the packets this node can decode with                *)
(*   recps    m_recps: received packets still to be reported               *)
(*   acks     m_ackBlockList: acknowledgments still to be sent             *)
(*   timer    m_timer: "idle", "running", or "due" when its time has come  *)
(*            and the event has not been executed yet                      *)
(*   macq     the MAC queue of each radio                                  *)
(*   abort    "none", or the assertion or fatal error that was hit         *)
(* m_try is always armed and m_isSending is FALSE between handlers, so     *)
(* neither is state.                                                       *)
(***************************************************************************)
EXTENDS IPCopeNeighbor

Timer == {"idle", "running", "due"}

Aborts == {"none", "TimerPending", "IndexChannel", "DuplicateVirtual", "NewNeighbor",
           "IdNexthop", "EraseFromQueue", "NeighborGone", "NeighborMissing",
           "VirtualQueueRemove", "NeighborLost", "DecodedOther", "DecodedHash", "PlainHash",
           "BroadcastCoded"}

Init0(n) ==
  [me |-> n, queue |-> <<>>, rtqueue |-> <<>>, nbrs |-> <<>>, info |-> {},
   pool |-> {}, recps |-> <<>>, acks |-> <<>>, timer |-> "idle",
   macq |-> [d \in Devices(n) |-> <<>>], abort |-> "none"]

\* What IP hands to IPCopeDevice::Send: packet id for MAC dest over iface.
IPSend == [id: Pid, dest: Nat, iface: Nat \ {0}]
NoSend == [id |-> "none"]

IsQueueFull(s, d) == Len(s.macq[d]) = MacMax
DevicesIf(s) == {d \in Devices(s.me) : ~IsQueueFull(s, d)}

Channel(s, d) == RadiosOf[s.me][d].channel

\* Index(channel): the first radio on the channel, 0 when there is none.
DeviceOn(s, channel) == SelectInSeq(RadiosOf[s.me], LAMBDA t : t.channel = channel)

Knows(s, pid, nbr) == <<pid, GetMac(nbr)>> \in s.info
SetItems(s, pids, mac) == [s EXCEPT !.info = @ \union {<<pid, mac>> : pid \in pids}]

ForwardDown(s, d, f) == [s EXCEPT !.macq[d] = Append(@, f)]

-------------------------------------------------------------------------------
(* Encoding.  r collects the coded packet: s is the node, nexthops the     *)
(* smallest MACs of the neighbours it is for, channels those that reach    *)
(* all of them (unless no neighbour was ever added to an unlucky set),     *)
(* iface and dest where it will be sent.                                   *)

\* Mutation: neighbour i need not have the packets combined so far.
CombinesForOthers(r, i) ==
  LET nbr == r.s.nbrs[i]
      v == Head(nbr.vq)
  IN  /\ GetMac(nbr) \notin r.nexthops
      /\ nbr.vq # <<>>
      /\ ~Knows(r.s, v.id, nbr)
      /\ \A mac \in r.nexthops : <<v.id, mac>> \in r.s.info

\* Neighbour i can get its first waiting packet v together with what was
\* combined so far: all the others have v and it has all the others.
Combines(r, i) ==
  LET nbr == r.s.nbrs[i]
      v == Head(nbr.vq)
  IN  /\ GetMac(nbr) \notin r.nexthops
      /\ nbr.vq # <<>>
      /\ ~Knows(r.s, v.id, nbr)
      /\ \A mac \in r.nexthops : <<v.id, mac>> \in r.s.info
      /\ \A x \in r.natives : Knows(r.s, x.pid, nbr)

\* XOR of two packets, of which each is the sum of some natives.
XOR(p, q) == (p \ q) \union (q \ p)

\* The head of the virtual queue of neighbour i leaves it and the output
\* queue, to wait for its acknowledgment unless its retries are used up.
Take(s, i) ==
  LET v == Head(s.nbrs[i].vq)
  IN  [s EXCEPT !.rtqueue = IF HitMax(v) THEN @ ELSE EnqueueBack(@, v),
                !.queue = Erase(@, v.id),
                !.nbrs[i].vq = Tail(@)]

\* Take v, the head of the virtual queue of neighbour i, into the coded
\* packet.  The payload combines v with the FIRST packet of the code, so a
\* third native replaces the second.
Combine(r, i, channel) ==
  LET nbr == r.s.nbrs[i]
      v == Head(nbr.vq)
  IN  IF \E x \in r.natives : x.mac = v.dest
      THEN [r EXCEPT !.s = Abort(@, "IdNexthop")]
      ELSE IF v.id \notin Ids(r.s.queue)
      THEN [r EXCEPT !.s = Abort(@, "EraseFromQueue")]
      ELSE [r EXCEPT
              !.s = Take(@, i),
              !.nexthops = @ \union {GetMac(nbr)},
              !.natives = @ \union {[mac |-> v.dest, pid |-> v.id]},
              !.payload = XOR({r.first}, {v.id}),
              !.iface = DeviceOn(r.s, channel),
              !.dest = Index(nbr, channel),
              !.encoded = TRUE]

\* Mutation: any usable channel of neighbour i will do.
EncodeOnItsChannel(r, i) ==
  LET usable == {c \in GetChannels(r.s.nbrs[i]) : DeviceOn(r.s, c) \in DevicesIf(r.s)}
  IN  IF ~Running(r.s) \/ ~Combines(r, i) \/ usable = {} THEN r
      ELSE Combine(r, i, Max(usable))

\* One turn of the loop.  When no channel is common to the neighbour and
\* the code so far, the channels stay as they were and are still tried.
EncodeWith(r, i) ==
  IF ~Running(r.s) \/ ~Combines(r, i) THEN r
  ELSE LET offered == GetChannels(r.s.nbrs[i])
           common == r.channels \intersect offered
           channels == IF common = {} THEN r.channels ELSE common
           usable == {c \in channels : DeviceOn(r.s, c) \in DevicesIf(r.s)}
           r1 == [r EXCEPT !.channels = channels]
       IN  IF usable = {} THEN r1
           ELSE IF ~(usable \subseteq offered)
           THEN [r1 EXCEPT !.s = Abort(@, "IndexChannel")]
           ELSE Combine(r1, i, Max(usable))

\* Mutations: e is not kept for retransmission; it is kept at the front.
EncodeForgetting(s, e) ==
  LET r0 == [s |-> s, first |-> e.id, nexthops |-> {GetMac(s.nbrs[SearchMac(s.nbrs, e.dest)])},
             natives |-> {[mac |-> e.dest, pid |-> e.id]}, payload |-> {e.id},
             channels |-> GetChannels(s.nbrs[SearchMac(s.nbrs, e.dest)]),
             iface |-> e.iface, dest |-> e.dest, encoded |-> FALSE]
  IN  ForEach(Len(s.nbrs), r0, LAMBDA i, q : EncodeWith(q, i))

EncodeNewestFirst(s, e) ==
  LET r == EncodeForgetting(s, e)
  IN  IF Running(r.s) /\ r.encoded /\ ~HitMax(e)
      THEN [r EXCEPT !.s.rtqueue = EnqueueFront(@, e)]
      ELSE r

\* e has just left the output queue.
Encode(s, e) ==
  LET nbr == s.nbrs[SearchMac(s.nbrs, e.dest)]
      r0 == [s |-> s, first |-> e.id, nexthops |-> {GetMac(nbr)},
             natives |-> {[mac |-> e.dest, pid |-> e.id]}, payload |-> {e.id},
             channels |-> GetChannels(nbr), iface |-> e.iface, dest |-> e.dest,
             encoded |-> FALSE]
      r == ForEach(Len(s.nbrs), r0, LAMBDA i, q : EncodeWith(q, i))
  IN  IF Running(r.s) /\ r.encoded /\ ~HitMax(e)
      THEN [r EXCEPT !.s.rtqueue = EnqueueBack(@, e)]
      ELSE r

\* A packet that is sent as it is.
Plain(s, e) ==
  [s |-> s, natives |-> {[mac |-> e.dest, pid |-> e.id]}, payload |-> {e.id},
   iface |-> e.iface, dest |-> e.dest, encoded |-> FALSE]

-------------------------------------------------------------------------------
(* Sending                                                                 *)

HelloFrame(s, d) ==
  [hello |-> TRUE, from |-> s.me, src |-> RadiosOf[s.me][d].mac, dest |-> Broadcast,
   natives |-> {}, payload |-> {}, reports |-> {}, acks |-> <<>>]

\* Every sending attempt ends here: the retransmission timer is armed unless
\* it runs.  ns-3 refuses to schedule a timer whose event is still pending,
\* so a timer that is due at this very instant ends the simulation.
DoSendEnd(s) ==
  IF ~Running(s) THEN s
  ELSE CASE s.timer = "idle" -> [s EXCEPT !.timer = "running"]
         [] s.timer = "running" -> s
         [] s.timer = "due" -> Abort(s, "TimerPending")

\* How many reports or acknowledgments a header takes.
Share(s, waiting) == IF Len(waiting) > Len(s.nbrs) THEN Len(s.nbrs) ELSE Len(waiting)

\* Mutation: all waiting acknowledgments are dropped with the first frame.
TransmitAndClear(r) ==
  LET s == r.s
      n == Share(s, s.recps)
      m == Len(s.acks) - Share(s, s.acks)
      f == [hello |-> FALSE, from |-> s.me, src |-> RadiosOf[s.me][r.iface].mac,
            dest |-> r.dest, natives |-> r.natives, payload |-> r.payload,
            reports |-> Range(SubSeq(s.recps, 1, n)),
            acks |-> Reverse(SubSeq(s.acks, m + 1, Len(s.acks)))]
  IN  ForwardDown([s EXCEPT !.recps = SubSeq(@, n + 1, Len(@)), !.acks = <<>>], r.iface, f)

\* Reports leave from the front, acknowledgments from the back.
Transmit(r) ==
  LET s == r.s
      n == Share(s, s.recps)
      m == Len(s.acks) - Share(s, s.acks)
      f == [hello |-> FALSE, from |-> s.me, src |-> RadiosOf[s.me][r.iface].mac,
            dest |-> r.dest, natives |-> r.natives, payload |-> r.payload,
            reports |-> Range(SubSeq(s.recps, 1, n)),
            acks |-> Reverse(SubSeq(s.acks, m + 1, Len(s.acks)))]
  IN  ForwardDown([s EXCEPT !.recps = SubSeq(@, n + 1, Len(@)),
                            !.acks = SubSeq(@, 1, m)],
                  r.iface, f)

\* Mutation: e does not return to its virtual queue.
PutBackInQueue(s, e) == [s EXCEPT !.queue = EnqueueFront(@, e)]

\* The radio for e is busy: e goes back to the front of both queues.
PutBack(s, e) ==
  LET s1 == [s EXCEPT !.queue = EnqueueFront(@, e)]
      pos == SearchMac(s1.nbrs, e.dest)
  IN  IF e.dest = Broadcast THEN s1
      ELSE IF pos = 0 THEN Abort(s1, "NeighborGone")
      ELSE AddVirtualQueueEntryFront(s1, pos, s1.queue[1])

\* Mutation: a packet for a busy radio is dropped.
SendDataOrDrop(s, e) ==
  LET r == IF s.queue # <<>> /\ e.dest # Broadcast THEN Encode(s, e) ELSE Plain(s, e)
  IN  IF ~Running(r.s) THEN r.s
      ELSE IF ~r.encoded /\ e.iface \notin DevicesIf(s) THEN DoSendEnd(s)
      ELSE DoSendEnd(Transmit(r))

\* e has left the output queue and, if unicast, its virtual queue.
SendData(s, e) ==
  LET r == IF s.queue # <<>> /\ e.dest # Broadcast THEN Encode(s, e) ELSE Plain(s, e)
  IN  IF ~Running(r.s) THEN r.s
      ELSE IF ~r.encoded /\ e.iface \notin DevicesIf(s) THEN DoSendEnd(PutBack(s, e))
      ELSE DoSendEnd(Transmit(r))

\* Mutation: a hello that was sent stays in the output queue.
SendHelloEntryKept(s, e) ==
  IF e.iface \in DevicesIf(s) THEN ForwardDown(s, e.iface, HelloFrame(s, e.iface)) ELSE s

SendHelloEntry(s, e) ==
  IF e.iface \in DevicesIf(s)
  THEN ForwardDown([s EXCEPT !.queue = Tail(@)], e.iface, HelloFrame(s, e.iface))
  ELSE s

\* Mutation: what the next hop is known to have is not consulted.
SendUnicastAlways(s, e) ==
  LET pos == SearchMac(s.nbrs, e.dest)
  IN  IF pos = 0 THEN Abort(s, "NeighborMissing")
      ELSE IF e.id \notin Ids(s.nbrs[pos].vq) THEN Abort(s, "VirtualQueueRemove")
      ELSE SendData([s EXCEPT !.nbrs[pos].vq = Erase(@, e.id), !.queue = Tail(@)], e)

\* A packet its next hop is known to have is dropped, not sent.
SendUnicast(s, e) ==
  LET pos == SearchMac(s.nbrs, e.dest)
  IN  IF pos = 0 THEN Abort(s, "NeighborMissing")
      ELSE IF e.id \notin Ids(s.nbrs[pos].vq) THEN Abort(s, "VirtualQueueRemove")
      ELSE LET s1 == [s EXCEPT !.nbrs[pos].vq = Erase(@, e.id), !.queue = Tail(@)]
           IN  IF Knows(s, e.id, s.nbrs[pos]) THEN DoSendEnd(s1) ELSE SendData(s1, e)

DoSend(s) ==
  LET e == Head(s.queue)
  IN  IF e.hello THEN DoSendEnd(SendHelloEntry(s, e))
      ELSE IF e.dest = Broadcast THEN SendData([s EXCEPT !.queue = Tail(@)], e)
      ELSE SendUnicast(s, e)

\* At most one packet per attempt, and only when some radio has room.
TrySend(s) ==
  IF Running(s) /\ DevicesIf(s) # {} /\ s.queue # <<>> THEN DoSend(s) ELSE s

-------------------------------------------------------------------------------
(* Enqueueing                                                              *)

\* The virtual queue of the next hop; an unknown one becomes a neighbour.
AddVirtual(s, x, e) ==
  LET pos == SearchMac(s.nbrs, x.dest)
      t == [ip |-> NoIP, mac |-> x.dest, channel |-> Channel(s, x.iface)]
  IN  IF pos = 0
      THEN [s EXCEPT !.nbrs = AddNeighbor(@, [pairs |-> {t}, vq |-> <<e>>])]
      ELSE AddVirtualQueueEntry(s, pos, e)

\* Enqueue(..., DATA).  A refused packet is dropped without a trace.
EnqueueData(s, x) ==
  LET e == [id |-> x.id, dest |-> x.dest, iface |-> x.iface, retry |-> 0, hello |-> FALSE]
      s1 == [s EXCEPT !.queue = EnqueueBack(@, e), !.pool = @ \union {x.id}]
      s2 == IF ~Accepts(s.queue, e) THEN s
            ELSE IF x.dest = Broadcast THEN s1
            ELSE AddVirtual(s1, x, e)
  IN  TrySend(s2)

\* Enqueue(..., HELLO).  m_packetId of a hello is never initialized: id is
\* whatever the memory held.
EnqueueHello(s, d, id) ==
  LET e == [id |-> id, dest |-> Broadcast, iface |-> d, retry |-> 0, hello |-> TRUE]
  IN  IF ~Running(s) THEN s
      ELSE TrySend([s EXCEPT !.queue = EnqueueFront(@, e)])

\* One hello out of every radio; ids[d] is what its entry's id happens to be.
SendHello(s, ids) ==
  ForEach(Len(RadiosOf[s.me]), s, LAMBDA d, q : EnqueueHello(q, d, ids[d]))

-------------------------------------------------------------------------------
(* The retransmission timer                                                *)

\* Mutations: the virtual queue is forgotten; the timer is left to the
\* sending attempt; the result of EnqueueFront is ignored; the last retry is
\* dropped.
RetransmitInQueue(s) ==
  LET e == Retry(Head(s.rtqueue))
  IN  IF s.rtqueue = <<>> THEN [s EXCEPT !.timer = "idle"]
      ELSE TrySend([s EXCEPT !.rtqueue = Tail(@), !.queue = EnqueueFront(@, e),
                             !.timer = "running"])

RetransmitUnarmed(s) ==
  LET e == Retry(Head(s.rtqueue))
      s1 == [s EXCEPT !.rtqueue = Tail(@), !.queue = EnqueueFront(@, e), !.timer = "idle"]
  IN  IF s.rtqueue = <<>> THEN [s EXCEPT !.timer = "idle"]
      ELSE TrySend(IF Accepts(s.queue, e)
                   THEN AddVirtualQueueEntryFront(s1, SearchMac(s.nbrs, e.dest), e) ELSE s1)

RetransmitUnchecked(s) ==
  LET e == Retry(Head(s.rtqueue))
      s1 == [s EXCEPT !.rtqueue = Tail(@), !.queue = EnqueueFront(@, e), !.timer = "running"]
  IN  IF s.rtqueue = <<>> THEN [s EXCEPT !.timer = "idle"]
      ELSE TrySend(AddVirtualQueueEntryFront(s1, SearchMac(s.nbrs, e.dest), e))

RetransmitNotLast(s) ==
  LET e == Retry(Head(s.rtqueue))
      s1 == [s EXCEPT !.rtqueue = Tail(@), !.queue = EnqueueFront(@, e), !.timer = "running"]
  IN  IF s.rtqueue = <<>> THEN [s EXCEPT !.timer = "idle"]
      ELSE IF HitMax(e) THEN [s EXCEPT !.rtqueue = Tail(@), !.timer = "running"]
      ELSE TrySend(IF Accepts(s.queue, e)
                   THEN AddVirtualQueueEntryFront(s1, SearchMac(s.nbrs, e.dest), e) ELSE s1)

\* The event is being executed, so the timer may be scheduled again.  An
\* entry the output queue refuses is gone.
Retransmit(s) ==
  LET e == Retry(Head(s.rtqueue))
      s1 == [s EXCEPT !.rtqueue = Tail(@), !.queue = EnqueueFront(@, e), !.timer = "running"]
      pos == SearchMac(s.nbrs, e.dest)
      s2 == IF ~Accepts(s.queue, e) THEN s1
            ELSE IF pos = 0 THEN Abort(s1, "NeighborLost")
            ELSE AddVirtualQueueEntryFront(s1, pos, e)
  IN  IF s.rtqueue = <<>> THEN [s EXCEPT !.timer = "idle"] ELSE TrySend(s2)

-------------------------------------------------------------------------------
(* Receiving.  f is a frame heard by radio d; sends is what IP does with   *)
(* the packet it is given: at most one packet sent at once.                *)

AmINext(s, f) == \E x \in f.natives : x.mac \in Macs(s.me)

\* The native addressed to the first of this node's radios that has one.
NativeForMe(s, f) ==
  LET mine == {d \in Devices(s.me) : \E x \in f.natives : x.mac = RadiosOf[s.me][d].mac}
  IN  (CHOOSE x \in f.natives : x.mac = RadiosOf[s.me][Min(mine)].mac).pid

\* The id of a packet is the hash of its content.
Hash(payload) ==
  IF \E pid \in Pid : payload = {pid} THEN CHOOSE pid \in Pid : payload = {pid} ELSE Garbage

\* Packets whose MAC destination is another radio do not reach IP.
ForwardUp(s, d, f, sends) ==
  IF Running(s) /\ sends # NoSend /\ f.dest \in {Broadcast, RadiosOf[s.me][d].mac}
  THEN EnqueueData(s, sends)
  ELSE s

\* Mutations: the packet is not kept for decoding; it is not reported.
HoldUnpooled(s, pid, mac) ==
  IF ~Running(s) THEN s ELSE SetItems([s EXCEPT !.recps = Append(@, pid)], {pid}, mac)
HoldUnreported(s, pid, mac) ==
  IF ~Running(s) THEN s ELSE SetItems([s EXCEPT !.pool = @ \union {pid}], {pid}, mac)

\* A packet this node now holds: to be reported, usable for decoding, and
\* known to be held by the neighbour mac.
Hold(s, pid, mac) ==
  IF ~Running(s) THEN s
  ELSE SetItems([s EXCEPT !.recps = Append(@, pid), !.pool = @ \union {pid}], {pid}, mac)

\* The natives of f that are not in the pool.
Missing(s, f) == {x.pid : x \in f.natives} \ s.pool

\* Mutation: the payload is taken as it is.
DecodedNot(s, f) == f.payload

Decoded(s, f) == XOR(f.payload, {x.pid : x \in f.natives} \intersect s.pool)

AddAck(s, ip, pid) == [s EXCEPT !.acks = Append(@, [ip |-> ip, pid |-> pid])]

\* Mutation: a frame that brings nothing new is taken for a decoded one.
RecvCodedAgain(s, d, f, mac, sends) ==
  LET pid == NativeForMe(s, f)
  IN  IF Cardinality(Missing(s, f)) > 1 \/ ~AmINext(s, f) THEN s
      ELSE IF pid \notin Missing(s, f) THEN Abort(s, "DecodedOther")
      ELSE Hold(ForwardUp(AddAck(s, NodeIP(f.from), pid), d, f, sends), pid, mac)

\* Exactly one native must be missing (two natives never are one packet:
\* both were in one queue).  Its next hop acknowledges it.
RecvCoded(s, d, f, mac, sends) ==
  LET pid == NativeForMe(s, f)
  IN  IF Cardinality(Missing(s, f)) # 1 THEN s
      ELSE IF \E x \in f.natives : x.mac = Broadcast THEN Abort(s, "BroadcastCoded")
      ELSE IF ~AmINext(s, f) THEN Hold(s, Hash(Decoded(s, f)), mac)
      ELSE IF pid \notin Missing(s, f) THEN Abort(s, "DecodedOther")
      ELSE IF pid # Hash(Decoded(s, f)) THEN Abort(s, "DecodedHash")
      ELSE Hold(ForwardUp(AddAck(s, NodeIP(f.from), pid), d, f, sends), pid, mac)

RecvPlain(s, d, f, mac, sends) ==
  LET pid == NativeForMe(s, f)
  IN  IF \E x \in f.natives : x.mac = Broadcast THEN ForwardUp(s, d, f, sends)
      ELSE IF ~AmINext(s, f) THEN Hold(s, Hash(f.payload), mac)
      ELSE IF pid # Hash(f.payload) THEN Abort(s, "PlainHash")
      ELSE Hold(ForwardUp(s, d, f, sends), pid, mac)

\* Mutation: acknowledgments for other nodes count.
EraseAckedOfAll(s, f) ==
  [s EXCEPT !.rtqueue = ForEach(Len(f.acks), @, LAMBDA i, q : Erase(q, f.acks[i].pid))]

EraseAcked(s, f) ==
  LET EraseAck(i, q) == IF f.acks[i].ip = NodeIP(s.me) THEN Erase(q, f.acks[i].pid) ELSE q
  IN  [s EXCEPT !.rtqueue = ForEach(Len(f.acks), @, EraseAck)]

\* The sender is learned, acknowledgments to this node empty the
\* retransmission queue, and everything acknowledged or reported is known
\* to be held by the sender.
RecvHeader(s, d, f) ==
  LET s1 == SMNeighbors(s, NodeIP(f.from), f.src, Channel(s, d))
      mac == GetMac(s1.nbrs[SearchIP(s1.nbrs, NodeIP(f.from))])
  IN  IF Running(s1)
      THEN SetItems(EraseAcked(s1, f), {a.pid : a \in Range(f.acks)} \union f.reports, mac)
      ELSE s1

RecvData(s, d, f, sends) ==
  LET s1 == RecvHeader(s, d, f)
      mac == GetMac(s1.nbrs[SearchIP(s1.nbrs, NodeIP(f.from))])
  IN  IF ~Running(s1) THEN s1
      ELSE TrySend(IF Coded(f) THEN RecvCoded(s1, d, f, mac, sends)
                   ELSE RecvPlain(s1, d, f, mac, sends))

\* A plain packet for another radio of this node is left to that radio.
ForOtherRadio(s, d, f) ==
  ~Coded(f) /\ AmINext(s, f) /\ \A x \in f.natives : x.mac # RadiosOf[s.me][d].mac

Recv(s, d, f, sends) ==
  IF f.src \in Macs(s.me) THEN s
  ELSE IF f.hello
  THEN LET s1 == NeighborLearn(s, RadiosOf[f.from]) IN TrySend(s1)
  ELSE IF ForOtherRadio(s, d, f) THEN s
  ELSE RecvData(s, d, f, sends)
===============================================================================
