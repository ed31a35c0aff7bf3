---------------------------- MODULE IPCopeNetwork ----------------------------
(***************************************************************************)
(* Several IPCope nodes and the medium between their radios.  Every frame  *)
(* a node hears was sent by another one; applications send each packet     *)
(* once and IP forwards it along fixed routes.                             *)
(*                                                                         *)
(* A frame leaves the MAC queue of its sender and is handled by everybody  *)
(* who hears it in one step.  A handler touches the state of its own node  *)
(* only, so the reception of one frame at two nodes, and the events in     *)
(* between, can be executed in either order.                               *)
(***************************************************************************)
EXTENDS IPCopeNode

CONSTANTS
  Near,        \* <<m, n>> when n hears what m sends on a channel they share
  Flow,        \* what applications send: records [node, pid]
  Route,       \* Route[n][pid]: what IP of n sends when it is given pid, and
               \* NoSend when pid is for n
  Greeters,    \* the nodes that say hello
  HelloIds,    \* values the memory of an uninitialized m_packetId may hold
  MaxHellos,   \* bound on the hello timers that expire
  MaxMissed,   \* bound on the receptions that fail
  ReliableMac  \* whether the MAC destination of a frame always hears it

\* A node does not hear itself.
ASSUME NearAssumption == Near \subseteq {l \in Node \X Node : l[1] # l[2]}

ASSUME RouteAssumption ==
  /\ Route \in [Node -> [Pid -> IPSend \union {NoSend}]]
  /\ \A n \in Node, pid \in Pid :
       LET x == Route[n][pid]
       IN  x # NoSend => x.id = pid /\ x.dest # Broadcast /\ x.iface \in Devices(n)

ASSUME FlowAssumption ==
  Flow \subseteq [node: Node, pid: Pid] /\ \A x \in Flow : Route[x.node][x.pid] # NoSend

ASSUME MediumAssumption ==
  /\ Greeters \subseteq Node /\ HelloIds \subseteq Pid /\ MaxHellos \in Nat
  /\ MaxMissed \in Nat /\ ReliableMac \in BOOLEAN

Forwards(n, pid) == Route[n][pid] # NoSend
Leads(n, m, pid) == Forwards(n, pid) /\ Route[n][pid].dest \in Macs(m)
NextNode(n, pid) == CHOOSE m \in Node : Leads(n, m, pid)

Hops(n) == {Route[n][pid].dest : pid \in {p \in Pid : Forwards(n, p)}}

(* Hypotheses on the network.  None is assumed: what needs one says so.    *)

\* The next hops a node sends to are two radios at most, so that it never
\* codes three packets.
TwoHops == \A n \in Node : \A a, b, c \in Hops(n) : a = b \/ b = c \/ a = c

\* Every packet that is sent on is a packet, and goes to another node.
Routed ==
  \A n \in Node, pid \in Pid :
    Forwards(n, pid) => pid # Garbage /\ \E m \in Node \ {n} : Leads(n, m, pid)

\* A packet reaches a node from one other node only.
OnePath ==
  \A k, n, m \in Node, pid \in Pid : Leads(k, m, pid) /\ Leads(n, m, pid) => k = n

\* Who sends a packet got it from an application, or else from one node that
\* has a single next hop, so that it never codes, and did not get it from
\* yet another one.
CodedOnce ==
  \A n, m \in Node, pid \in Pid :
    Leads(n, m, pid) /\ Forwards(m, pid) =>
      /\ [node |-> m, pid |-> pid] \notin Flow
      /\ \A a, b \in Hops(n) : a = b
      /\ \A k \in Node : ~Leads(k, n, pid)

\* What the memory of a hello holds is no packet that is sent on.
HelloIdsApart == \A n \in Node, pid \in Pid : Forwards(n, pid) => pid \notin HelloIds

\* The next hop of a packet hears whom it gets it from, but nobody else who
\* sends it, and does not send it for an application.
Direct ==
  \A n, m \in Node, pid \in Pid :
    Leads(n, m, pid) =>
      /\ <<n, m>> \in Near
      /\ \A k \in Node \ {n} : Forwards(k, pid) => <<k, m>> \notin Near
      /\ [node |-> m, pid |-> pid] \notin Flow

VARIABLES
  cope,        \* cope[n]: the state of node n
  todo,        \* the flows whose packet is still to be sent
  hellos,      \* how many hello timers expired
  missed,      \* how many receptions failed
  given,       \* given[n][pid]: how often IP of n was given pid
  bypassed     \* <<n, pid>>: n was the next hop of pid in a coded frame whose
               \* MAC destination was another node

vars == <<cope, todo, hellos, missed, given, bypassed>>

Init ==
  /\ cope = [n \in Node |-> Init0(n)]
  /\ todo = Flow
  /\ hellos = 0
  /\ missed = 0
  /\ given = [n \in Node |-> [pid \in Pid |-> 0]]
  /\ bypassed = {}

\* An assertion that fails ends the simulation, not only its node.
Simulating == \A n \in Node : Running(cope[n])

-------------------------------------------------------------------------------
(* The medium.  m hears frame f of radio d of node n with its radio on the *)
(* same channel.                                                           *)

Ear(m, n, d) == DeviceOn(cope[m], Channel(cope[n], d))

Listeners(n, d) == {m \in Node : <<n, m>> \in Near /\ Ear(m, n, d) # 0}

AddressedTo(m, f) == f.dest \in Macs(m) \union {Broadcast}

\* The node has a use for the packet f brings it: it is the next hop, and
\* can decode.
Brings(s, e, f) ==
  /\ ~f.hello
  /\ AmINext(s, f)
  /\ ~ForOtherRadio(s, e, f)
  /\ Coded(f) => Cardinality(Missing(s, f)) = 1

IPReaction(s, f) == IF AmINext(s, f) THEN Route[s.me][NativeForMe(s, f)] ELSE NoSend

Hears(m, n, d, f) == Recv(cope[m], Ear(m, n, d), f, IPReaction(cope[m], f))

\* IP of m does not see what reaches it in a frame for another radio.
ReachesIP(m, e, f) == f.dest = RadiosOf[m][e].mac

\* Radio d of n has sent the first frame of its MAC queue.
MacSend(n, d, hearers) ==
  LET f == Head(cope[n].macq[d])
      deaf == Listeners(n, d) \ hearers
      brought == {m \in hearers : Brings(cope[m], Ear(m, n, d), f)}
      upward == {m \in brought : ReachesIP(m, Ear(m, n, d), f)}
  IN  /\ Simulating
      /\ cope[n].macq[d] # <<>>
      /\ missed + Cardinality(deaf) <= MaxMissed
      /\ ReliableMac => \A m \in deaf : f.dest \notin Macs(m)
      /\ missed' = missed + Cardinality(deaf)
      /\ cope' = [m \in Node |->
                    IF m = n THEN [cope[n] EXCEPT !.macq[d] = Tail(@)]
                    ELSE IF m \in hearers THEN Hears(m, n, d, f)
                    ELSE cope[m]]
      /\ given' = [m \in Node |->
                     IF m \in upward THEN [given[m] EXCEPT ![NativeForMe(cope[m], f)] = @ + 1]
                     ELSE given[m]]
      /\ bypassed' = bypassed \union
                     {<<m, NativeForMe(cope[m], f)>> :
                        m \in {m \in brought : ~AddressedTo(m, f)}}
      /\ UNCHANGED <<todo, hellos>>

-------------------------------------------------------------------------------
(* The events of one node                                                  *)

Unheard == UNCHANGED <<missed, given, bypassed>>

\* An application sends its packet.
Originate(x) ==
  /\ Simulating
  /\ cope' = [cope EXCEPT ![x.node] = EnqueueData(@, Route[x.node][x.pid])]
  /\ todo' = todo \ {x}
  /\ UNCHANGED hellos /\ Unheard

\* m_helloTimer expires, which it does again and again.
HelloTimerExpire(n, ids) ==
  /\ Simulating
  /\ hellos < MaxHellos
  /\ cope' = [cope EXCEPT ![n] = SendHello(@, ids)]
  /\ hellos' = hellos + 1
  /\ UNCHANGED todo /\ Unheard

\* An attempt that sends nothing and finds the timer armed is no step.
Try(n) ==
  LET s == TrySend(cope[n])
  IN  /\ Simulating
      /\ s # cope[n]
      /\ cope' = [cope EXCEPT ![n] = s]
      /\ UNCHANGED <<todo, hellos>> /\ Unheard

\* The time of m_timer comes; other events of that instant may run first.
TimerDue(n) ==
  /\ Simulating
  /\ cope[n].timer = "running"
  /\ cope' = [cope EXCEPT ![n].timer = "due"]
  /\ UNCHANGED <<todo, hellos>> /\ Unheard

TimerExpire(n) ==
  /\ Simulating
  /\ cope[n].timer = "due"
  /\ cope' = [cope EXCEPT ![n] = Retransmit(@)]
  /\ UNCHANGED <<todo, hellos>> /\ Unheard

Next ==
  \/ \E x \in todo : Originate(x)
  \/ \E n \in Greeters : \E ids \in [Devices(n) -> HelloIds] : HelloTimerExpire(n, ids)
  \/ \E n \in Node : Try(n)
  \/ \E n \in Node : TimerDue(n)
  \/ \E n \in Node : TimerExpire(n)
  \/ \E n \in Node : \E d \in Devices(n) : \E hearers \in SUBSET Listeners(n, d) :
       MacSend(n, d, hearers)

Spec == Init /\ [][Next]_vars

\* The timers of every node run and its radios send: weak fairness, with the
\* enabling conditions spelled out.
Fairness ==
  \A n \in Node :
    /\ []<>(~Simulating \/ TrySend(cope[n]) = cope[n]) \/ []<><<Try(n)>>_vars
    /\ []<>(~Simulating \/ cope[n].timer # "running") \/ []<><<TimerDue(n)>>_vars
    /\ []<>(~Simulating \/ cope[n].timer # "due") \/ []<><<TimerExpire(n)>>_vars
    /\ \A d \in Devices(n) :
         \/ []<>(~Simulating \/ cope[n].macq[d] = <<>>)
         \/ []<><<\E hearers \in SUBSET Listeners(n, d) : MacSend(n, d, hearers)>>_vars

FairSpec == Spec /\ Fairness

-------------------------------------------------------------------------------
(* Properties                                                              *)

\* No assertion and no fatal error of the code is reached, except the one
\* ns-3 raises when the retransmission timer is armed while it is due.  Among
\* them are those that a decoded packet is the one announced (lines 493, 494
\* and 529): what IPCopeProtocol assumes of the frames a node hears, nodes
\* guarantee.
NetworkNoAbort == \A n \in Node : cope[n].abort \in {"none", "TimerPending"}

\* A coded frame on its way can be decoded by each of its next hops, even
\* if the sender learned of its natives from frames others sent.
FramesDecodable ==
  Simulating =>
    \A n \in Node : \A d \in Devices(n) : \A f \in Range(cope[n].macq[d]) :
      \A x, y \in f.natives : \A m \in Node :
        x # y /\ x.mac \in Macs(m) => y.pid \in cope[m].pool

\* n keeps pid in a queue or in a frame that is still to be sent.
Retains(n, pid) ==
  \/ pid \in Ids(cope[n].queue) \union Ids(cope[n].rtqueue)
  \/ \E d \in Devices(n) : \E f \in Range(cope[n].macq[d]) :
       pid \in {x.pid : x \in f.natives}

\* How often IP of n has sent pid, if it forwards it.
Asks(n, pid) ==
  given[n][pid] + IF [node |-> n, pid |-> pid] \in Flow \ todo THEN 1 ELSE 0

Asked(n, pid) == Forwards(n, pid) /\ Asks(n, pid) > 0

\* As long as fewer receptions fail than a coded packet has transmissions,
\* MAC destinations hear their frames and the next hop hears a packet from
\* its sender only, no packet is lost on a hop: the node keeps it or the next
\* hop has it.  The next hop has given it to IP, or it has decoded it from a
\* frame whose MAC destination was another node, which IP does not get to
\* see.  A packet is lost, too, when a waiting hello has its id, which
\* HelloIdsApart excludes: the queue refuses it without a trace.
Custody ==
  Simulating =>
    \A n \in Node, pid \in Pid :
      Asked(n, pid) =>
        LET m == NextNode(n, pid)
        IN  Retains(n, pid) \/ given[m][pid] > 0 \/ <<m, pid>> \in bypassed

\* However often a packet is sent and retried, the next hop gives it to IP at
\* most once more than IP of the sender has sent it: coded frames are not
\* decoded twice, and a packet that is sent uncoded is not retried.
AtMostOnceMore ==
  \A n \in Node, pid \in Pid :
    Forwards(n, pid) => given[NextNode(n, pid)][pid] <= Asks(n, pid) + 1

\* On a path on which one node codes, no packet is given to IP three times.
GivenAtMostTwice == \A n \in Node, pid \in Pid : given[n][pid] <= 2

\* Every frame, retry and acknowledgment ends: the network comes to rest
\* although acknowledgments are sent once and may be lost.
ComesToRest ==
  <>[](Simulating =>
         \A n \in Node : /\ cope[n].queue \o cope[n].rtqueue = <<>>
                         /\ \A d \in Devices(n) : cope[n].macq[d] = <<>>)

-------------------------------------------------------------------------------
(* Refinement                                                              *)

Knowledge == INSTANCE IPCopeKnowledge WITH
  Names <- [n \in Node |-> Macs(n)],
  holds <- [n \in Node |-> cope[n].pool],
  believes <- [n \in Node |-> cope[n].info]

\* Whatever is overheard, decoded, reported and acknowledged, what one node
\* believes of another is true, and packets only come from nodes that hold
\* them.
SpreadsTruth == Knowledge!Spec
===============================================================================
