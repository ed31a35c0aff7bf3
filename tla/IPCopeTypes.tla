----------------------------- MODULE IPCopeTypes -----------------------------
(***************************************************************************)
(* The data shared by every part of IPCope: radios, packets, queue         *)
(* entries, neighbour records and frames.                                  *)
(*                                                                         *)
(* Addresses are natural numbers, because the code orders them (the        *)
(* smallest MAC names a neighbour, the smallest IP names a node); 0 stands *)
(* for ff:ff:ff:ff:ff:ff as a destination and for 0.0.0.0 as an IP.  A     *)
(* packet is its id, the hash of its IP payload.                           *)
(***************************************************************************)
EXTENDS Integers, SequencesExt

CONSTANTS
  Node,        \* the nodes of the ad hoc network
  RadiosOf,    \* RadiosOf[n]: the radios of node n, in device order
  Pid,         \* packet ids that occur
  Garbage,     \* the id of bytes that are no packet anybody sent
  QueueMax,    \* m_max of an IPCopeQueue (800 in the code)
  MacMax       \* capacity of a radio's MAC queue (10 in the code)

Broadcast == 0
NoIP == 0

\* AddressPair: one radio as hellos and neighbour records describe it.
Trinity == [ip: Nat, mac: Nat \ {0}, channel: Nat]

ASSUME RadiosAssumption ==
  /\ RadiosOf \in [Node -> Seq(Trinity)]
  /\ \A n \in Node : RadiosOf[n] # <<>>

ASSUME PidAssumption == Garbage \in Pid

ASSUME BoundsAssumption == QueueMax \in Nat \ {0} /\ MacMax \in Nat \ {0}

Devices(n) == 1..Len(RadiosOf[n])
Macs(n) == {RadiosOf[n][d].mac : d \in Devices(n)}

IPs(n) == {RadiosOf[n][d].ip : d \in Devices(n)}

\* The address a node puts in its headers: its smallest IP.
NodeIP(n) == Min(IPs(n))

\* Addresses name one node, and the radios of a node differ in MAC, IP and
\* channel.  Nothing in the code demands it; what needs it says so.
WellConfigured ==
  /\ \A m, n \in Node : m # n => Macs(m) \intersect Macs(n) = {} /\ IPs(m) \intersect IPs(n) = {}
  /\ \A n \in Node : NoIP \notin IPs(n)
  /\ \A n \in Node : \A d, e \in Devices(n) : d # e =>
       /\ RadiosOf[n][d].mac # RadiosOf[n][e].mac
       /\ RadiosOf[n][d].ip # RadiosOf[n][e].ip
       /\ RadiosOf[n][d].channel # RadiosOf[n][e].channel

\* The channels that somebody uses.
Channels == UNION {{RadiosOf[n][d].channel : d \in Devices(n)} : n \in Node}

\* All radios can hear each other.
OneChannel == \A c, d \in Channels : c = d

\* A queue entry is dropped from the retransmission cycle once it was
\* retried MaxRetry times.
MaxRetry == 3

Entry == [id: Pid, dest: Nat, iface: Nat \ {0}, retry: 0..MaxRetry, hello: BOOLEAN]

\* Entries waiting for an acknowledgment have a retry left.
RtEntry == {e \in Entry : e.retry # MaxRetry}

\* A neighbour record: its known radios and its virtual queue, whose
\* elements are pointers into the output queue, modelled by the entries
\* they point to (list nodes are never modified in place).
Neighbor == [pairs: (SUBSET Trinity) \ {{}}, vq: Seq(Entry)]

Ack == [ip: Nat, pid: Pid]
Native == [mac: Nat, pid: Pid]

\* What ForwardDown hands to a radio.  A hello lists the radios of its
\* sender; a data frame carries the natives combined in its payload.
Frame == [hello: BOOLEAN, from: Node, src: Nat \ {0}, dest: Nat,
          natives: SUBSET Native, payload: SUBSET Pid,
          reports: SUBSET Pid, acks: Seq(Ack)]

Coded(f) == \E x, y \in f.natives : x # y

\* NS_ASSERT and NS_FATAL_ERROR end the simulation: a handler that reaches
\* one stops, and "abort" names the place.
Running(s) == s.abort = "none"
Abort(s, where) == [s EXCEPT !.abort = where]

\* A loop over 1..n that updates r.
ForEach(n, r, Body(_, _)) ==
  LET iteration[i \in 0..n] == IF i = 0 THEN r ELSE Body(i, iteration[i - 1])
  IN  iteration[n]
===============================================================================
