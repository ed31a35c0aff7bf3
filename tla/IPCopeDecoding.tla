---------------------------- MODULE IPCopeDecoding ----------------------------
(***************************************************************************)
(* One frame, byte by byte: the sender combines packets and writes the     *)
(* headers (DoSend, SendHello), the receiver reads them (Recv) and removes *)
(* from the payload, native by native, what it holds in its pool (Decode). *)
(* The turns of Decode's loop are actions.                                 *)
(***************************************************************************)
EXTENDS IPCopeHeader

CONSTANTS
  Packet,      \* the packets the sender may combine
  Mac,         \* the MACs of the next hops
  MaxNatives,  \* bound on the packets combined
  PoolTtl,     \* the TTLs of the copies the receiver holds
  Waiting,     \* what may wait at the sender: records [recps, acks]
  Radios       \* the radios of the sender

ASSUME PacketAssumption ==
  /\ \A p \in Packet : WellFormed(p)
  /\ PoolTtl \subseteq Byte

ASSUME FieldAssumption ==
  /\ Mac \subseteq Nat
  /\ Waiting \subseteq [recps: Seq(Nat), acks: Seq([ip: Nat, pid: Nat])]
  /\ Radios \in Seq([ip: Nat, mac: Nat, channel: Nat]) /\ Radios # <<>>

SenderIP == Min({Radios[i].ip : i \in DOMAIN Radios})

VARIABLES
  natives,     \* what is combined: records [mac, packet], the first one first
  waiting,     \* reports and acknowledgments waiting at the sender
  pool,        \* m_pool of the receiver: a map from ids to packets
  phase,       \* "send", "receive", "loop" and "end" of Decode, "done", or
               \* "abort" (an assertion failed), "undefined" (XOR's overrun)
  built,       \* the header as the sender built it
  frame,       \* the frame on its way
  header,      \* the header as read
  hello,       \* the radios read from a hello
  packet,      \* the payload, from which natives are removed
  next,        \* the position in the map of natives, in the order of MACs
  missing,     \* how many natives were not found in the pool,
  found,       \* how many were,
  pid,         \* and the last one that was not
  result       \* what Decode returns

vars == <<natives, waiting, pool, phase, built, frame, header, hello, packet,
          next, missing, found, pid, result>>

\* Packets with different ids for different next hops: others are never
\* combined.
Combinations ==
  {c \in UNION {[1..n -> [mac: Mac, packet: Packet]] : n \in 1..MaxNatives} :
     IsInjective([i \in DOMAIN c |-> c[i].mac]) /\
     IsInjective([i \in DOMAIN c |-> Hash(c[i].packet)])}

\* A copy overheard on another hop has another TTL.
Heard(ttl) ==
  [id \in {Hash(natives[i].packet) : i \in DOMAIN ttl} |->
     LET i == CHOOSE i \in DOMAIN ttl : Hash(natives[i].packet) = id
     IN  SetTtl(natives[i].packet, ttl[i])]

Init ==
  /\ natives \in Combinations
  /\ waiting \in Waiting
  /\ \E held \in SUBSET DOMAIN natives : \E ttl \in [held -> PoolTtl] : pool = Heard(ttl)
  /\ phase = "send"
  /\ built = NewHeader(0) /\ frame = <<>> /\ header = NewHeader(0)
  /\ hello = <<>> /\ packet = <<>>
  /\ next = 1 /\ missing = 0 /\ found = 0 /\ pid = 0 /\ result = 0

-------------------------------------------------------------------------------
(* The sender                                                              *)

\* The first packet, or its sum with the last one combined.
Payload ==
  IF Len(natives) = 1 THEN natives[1].packet
  ELSE XOR(natives[1].packet, natives[Len(natives)].packet)

\* What is combined, and what waits, entry by entry.
BuiltHeader ==
  LET named[i \in 0..Len(natives)] ==
        IF i = 0 THEN NewHeader(SenderIP)
        ELSE AddIdNexthop(named[i - 1], natives[i].mac, Hash(natives[i].packet))
      reporting[i \in 0..Len(waiting.recps)] ==
        IF i = 0 THEN named[Len(natives)]
        ELSE AddRecpReport(reporting[i - 1], waiting.recps[i])
      acking[i \in 0..Len(waiting.acks)] ==
        IF i = 0 THEN reporting[Len(waiting.recps)]
        ELSE AddAckBlock(acking[i - 1], waiting.acks[i])
  IN  acking[Len(waiting.acks)]

SendData ==
  /\ phase = "send"
  /\ phase' = "receive"
  /\ built' = BuiltHeader
  /\ frame' = <<DATA>> \o Serialize(BuiltHeader) \o Payload
  /\ UNCHANGED <<natives, waiting, pool, header, hello, packet, next, missing,
                 found, pid, result>>

SendHello ==
  /\ phase = "send"
  /\ phase' = "receive"
  /\ frame' = <<HELLO>> \o SerializeHello(Radios)
  /\ UNCHANGED <<natives, waiting, pool, built, header, hello, packet, next,
                 missing, found, pid, result>>

-------------------------------------------------------------------------------
(* The receiver                                                            *)

RecvHello ==
  /\ phase = "receive" /\ Head(frame) = HELLO
  /\ phase' = "done"
  /\ hello' = DeserializeHello(Tail(frame))
  /\ UNCHANGED <<natives, waiting, pool, built, frame, header, packet, next,
                 missing, found, pid, result>>

\* The bytes read are compared with the size of the header they make.
RecvData ==
  /\ phase = "receive" /\ Head(frame) = DATA
  /\ LET read == Deserialize(Tail(frame))
     IN  /\ header' = read.header
         /\ packet' = read.rest
         /\ phase' = IF read.dist # GetSerializedSize(read.header) THEN "abort"
                     ELSE IF read.header.encodedNum > 1 THEN "loop"
                     ELSE "done"
  /\ UNCHANGED <<natives, waiting, pool, built, frame, hello, next, missing,
                 found, pid, result>>

EncodedNum == Cardinality(DOMAIN header.natives)

\* The native the loop of Decode has come to.
Current == header.natives[NextHops(header)[next]]

InLoop == phase = "loop" /\ next <= EncodedNum

\* Mutation: a second missing native does not end the loop.
MissOnly ==
  /\ InLoop /\ Current \notin DOMAIN pool
  /\ missing' = missing + 1
  /\ pid' = Current /\ next' = next + 1
  /\ UNCHANGED <<natives, waiting, pool, phase, built, frame, header, hello,
                 packet, found, result>>

Miss ==
  /\ InLoop /\ Current \notin DOMAIN pool
  /\ missing' = missing + 1
  /\ IF missing' > 1
     THEN phase' = "done" /\ result' = -1 /\ UNCHANGED <<pid, next>>
     ELSE pid' = Current /\ next' = next + 1 /\ UNCHANGED <<phase, result>>
  /\ UNCHANGED <<natives, waiting, pool, built, frame, header, hello, packet, found>>

\* Mutation: the last native found is removed, too.
FindAll ==
  /\ InLoop /\ Current \in DOMAIN pool
  /\ found' = found + 1
  /\ packet' = XOR(pool[Current], packet)
  /\ next' = next + 1
  /\ phase' = IF packet' = Overrun THEN "undefined" ELSE phase
  /\ UNCHANGED <<natives, waiting, pool, built, frame, header, hello, missing,
                 pid, result>>

\* When all are found, the last one stays.
Find ==
  /\ InLoop /\ Current \in DOMAIN pool
  /\ found' = found + 1
  /\ IF found' < EncodedNum
     THEN /\ packet' = XOR(pool[Current], packet)
          /\ next' = next + 1
          /\ phase' = IF packet' = Overrun THEN "undefined" ELSE phase
     ELSE phase' = "end" /\ UNCHANGED <<packet, next>>
  /\ UNCHANGED <<natives, waiting, pool, built, frame, header, hello, missing,
                 pid, result>>

Exhaust ==
  /\ phase = "loop" /\ next > EncodedNum
  /\ phase' = "end"
  /\ UNCHANGED <<natives, waiting, pool, built, frame, header, hello, packet,
                 next, missing, found, pid, result>>

\* Recv gives a decoded packet a fresh TTL (lines 482 to 484).
Return ==
  /\ phase = "end"
  /\ phase' = "done"
  /\ IF missing = 0 /\ found = EncodedNum
     THEN result' = -2 /\ UNCHANGED packet
     ELSE result' = pid /\ packet' = SetTtl(packet, FreshTtl)
  /\ UNCHANGED <<natives, waiting, pool, built, frame, header, hello, next,
                 missing, found, pid>>

Next ==
  \/ SendData \/ SendHello
  \/ RecvHello \/ RecvData
  \/ Miss \/ Find \/ Exhaust \/ Return

Spec == Init /\ [][Next]_vars

-------------------------------------------------------------------------------
(* Properties                                                              *)

\* What is read is what was written: the headers in front of each other,
\* reports heard twice, natives in the order of their MACs, the payload.
HeadersSurvive ==
  /\ phase # "abort"
  /\ phase = "done" /\ Head(frame) = HELLO => hello = Radios
  /\ phase \in {"loop", "end", "done"} /\ Head(frame) = DATA => header = built
  /\ phase \in {"loop", "done"} /\ missing + found = 0 /\ Head(frame) = DATA => packet = Payload

CodedDone == phase = "done" /\ Head(frame) = DATA /\ Len(natives) > 1

NotHeld == {Hash(natives[i].packet) : i \in DOMAIN natives} \ DOMAIN pool

\* Whatever the order in which natives are looked up, and wherever the loop
\* is left early, what Decode returns depends on how many are missing:
\* IPCopeNode's RecvCoded is written in terms of that number.
DecodeCounts ==
  CodedDone =>
    \/ NotHeld = {} /\ result = -2
    \/ NotHeld = {result}
    \/ Cardinality(NotHeld) > 1 /\ result = -1

\* Of two packets that do not end in zero bytes, the one the receiver does
\* not hold comes out byte by byte, although lengths differ and its copy of
\* the other one has another TTL: what makes payloads sets of natives in
\* IPCopeNode.
TwoNativesDecode ==
  CodedDone /\ Len(natives) = 2 =>
    \A i \in DOMAIN natives :
      NotHeld = {Hash(natives[i].packet)} => packet = SetTtl(natives[i].packet, FreshTtl)

\* The search of XOR for the last byte stays in its buffer when two packets
\* are combined, even if the receiver holds both.
TwoNativesStayInBounds == Len(natives) < 3 => phase # "undefined"

\* Line 494: the packet decoded is the one announced.
AnnouncedIsDecoded ==
  CodedDone /\ Len(natives) = 2 /\ NotHeld # {} /\ result > -1 => Hash(packet) = result

\* Lines 548 to 550: 0 when every packet is held.
AllHeldReturnsZero == CodedDone /\ NotHeld = {} => result = 0
===============================================================================
