----------------------------- MODULE IPCopeHeader -----------------------------
(***************************************************************************)
(* The headers of a frame: IPCopeType in front of an IPCopeHello or of an  *)
(* IPCopeHeader with its payload, as protocol engine and ns-3 write and    *)
(* read them.  A frame is a sequence of fields; how many bytes each takes  *)
(* only matters to the sizes that are compared.  The counters, of 8 and 16 *)
(* bits, count radios and neighbours and stay far from their limits.       *)
(***************************************************************************)
EXTENDS IPCopePacket

HELLO == 1
DATA == 2

\* natives is a map from MACs to ids.
NewHeader(ip) ==
  [ip |-> ip, encodedNum |-> 0, natives |-> <<>>, reportNum |-> 0, recps |-> <<>>,
   ackNum |-> 0, acks |-> <<>>]

\* One next hop has one native.
AddIdNexthop(h, mac, pid) ==
  IF mac \in DOMAIN h.natives THEN h
  ELSE [h EXCEPT !.natives = [m \in DOMAIN @ \union {mac} |-> IF m = mac THEN pid ELSE @[m]],
                 !.encodedNum = @ + 1]

\* Mutation: a report that is there already is counted.
AddRecpReportCounted(h, pid) ==
  [h EXCEPT !.recps = IF Contains(@, pid) THEN @ ELSE Append(@, pid),
            !.reportNum = @ + 1]

\* A packet heard twice is reported once.
AddRecpReport(h, pid) ==
  IF Contains(h.recps, pid) THEN h
  ELSE [h EXCEPT !.recps = Append(@, pid), !.reportNum = @ + 1]

AddAckBlock(h, ack) ==
  [h EXCEPT !.acks = Append(@, ack), !.ackNum = @ + 1]

-------------------------------------------------------------------------------
(* Data headers                                                            *)

\* The next hops in the order of the map.
NextHops(h) ==
  CHOOSE hops \in [1..Cardinality(DOMAIN h.natives) -> DOMAIN h.natives] :
    \A i, j \in DOMAIN hops : i < j => hops[i] < hops[j]

Serialize(h) ==
  <<h.ip, h.encodedNum>>
    \o FlattenSeq([i \in 1..Len(NextHops(h)) |-> <<NextHops(h)[i], h.natives[NextHops(h)[i]]>>])
    \o <<h.reportNum>> \o h.recps \o <<h.ackNum>>
    \o FlattenSeq([i \in 1..Len(h.acks) |-> <<h.acks[i].ip, h.acks[i].pid>>])

\* In bytes: an IP, three counters of two bytes, and per native, report and
\* acknowledgment a MAC and an id, an id, an IP and an id.
GetSerializedSize(h) ==
  4 + 2 + 10 * Cardinality(DOMAIN h.natives) + 2 + 4 * Len(h.recps) + 2 + 8 * Len(h.acks)

\* The header at the front of w, what is left of w, and the bytes read.
Deserialize(w) ==
  LET n == At(w, 2)
      r == At(w, 3 + 2 * n)
      a == At(w, 4 + 2 * n + r)
      mac(i) == At(w, 1 + 2 * i)
      first(m) == CHOOSE i \in 1..n : mac(i) = m /\ \A j \in 1..n : mac(j) = m => i <= j
      ack(i) == 3 + 2 * n + r + 2 * i
  IN  [header |->
         [ip |-> At(w, 1), encodedNum |-> n,
          natives |-> [m \in {mac(i) : i \in 1..n} |-> At(w, 2 + 2 * first(m))],
          reportNum |-> r, recps |-> [i \in 1..r |-> At(w, 3 + 2 * n + i)],
          ackNum |-> a,
          acks |-> [i \in 1..a |-> [ip |-> At(w, ack(i)), pid |-> At(w, ack(i) + 1)]]],
       rest |-> SubSeq(w, 5 + 2 * n + r + 2 * a, Len(w)),
       dist |-> 4 + 2 + 10 * n + 2 + 4 * r + 2 + 8 * a]

-------------------------------------------------------------------------------
(* Hellos: the radios of a node                                            *)

SerializeHello(hello) ==
  <<Len(hello)>>
    \o FlattenSeq([i \in 1..Len(hello) |-> <<hello[i].ip, hello[i].mac, hello[i].channel>>])

DeserializeHello(w) ==
  [i \in 1..At(w, 1) |->
     [ip |-> At(w, 3 * i - 1), mac |-> At(w, 3 * i), channel |-> At(w, 3 * i + 1)]]
===============================================================================
