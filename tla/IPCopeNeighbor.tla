---------------------------- MODULE IPCopeNeighbor ----------------------------
(***************************************************************************)
(* IPCopeNeighbor and IPCopeNeighbors: what a node knows about the radios  *)
(* of its neighbours, and the virtual queue it keeps for each of them.     *)
(*                                                                         *)
(* The operators work on any record s with the fields nbrs (the deque      *)
(* m_neighbors) and abort.  Positions are 1-based and 0 means "not found"  *)
(* (-1 in the code).  The radios of a record are a set: their order only   *)
(* matters to Index, and only for two radios on one channel.               *)
(***************************************************************************)
EXTENDS IPCopeQueue

GetMac(nbr) == Min({t.mac : t \in nbr.pairs})
GetChannels(nbr) == {t.channel : t \in nbr.pairs}
HasMac(nbr, mac) == \E t \in nbr.pairs : t.mac = mac
HasIP(nbr, ip) == \E t \in nbr.pairs : t.ip = ip
Index(nbr, channel) == (CHOOSE t \in nbr.pairs : t.channel = channel).mac

SearchMac(nbrs, mac) == SelectInSeq(nbrs, LAMBDA nbr : HasMac(nbr, mac))
SearchIP(nbrs, ip) == SelectInSeq(nbrs, LAMBDA nbr : HasIP(nbr, ip))

\* The strict form makes room for t: it drops every radio that shares an
\* address or the channel with t.  The soft form only adds.
AddTrinity(pairs, t) ==
  {u \in pairs : u.ip # t.ip /\ u.mac # t.mac /\ u.channel # t.channel} \union {t}
AddSoftTrinity(pairs, t) == pairs \union {t}

-------------------------------------------------------------------------------
(* Virtual queues                                                          *)

AddVirtualQueueEntry(s, pos, e) ==
  IF e.id \in Ids(s.nbrs[pos].vq)
  THEN Abort(s, "DuplicateVirtual")
  ELSE [s EXCEPT !.nbrs[pos].vq = Append(@, e)]

AddVirtualQueueEntryFront(s, pos, e) ==
  IF e.id \in Ids(s.nbrs[pos].vq)
  THEN Abort(s, "DuplicateVirtual")
  ELSE [s EXCEPT !.nbrs[pos].vq = <<e>> \o @]

-------------------------------------------------------------------------------
(* The directory                                                           *)

ShareAddress(nbr1, nbr2) ==
  \/ \E t \in nbr1.pairs : t.ip # NoIP /\ HasIP(nbr2, t.ip)
  \/ \E t \in nbr1.pairs : HasMac(nbr2, t.mac)

\* A record that shares an address with a known one is not added, and its
\* virtual queue is lost.
AddNeighbor(nbrs, nbr) ==
  IF \E i \in DOMAIN nbrs : ShareAddress(nbr, nbrs[i]) THEN nbrs ELSE Append(nbrs, nbr)

\* Move the record at pos into r.fresh, virtual queue included, and drop it
\* from the directory; moving a packet id twice ends the simulation.
Absorb(r, pos) ==
  IF pos = 0 \/ ~Running(r) THEN r
  ELSE IF Ids(r.fresh.vq) \intersect Ids(r.nbrs[pos].vq) # {}
  THEN Abort(r, "DuplicateVirtual")
  ELSE [r EXCEPT !.nbrs = RemoveAt(@, pos),
                 !.fresh.vq = @ \o r.nbrs[pos].vq]

\* One pair of a hello: the records that know its MAC, then its IP, are
\* folded into the fresh one.
LearnPair(r, t) ==
  LET r1 == Absorb(r, SearchMac(r.nbrs, t.mac))
      r2 == Absorb(r1, SearchIP(r1.nbrs, t.ip))
  IN  IF Running(r2) THEN [r2 EXCEPT !.fresh.pairs = AddTrinity(@, t)] ELSE r2

\* A hello replaces every record that knows a radio of its sender by one
\* record with exactly the radios the hello lists.
NeighborLearn(s, hello) ==
  LET r0 == [nbrs |-> s.nbrs, fresh |-> [pairs |-> {}, vq |-> <<>>], abort |-> s.abort]
      r == ForEach(Len(hello), r0, LAMBDA i, q : LearnPair(q, hello[i]))
  IN  IF Running(r)
      THEN [s EXCEPT !.nbrs = AddNeighbor(r.nbrs, r.fresh)]
      ELSE Abort(s, r.abort)

\* Mutations: the folded record stays; its virtual queue is lost.
MergeAndKeep(s, posIp, posMac, t) ==
  [s EXCEPT !.nbrs[posIp].pairs = @ \union AddTrinity(s.nbrs[posMac].pairs, t)]
MergeAddresses(s, posIp, posMac, t) ==
  [s EXCEPT !.nbrs =
     RemoveAt([@ EXCEPT ![posIp].pairs = @ \union AddTrinity(s.nbrs[posMac].pairs, t)], posMac)]

\* Fold the record at posMac into the one at posIp.
Merge(s, posIp, posMac, t) ==
  LET moved == s.nbrs[posMac]
  IN  IF Ids(s.nbrs[posIp].vq) \intersect Ids(moved.vq) # {}
      THEN Abort(s, "DuplicateVirtual")
      ELSE LET kept == [pairs |-> s.nbrs[posIp].pairs \union AddTrinity(moved.pairs, t),
                        vq |-> s.nbrs[posIp].vq \o moved.vq]
           IN  [s EXCEPT !.nbrs = RemoveAt([@ EXCEPT ![posIp] = kept], posMac)]

\* What a data frame teaches: its sender's address, radio and channel.
SMNeighbors(s, ip, mac, channel) ==
  LET posIp == SearchIP(s.nbrs, ip)
      posMac == SearchMac(s.nbrs, mac)
      t == [ip |-> ip, mac |-> mac, channel |-> channel]
  IN  CASE posIp # 0 /\ posMac = 0 ->
             [s EXCEPT !.nbrs[posIp].pairs = AddSoftTrinity(@, t)]
        [] posIp = 0 /\ posMac # 0 ->
             [s EXCEPT !.nbrs[posMac].pairs = AddTrinity(@, t)]
        [] posIp # 0 /\ posMac # 0 /\ posIp = posMac -> s
        [] posIp # 0 /\ posMac # 0 /\ posIp # posMac -> Merge(s, posIp, posMac, t)
        [] posIp = 0 /\ posMac = 0 ->
             LET nbrs == AddNeighbor(s.nbrs, [pairs |-> {t}, vq |-> <<>>])
             IN  IF nbrs = s.nbrs THEN Abort(s, "NewNeighbor") ELSE [s EXCEPT !.nbrs = nbrs]
===============================================================================
