----------------------------- MODULE IPCopeQueue -----------------------------
(***************************************************************************)
(* IPCopeQueue: the output queue and the retransmission queue of a node.   *)
(* A queue holds at most QueueMax entries and no two with the same packet  *)
(* id; an entry that would break either rule is refused.                   *)
(***************************************************************************)
EXTENDS IPCopeTypes

Ids(q) == {q[i].id : i \in DOMAIN q}

\* Mutation: packet ids are not compared.
AcceptsTwins(q, e) == Len(q) # QueueMax

Accepts(q, e) == Len(q) # QueueMax /\ e.id \notin Ids(q)

EnqueueBack(q, e) == IF Accepts(q, e) THEN Append(q, e) ELSE q
EnqueueFront(q, e) == IF Accepts(q, e) THEN <<e>> \o q ELSE q

PositionOf(q, pid) == SelectInSeq(q, LAMBDA e : e.id = pid)

Erase(q, pid) ==
  IF pid \in Ids(q) THEN RemoveAt(q, PositionOf(q, pid)) ELSE q

\* Mutations: one retry too many; retries that are not counted.
HitMaxLate(e) == e.retry > MaxRetry
RetryUncounted(e) == e

HitMax(e) == e.retry = MaxRetry
Retry(e) == [e EXCEPT !.retry = @ + 1]
===============================================================================
