---------------------------- MODULE IPCopePacket ----------------------------
(***************************************************************************)
(* IP packets as bytes: how two of them are combined, how one is           *)
(* identified.  The other modules identify a packet with its id and a      *)
(* coded payload with the set of its natives; here is what that rests on.  *)
(*                                                                         *)
(* A packet is a sequence of bytes, and its IPv4 header is the first two   *)
(* of them: the TTL, which every hop lowers, and the length of the body.   *)
(***************************************************************************)
EXTENDS Integers, SequencesExt

CONSTANTS
  Byte,        \* the values of a byte; 0 is one of them
  ByteXor(_, _), \* the sum of two bytes
  Word,        \* the bytes the hash takes at a time (4 in the code)
  FreshTtl     \* the TTL of a decoded packet (64 in the code)

ASSUME ByteAssumption ==
  /\ 0 \in Byte /\ Byte \subseteq Nat
  /\ \A a, b \in Byte : ByteXor(a, b) \in Byte /\ ByteXor(a, b) = ByteXor(b, a)
  /\ \A a, b \in Byte : ByteXor(a, ByteXor(a, b)) = b
  /\ \A a \in Byte : ByteXor(a, a) = 0

ASSUME WordAssumption == Word \in Nat \ {0} /\ FreshTtl \in Byte

HeaderLen == 2

SetTtl(p, ttl) == [p EXCEPT ![1] = ttl]

\* The header of a packet IP sends says how long the body is.
WellFormed(p) == p \in Seq(Byte) /\ Len(p) > HeaderLen /\ p[2] = Len(p) - HeaderLen

Body(p) == SubSeq(p, HeaderLen + 1, Len(p))

-------------------------------------------------------------------------------
(* Combining                                                               *)

\* Bytes past the end count as zero.
At(p, i) == IF i \in 1..Len(p) THEN p[i] ELSE 0

Big(p, q) == IF Len(p) > Len(q) THEN Len(p) ELSE Len(q)

ByteSum(p, q) == [i \in 1..Big(p, q) |-> ByteXor(At(p, i), At(q, i))]

AllZero(b) == \A i \in DOMAIN b : b[i] = 0

\* The length of b without the zero bytes at its end.
TrueLen(b) ==
  CHOOSE n \in 1..Len(b) : b[n] # 0 /\ \A i \in 1..Len(b) : i > n => b[i] = 0

\* The search for the last byte that is not zero does not stop at the first
\* byte: without such a byte it reads in front of the buffer, which leaves
\* the outcome open.
Overrun == <<>>

\* Mutation: the zero bytes at the end stay.
XORUntrimmed(p, q) == IF AllZero(ByteSum(p, q)) THEN Overrun ELSE ByteSum(p, q)

XOR(p, q) ==
  LET b == ByteSum(p, q)
  IN  IF AllZero(b) THEN Overrun ELSE SubSeq(b, 1, TrueLen(b))

-------------------------------------------------------------------------------
(* Identifying                                                             *)

\* What the hash reads: the body, and one to Word zero bytes.
Padded(body) ==
  [i \in 1..Len(body) + Word - (Len(body) % Word) |-> At(body, i)]

\* An id depends on all that is read, in order.  Distinct padded bodies have
\* distinct ids: the collisions of the 32-bit mixing are left out.
Hash(p) ==
  FoldLeft(LAMBDA key, b : key * Cardinality(Byte) + b, 1, Padded(Body(p)))
===============================================================================
