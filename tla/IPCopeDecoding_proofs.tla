------------------------- MODULE IPCopeDecoding_proofs -------------------------
(***************************************************************************)
(* One frame: combining two packets loses neither, headers are read as     *)
(* they were written whatever their size, and Decode finds out which       *)
(* native is missing and recovers it.                                      *)
(***************************************************************************)
EXTENDS IPCopeDecoding, SequenceTheorems, FiniteSetTheorems, WellFoundedInduction, TLAPS

-------------------------------------------------------------------------------
(* Two packets                                                             *)

\* A non-empty set of positions has a last one.
LEMMA LastPosition ==
  ASSUME NEW n \in Nat, NEW T \in SUBSET (1..n), T # {}
  PROVE  \E m \in T : \A k \in T : k <= m
<1> DEFINE D == {n - k : k \in T}
<1>1. D \in SUBSET Nat
  <2>1. \A k \in T : n - k \in Nat
    OBVIOUS
  <2> QED BY <2>1
<1>2. PICK j \in T : TRUE
  OBVIOUS
<1>3. n - j \in D
  OBVIOUS
<1>4. PICK x \in D : x \in Nat /\ \A y \in D : x <= y
  <2> HIDE DEF D
  <2>1. PICK x \in D : \A y \in D : ~ (<<y, x>> \in OpToRel(<, Nat))
    <3> HIDE DEF OpToRel
    <3> QED BY <1>1, <1>3, WFMin, NatLessThanWellFounded
  <2>2. \A y \in D : ~ (y < x)
    BY <1>1, <2>1 DEF OpToRel
  <2>3. x \in Nat /\ D \subseteq Nat
    BY <1>1
  <2> QED BY <2>2, <2>3
<1>5. PICK m \in T : x = n - m
  OBVIOUS
<1>6. ASSUME NEW k \in T PROVE k <= m
  <2>1. x <= n - k
    BY <1>4
  <2>2. m \in 1..n /\ k \in 1..n
    OBVIOUS
  <2> QED BY <2>1, <2>2, <1>5
<1> QED BY <1>6

LEMMA AtByte ==
  ASSUME NEW p \in Seq(Byte), NEW i
  PROVE  At(p, i) \in Byte
BY ByteAssumption DEF At

\* Adding zero changes nothing, and only equal bytes cancel out.
LEMMA ZeroByte ==
  ASSUME NEW a \in Byte, NEW b \in Byte
  PROVE  /\ ByteXor(a, 0) = a
         /\ ByteXor(a, b) = 0 => a = b
<1>1. ByteXor(a, ByteXor(a, a)) = a /\ ByteXor(a, a) = 0 /\ ByteXor(a, ByteXor(a, b)) = b
  BY ByteAssumption
<1> QED BY <1>1

LEMMA SumType ==
  ASSUME NEW p \in Seq(Byte), NEW q \in Seq(Byte)
  PROVE  /\ ByteSum(p, q) \in Seq(Byte)
         /\ Len(ByteSum(p, q)) = Big(p, q)
         /\ Big(p, q) \in Nat /\ Len(p) <= Big(p, q) /\ Len(q) <= Big(p, q)
         /\ Big(p, q) \in {Len(p), Len(q)}
         /\ DOMAIN ByteSum(p, q) = 1..Big(p, q)
         /\ \A i \in 1..Big(p, q) : ByteSum(p, q)[i] = ByteXor(At(p, i), At(q, i))
<1>1. /\ Big(p, q) \in Nat /\ Len(p) <= Big(p, q) /\ Len(q) <= Big(p, q)
      /\ Big(p, q) \in {Len(p), Len(q)}
  BY DEF Big
<1>2. \A i \in 1..Big(p, q) : ByteXor(At(p, i), At(q, i)) \in Byte
  BY AtByte, ByteAssumption
<1>3. ByteSum(p, q) \in [1..Big(p, q) -> Byte]
  BY <1>2 DEF ByteSum
<1>4. ByteSum(p, q) \in Seq(Byte) /\ Len(ByteSum(p, q)) = Big(p, q)
  BY <1>1, <1>3
<1> QED BY <1>1, <1>4 DEF ByteSum

\* The length XOR searches for exists.
LEMMA TrueLenExists ==
  ASSUME NEW b \in Seq(Byte), ~AllZero(b)
  PROVE  /\ TrueLen(b) \in 1..Len(b)
         /\ b[TrueLen(b)] # 0
         /\ \A i \in 1..Len(b) : i > TrueLen(b) => b[i] = 0
<1> DEFINE T == {i \in 1..Len(b) : b[i] # 0}
<1>1. Len(b) \in Nat /\ T \in SUBSET (1..Len(b)) /\ T # {}
  BY DEF AllZero
<1>2. PICK m \in T : \A k \in T : k <= m
  <2> HIDE DEF T
  <2> QED BY <1>1, LastPosition
<1>3. m \in 1..Len(b) /\ b[m] # 0 /\ \A i \in 1..Len(b) : i > m => b[i] = 0
  <2>1. ASSUME NEW i \in 1..Len(b), i > m PROVE b[i] = 0
    BY <1>2, <2>1
  <2> QED BY <2>1
<1> QED BY <1>3 DEF TrueLen

\* XOR is the sum, byte by byte, as far as bytes past the end count as zero.
LEMMA XORBytes ==
  ASSUME NEW p \in Seq(Byte), NEW q \in Seq(Byte), ~AllZero(ByteSum(p, q))
  PROVE  /\ XOR(p, q) \in Seq(Byte)
         /\ Len(XOR(p, q)) \in 1..Big(p, q)
         /\ At(XOR(p, q), Len(XOR(p, q))) # 0
         /\ \A i \in 1..Big(p, q) : At(XOR(p, q), i) = ByteXor(At(p, i), At(q, i))
<1> DEFINE b == ByteSum(p, q)
           n == TrueLen(b)
<1>1. /\ b \in Seq(Byte) /\ Len(b) = Big(p, q) /\ Big(p, q) \in Nat
      /\ \A i \in 1..Big(p, q) : b[i] = ByteXor(At(p, i), At(q, i))
  BY SumType
<1>2. n \in 1..Len(b) /\ b[n] # 0 /\ \A i \in 1..Len(b) : i > n => b[i] = 0
  BY <1>1, TrueLenExists
<1>3. XOR(p, q) = SubSeq(b, 1, n)
  BY DEF XOR
<1> HIDE DEF b, n
<1>4. /\ XOR(p, q) \in Seq(Byte) /\ Len(XOR(p, q)) = n
      /\ \A i \in 1..n : XOR(p, q)[i] = b[i]
  BY <1>1, <1>2, <1>3
<1>5. ASSUME NEW i \in 1..Big(p, q) PROVE At(XOR(p, q), i) = b[i]
  <2>1. CASE i <= n
    BY <1>4, <2>1, <1>1, <1>2 DEF At
  <2>2. CASE i > n
    BY <1>1, <1>2, <1>4, <2>2 DEF At
  <2> QED BY <2>1, <2>2, <1>1, <1>2
<1> QED BY <1>1, <1>2, <1>4, <1>5

LEMMA XORCommutes ==
  ASSUME NEW p \in Seq(Byte), NEW q \in Seq(Byte)
  PROVE  XOR(p, q) = XOR(q, p)
<1>1. Big(p, q) = Big(q, p)
  BY DEF Big
<1>2. \A i \in 1..Big(p, q) : ByteXor(At(p, i), At(q, i)) = ByteXor(At(q, i), At(p, i))
  BY AtByte, ByteAssumption
<1>3. ByteSum(p, q) = ByteSum(q, p)
  BY <1>1, <1>2 DEF ByteSum
<1> QED BY <1>3 DEF XOR

\* Packets with headers do not cancel out: XOR stays in its buffer.
LEMMA PacketsDiffer ==
  ASSUME NEW p, NEW q, WellFormed(p), WellFormed(q), p # q
  PROVE  ~AllZero(ByteSum(p, q))
<1>1. /\ p \in Seq(Byte) /\ Len(p) > 2 /\ p[2] = Len(p) - 2
      /\ q \in Seq(Byte) /\ Len(q) > 2 /\ q[2] = Len(q) - 2
  BY DEF WellFormed, HeaderLen
<1>2. SUFFICES ASSUME AllZero(ByteSum(p, q)) PROVE FALSE
  OBVIOUS
<1>3. ASSUME NEW i \in 1..Big(p, q) PROVE At(p, i) = At(q, i)
  <2>1. i \in DOMAIN ByteSum(p, q) /\ ByteSum(p, q)[i] = ByteXor(At(p, i), At(q, i))
    BY <1>1, SumType
  <2>2. ByteXor(At(p, i), At(q, i)) = 0
    BY <1>2, <2>1 DEF AllZero
  <2> QED BY <2>2, <1>1, AtByte, ZeroByte
<1>4. Len(p) <= Big(p, q) /\ Len(q) <= Big(p, q) /\ Big(p, q) \in Nat
  BY <1>1, SumType
<1>5. Len(p) = Len(q)
  <2>1. 2 \in 1..Big(p, q) /\ At(p, 2) = p[2] /\ At(q, 2) = q[2]
    BY <1>1, <1>4 DEF At
  <2>2. p[2] = q[2]
    BY <1>3, <2>1
  <2> QED BY <1>1, <2>2
<1>6. ASSUME NEW i \in 1..Len(p) PROVE p[i] = q[i]
  <2>1. i \in 1..Big(p, q) /\ At(p, i) = p[i] /\ At(q, i) = q[i]
    BY <1>1, <1>4, <1>5 DEF At
  <2> QED BY <1>3, <2>1
<1> QED BY <1>1, <1>5, <1>6

LEMMA SetTtlKeeps ==
  ASSUME NEW p \in Seq(Byte), NEW t \in Byte, Len(p) > 0
  PROVE  /\ SetTtl(p, t) \in Seq(Byte)
         /\ Len(SetTtl(p, t)) = Len(p)
         /\ \A i \in Int : i > 1 => At(SetTtl(p, t), i) = At(p, i)
<1>1. SetTtl(p, t) \in Seq(Byte) /\ Len(SetTtl(p, t)) = Len(p)
  BY DEF SetTtl
<1>2. ASSUME NEW i \in 1..Len(p), i > 1 PROVE SetTtl(p, t)[i] = p[i]
  BY <1>2 DEF SetTtl
<1> QED BY <1>1, <1>2 DEF At

\* Removing a packet from its sum with another one leaves the other one, but
\* for the TTL and for zero bytes at the end.
LEMMA XORRemoves ==
  ASSUME NEW p \in Seq(Byte), NEW q \in Seq(Byte), NEW t \in Byte,
         Len(p) > 2, Len(q) > 2, q[Len(q)] # 0, ~AllZero(ByteSum(p, q))
  PROVE  LET y == XOR(SetTtl(p, t), XOR(p, q))
         IN  /\ y \in Seq(Byte) /\ Len(y) = Len(q)
             /\ \A i \in 2..Len(q) : y[i] = q[i]
<1> DEFINE c == SetTtl(p, t)
           x == XOR(p, q)
           y == XOR(c, x)
           n == Len(q)
<1>1. /\ x \in Seq(Byte) /\ Len(x) \in 1..Big(p, q)
      /\ \A i \in 1..Big(p, q) : At(x, i) = ByteXor(At(p, i), At(q, i))
  BY XORBytes
<1>2. c \in Seq(Byte) /\ Len(c) = Len(p) /\ \A i \in Int : i > 1 => At(c, i) = At(p, i)
  BY SetTtlKeeps
<1>3. /\ Big(p, q) \in Nat /\ Len(p) <= Big(p, q) /\ n <= Big(p, q)
      /\ Big(p, q) \in {Len(p), n}
      /\ Big(c, x) \in Nat /\ Len(c) <= Big(c, x) /\ Len(x) <= Big(c, x)
      /\ Big(c, x) \in {Len(c), Len(x)}
  BY <1>1, <1>2, SumType
<1> HIDE DEF c, x
<1>4. ASSUME NEW i \in 2..Big(p, q) PROVE ByteXor(At(c, i), At(x, i)) = At(q, i)
  <2>1. At(p, i) \in Byte /\ At(q, i) \in Byte
    BY AtByte
  <2>2. At(c, i) = At(p, i) /\ At(x, i) = ByteXor(At(p, i), At(q, i))
    BY <1>1, <1>2, <1>3
  <2>3. ByteXor(At(p, i), ByteXor(At(p, i), At(q, i))) = At(q, i)
    BY <2>1, ByteAssumption
  <2> QED BY <2>2, <2>3
<1>5. n \in 2..Big(p, q) /\ At(q, n) = q[n] /\ At(q, n) # 0
  BY <1>3 DEF At
<1>6. n <= Big(c, x)
  <2>1. CASE n <= Len(p)
    BY <2>1, <1>2, <1>3
  <2>2. CASE Len(p) < n
    <3>1. At(p, n) = 0
      BY <2>2 DEF At
    <3>2. At(x, n) = ByteXor(0, At(q, n)) /\ At(q, n) \in Byte
      BY <3>1, <1>1, <1>5, AtByte
    <3>3. At(x, n) # 0
      BY <3>2, <1>5, ZeroByte, ByteAssumption
    <3>4. n <= Len(x)
      BY <3>3, <1>5, <1>1, <1>3 DEF At
    <3> QED BY <3>4, <1>1, <1>3
  <2> QED BY <2>1, <2>2
<1>7. ~AllZero(ByteSum(c, x))
  <2>1. n \in 1..Big(c, x)
    BY <1>5, <1>6, <1>3
  <2>2. n \in DOMAIN ByteSum(c, x) /\ ByteSum(c, x)[n] = ByteXor(At(c, n), At(x, n))
    BY <2>1, <1>1, <1>2, SumType
  <2> QED BY <2>2, <1>4, <1>5 DEF AllZero
<1>8. /\ y \in Seq(Byte) /\ Len(y) \in 1..Big(c, x) /\ At(y, Len(y)) # 0
      /\ \A i \in 1..Big(c, x) : At(y, i) = ByteXor(At(c, i), At(x, i))
  BY <1>1, <1>2, <1>7, XORBytes
<1> HIDE DEF y
<1>9. \A i \in 2..Big(c, x) : At(y, i) = At(q, i)
  <2>1. Big(c, x) <= Big(p, q)
    BY <1>1, <1>2, <1>3
  <2> QED BY <2>1, <1>3, <1>4, <1>8
<1>10. Len(y) = n
  <2>1. At(y, n) # 0 /\ n \in Nat
    BY <1>3, <1>5, <1>6, <1>9
  <2>2. n <= Len(y)
    BY <2>1, <1>5, <1>8 DEF At
  <2>3. ASSUME n < Len(y) PROVE FALSE
    <3>1. Len(y) \in 2..Big(c, x)
      BY <2>3, <1>5, <1>8, <1>3
    <3>2. At(y, Len(y)) = At(q, Len(y))
      BY <3>1, <1>9
    <3>3. At(q, Len(y)) = 0
      BY <2>3, <3>1 DEF At
    <3> QED BY <3>2, <3>3, <1>8
  <2> QED BY <2>1, <2>2, <2>3, <1>8
<1>11. ASSUME NEW i \in 2..n PROVE y[i] = q[i]
  <2>1. At(y, i) = At(q, i)
    BY <1>3, <1>6, <1>9
  <2> QED BY <2>1, <1>8, <1>10 DEF At
<1> QED BY <1>8, <1>10, <1>11 DEF y, c, x

LEMMA SameBody ==
  ASSUME NEW y \in Seq(Byte), NEW q \in Seq(Byte), Len(y) = Len(q), Len(q) > 2,
         \A i \in 2..Len(q) : y[i] = q[i]
  PROVE  /\ SetTtl(y, FreshTtl) = SetTtl(q, FreshTtl)
         /\ Hash(SetTtl(y, FreshTtl)) = Hash(q)
<1>1. FreshTtl \in Byte /\ Len(q) > 0 /\ Len(y) > 0
  BY WordAssumption
<1>2. SetTtl(y, FreshTtl) = SetTtl(q, FreshTtl)
  <2>1. /\ SetTtl(y, FreshTtl) \in Seq(Byte) /\ Len(SetTtl(y, FreshTtl)) = Len(q)
        /\ SetTtl(q, FreshTtl) \in Seq(Byte) /\ Len(SetTtl(q, FreshTtl)) = Len(q)
    BY <1>1, SetTtlKeeps
  <2>2. \A i \in 1..Len(q) : SetTtl(y, FreshTtl)[i] = SetTtl(q, FreshTtl)[i]
    BY DEF SetTtl
  <2> QED BY <2>1, <2>2
<1>3. Body(SetTtl(q, FreshTtl)) = Body(q)
  <2>1. SetTtl(q, FreshTtl) \in Seq(Byte) /\ Len(SetTtl(q, FreshTtl)) = Len(q)
    BY <1>1, SetTtlKeeps
  <2>2. \A i \in 3..Len(q) : SetTtl(q, FreshTtl)[i] = q[i]
    BY DEF SetTtl
  <2> QED BY <2>1, <2>2 DEF Body, HeaderLen
<1> QED BY <1>2, <1>3 DEF Hash

\* A next hop that holds packet p, with whatever TTL, finds in the sum of p
\* and q, in whichever order they were combined, the whole of q, with the
\* announced id (lines 482 and 494), unless q ends in a zero byte.
THEOREM NativeRecovered ==
  ASSUME NEW p, NEW q, WellFormed(p), WellFormed(q), p # q, q[Len(q)] # 0,
         NEW t \in Byte, NEW sum \in {XOR(p, q), XOR(q, p)}
  PROVE  LET y == SetTtl(XOR(SetTtl(p, t), sum), FreshTtl)
         IN  /\ sum # Overrun
             /\ y = SetTtl(q, FreshTtl)
             /\ Hash(y) = Hash(q)
<1>1. p \in Seq(Byte) /\ Len(p) > 2 /\ q \in Seq(Byte) /\ Len(q) > 2
  BY DEF WellFormed, HeaderLen
<1>2. sum = XOR(p, q)
  BY <1>1, XORCommutes
<1>3. ~AllZero(ByteSum(p, q))
  BY PacketsDiffer
<1>4. sum # Overrun
  <2>1. Len(XOR(p, q)) \in 1..Big(p, q)
    BY <1>1, <1>3, XORBytes
  <2>2. Len(sum) # 0
    BY <2>1, <1>2, <1>1, SumType
  <2> QED BY <2>2 DEF Overrun
<1> DEFINE y == XOR(SetTtl(p, t), sum)
<1>5. y \in Seq(Byte) /\ Len(y) = Len(q) /\ \A i \in 2..Len(q) : y[i] = q[i]
  BY <1>1, <1>2, <1>3, XORRemoves
<1> HIDE DEF y
<1>6. SetTtl(y, FreshTtl) = SetTtl(q, FreshTtl) /\ Hash(SetTtl(y, FreshTtl)) = Hash(q)
  BY <1>1, <1>5, SameBody
<1> QED BY <1>4, <1>6 DEF y

-------------------------------------------------------------------------------
(* Iteration                                                               *)

\* Induction along a range, stated with a set so that it can be instantiated.
LEMMA RangeInduction ==
  ASSUME NEW n \in Nat, NEW T, 0 \in T,
         \A i \in 1..n : i - 1 \in T => i \in T
  PROVE  0..n \subseteq T
<1>1. SUFFICES ASSUME (0..n) \ T # {} PROVE FALSE
  OBVIOUS
<1>2. (0..n) \ T \subseteq Nat
  OBVIOUS
<1>3. PICK x \in (0..n) \ T : \A y \in (0..n) \ T : ~ (<<y, x>> \in OpToRel(<, Nat))
  <2> HIDE DEF OpToRel
  <2> QED BY <1>1, <1>2, WFMin, NatLessThanWellFounded
<1>4. x \in 1..n /\ x - 1 \in 0..n /\ x - 1 \in Nat /\ x \in Nat
  OBVIOUS
<1>5. <<x - 1, x>> \in OpToRel(<, Nat)
  BY <1>4 DEF OpToRel
<1>6. x - 1 \in T
  BY <1>3, <1>4, <1>5
<1>7. x \in T
  BY <1>4, <1>6
<1> QED BY <1>7

\* g lists the results of applying step[1], step[2], ... to a, all in X.
IsIteration(g, X, a, step, n) ==
  /\ g \in [0..n -> X]
  /\ g = [i \in 0..n |-> IF i = 0 THEN a ELSE step[i][g[i - 1]]]

Iterates(g, a, step, i) == g[0] = a /\ \A j \in 1..i : g[j] = step[j][g[j - 1]]

\* Such a function exists, so a recursive definition of it has a meaning.
LEMMA IterationExists ==
  ASSUME NEW X, NEW a \in X, NEW n \in Nat, NEW step \in [1..n -> [X -> X]]
  PROVE  \E g : IsIteration(g, X, a, step, n)
<1> DEFINE T == {i \in 0..n : \E g \in [0..i -> X] : Iterates(g, a, step, i)}
<1>1. 0 \in T
  <2>1. [j \in 0..0 |-> a] \in [0..0 -> X] /\ Iterates([j \in 0..0 |-> a], a, step, 0)
    BY DEF Iterates
  <2> QED BY <2>1
<1>2. ASSUME NEW i \in 1..n, i - 1 \in T PROVE i \in T
  <2>1. PICK g \in [0..(i - 1) -> X] : Iterates(g, a, step, i - 1)
    BY <1>2
  <2> DEFINE h == [j \in 0..i |-> IF j = i THEN step[i][g[i - 1]] ELSE g[j]]
  <2>2. step[i][g[i - 1]] \in X
    <3>1. g[i - 1] \in X
      OBVIOUS
    <3>2. step[i] \in [X -> X]
      OBVIOUS
    <3> QED BY <3>1, <3>2
  <2>3. h \in [0..i -> X]
    BY <2>2
  <2>4. Iterates(h, a, step, i)
    <3>1. h[0] = a
      BY <2>1 DEF Iterates
    <3>2. ASSUME NEW j \in 1..i PROVE h[j] = step[j][h[j - 1]]
      <4>1. CASE j = i
        BY <4>1
      <4>2. CASE j # i
        <5>1. j \in 1..(i - 1) /\ h[j] = g[j] /\ h[j - 1] = g[j - 1]
          BY <4>2
        <5> QED BY <5>1, <2>1 DEF Iterates
      <4> QED BY <4>1, <4>2
    <3> HIDE DEF h
    <3> QED BY <3>1, <3>2 DEF Iterates
  <2> HIDE DEF h
  <2> QED BY <2>3, <2>4
<1> HIDE DEF T
<1>3. n \in T
  <2>1. 0..n \subseteq T
    BY <1>1, <1>2, RangeInduction
  <2> QED BY <2>1
<1>4. PICK g \in [0..n -> X] : Iterates(g, a, step, n)
  BY <1>3 DEF T
<1>5. g = [i \in 0..n |-> IF i = 0 THEN a ELSE step[i][g[i - 1]]]
  BY <1>4 DEF Iterates
<1> QED BY <1>5 DEF IsIteration


\* A joined sequence is the one followed by the other.
LEMMA Joined ==
  ASSUME NEW F, NEW p \in Seq(F), NEW q \in Seq(F)
  PROVE  /\ p \o q \in Seq(F) /\ Len(p \o q) = Len(p) + Len(q)
         /\ \A i \in 1..Len(p) : (p \o q)[i] = p[i]
         /\ \A i \in 1..Len(q) : (p \o q)[Len(p) + i] = q[i]
OBVIOUS

\* s lists n groups of k fields.
Grouped(F, k, n, s) == s \in [1..n -> Seq(F)] /\ \A i \in 1..n : Len(s[i]) = k

\* f lists the same fields one by one.
Ungrouped(F, k, n, s, f) ==
  /\ f \in Seq(F) /\ Len(f) = k * n
  /\ \A i \in 1..n : \A j \in 1..k : f[k * (i - 1) + j] = s[i][j]

\* Groups of k fields behind each other are found at every k-th position.
LEMMA FlattenFields ==
  ASSUME NEW F, NEW k \in {2, 3}, NEW n \in Nat, NEW s, Grouped(F, k, n, s)
  PROVE  Ungrouped(F, k, n, s, FlattenSeq(s))
<1>0. s \in [1..n -> Seq(F)] /\ \A i \in 1..n : Len(s[i]) = k
  BY DEF Grouped
<1>1. Len(s) = n /\ DOMAIN s = 1..n
  BY <1>0
<1> DEFINE Goal == /\ FlattenSeq(s) \in Seq(F)
                   /\ Len(FlattenSeq(s)) = k * n
                   /\ \A i \in 1..n : \A j \in 1..k : FlattenSeq(s)[k * (i - 1) + j] = s[i][j]
<1>2. ASSUME n = 0 PROVE Goal
  <2>1. FlattenSeq(s) = s
    BY <1>1, <1>2 DEF FlattenSeq
  <2>2. s \in Seq(F)
    <3>1. s = <<>>
      BY <1>1, <1>2
    <3> QED BY <3>1
  <2> QED BY <1>1, <1>2, <2>1, <2>2
<1>3. ASSUME n > 0 PROVE Goal
  <2> DEFINE step == [i \in 1..n |-> [q \in Seq(F) |-> q \o s[i]]]
             Defines(f) == f = [i \in 1..n |-> IF i = 1 THEN s[i] ELSE f[i - 1] \o s[i]]
             f == CHOOSE f : Defines(f)
  <2>1. step \in [1..n -> [Seq(F) -> Seq(F)]]
    <3>1. ASSUME NEW i \in 1..n, NEW q \in Seq(F) PROVE q \o s[i] \in Seq(F)
      <4>1. s[i] \in Seq(F)
        BY <1>0
      <4> QED BY <4>1, Joined
    <3> QED BY <3>1
  <2>2. PICK g : IsIteration(g, Seq(F), <<>>, step, n)
    <3>1. <<>> \in Seq(F)
      OBVIOUS
    <3> HIDE DEF step
    <3> QED BY <2>1, <3>1, IterationExists
  <2>3. /\ g \in [0..n -> Seq(F)] /\ g[0] = <<>>
        /\ \A i \in 1..n : g[i] = g[i - 1] \o s[i]
    <3>1. g \in [0..n -> Seq(F)]
      BY <2>2 DEF IsIteration
    <3>2. g[0] = <<>> /\ \A i \in 1..n : g[i] = step[i][g[i - 1]]
      <4> HIDE DEF step
      <4>1. 0 \in 0..n /\ \A i \in 1..n : i \in 0..n /\ i # 0
        OBVIOUS
      <4> QED BY <2>2, <4>1 DEF IsIteration
    <3>3. ASSUME NEW i \in 1..n PROVE step[i][g[i - 1]] = g[i - 1] \o s[i]
      <4>1. i - 1 \in 0..n
        OBVIOUS
      <4>2. g[i - 1] \in Seq(F)
        BY <3>1, <4>1
      <4> QED BY <4>2
    <3> QED BY <3>1, <3>2, <3>3
  <2>4. g[1] = s[1]
    <3>1. 1 \in 1..n /\ s[1] \in Seq(F)
      BY <1>0, <1>3
    <3>2. \A i \in 1..n : i = 1 => i - 1 = 0
      OBVIOUS
    <3>3. \A i \in 1..n : i = 1 => g[i] = g[0] \o s[i]
      <4> HIDE DEF step
      <4> QED BY <2>3, <3>2, Zenon
    <3>4. g[1] = <<>> \o s[1]
      BY <2>3, <3>1, <3>3
    <3> QED BY <3>1, <3>4
  <2>5. \E f0 : Defines(f0)
    <3> DEFINE f0 == [i \in 1..n |-> g[i]]
    <3>1. ASSUME NEW i \in 1..n PROVE f0[i] = IF i = 1 THEN s[i] ELSE f0[i - 1] \o s[i]
      <4>1. CASE i = 1
        BY <4>1, <2>4
      <4>2. CASE i # 1
        <5>1. i - 1 \in 1..n
          BY <4>2
        <5> QED BY <5>1, <4>2, <2>3
      <4> QED BY <4>1, <4>2
    <3>2. Defines(f0)
      BY <3>1
    <3> HIDE DEF f0, Defines
    <3> QED BY <3>2
  <2>6. Defines(f)
    <3> HIDE DEF Defines
    <3> QED BY <2>5
  <2>7. FlattenSeq(s) = f[n]
    BY <1>1, <1>3 DEF FlattenSeq
  <2> HIDE DEF f
  <2> DEFINE Lists(i) ==
               /\ f[i] \in Seq(F) /\ Len(f[i]) = k * i
               /\ \A x \in 1..i : \A j \in 1..k : f[i][k * (x - 1) + j] = s[x][j]
             T == {i \in 0..n : i > 0 => Lists(i)}
  <2>8. 0 \in T
    OBVIOUS
  <2>9. ASSUME NEW i \in 1..n, i - 1 \in T PROVE i \in T
    <3>1. CASE i = 1
      <4>1. f[i] = s[i] /\ i \in 1..n
        BY <2>6, <3>1
      <4>2. \A x \in 1..i : x = i /\ k * (x - 1) = 0
        BY <3>1
      <4>3. Lists(i)
        BY <1>0, <4>1, <4>2, <3>1
      <4> QED BY <4>3
    <3>2. CASE i # 1
      <4>1. i - 1 \in 1..n /\ Lists(i - 1)
        BY <2>9, <3>2
      <4>2. f[i] = f[i - 1] \o s[i]
        BY <2>6, <3>2
      <4>3. s[i] \in Seq(F) /\ Len(s[i]) = k /\ f[i - 1] \in Seq(F) /\ Len(f[i - 1]) = k * (i - 1)
        BY <1>0, <4>1
      <4>4. /\ f[i] \in Seq(F) /\ Len(f[i]) = k * (i - 1) + k
            /\ \A x \in 1..(k * (i - 1)) : f[i][x] = f[i - 1][x]
            /\ \A j \in 1..k : f[i][k * (i - 1) + j] = s[i][j]
        <5> DEFINE p == f[i - 1]
                   q == s[i]
        <5>1. f[i] = p \o q /\ p \in Seq(F) /\ q \in Seq(F)
          BY <4>2, <4>3
        <5>2. Len(p) = k * (i - 1) /\ Len(q) = k
          BY <4>3
        <5>3. /\ p \o q \in Seq(F) /\ Len(p \o q) = Len(p) + Len(q)
              /\ \A x \in 1..Len(p) : (p \o q)[x] = p[x]
              /\ \A j \in 1..Len(q) : (p \o q)[Len(p) + j] = q[j]
          <6> HIDE DEF p, q
          <6> QED BY <5>1, Joined
        <5> HIDE DEF p, q
        <5>4. /\ f[i] \in Seq(F) /\ Len(f[i]) = k * (i - 1) + k
              /\ \A x \in 1..(k * (i - 1)) : f[i][x] = p[x]
              /\ \A j \in 1..k : f[i][k * (i - 1) + j] = q[j]
          BY <5>1, <5>2, <5>3
        <5> QED BY <5>4 DEF p, q
      <4>5. ASSUME NEW x \in 1..i, NEW j \in 1..k PROVE f[i][k * (x - 1) + j] = s[x][j]
        <5>1. CASE x = i
          BY <5>1, <4>4
        <5>2. CASE x # i
          <6>1. x \in 1..(i - 1)
            BY <5>2
          <6>2. k * (x - 1) + j \in 1..(k * (i - 1))
            BY <6>1
          <6> QED BY <6>1, <6>2, <4>1, <4>4
        <5> QED BY <5>1, <5>2
      <4>6. k * (i - 1) + k = k * i
        OBVIOUS
      <4>7. Lists(i)
        BY <4>4, <4>5, <4>6
      <4> QED BY <4>7
    <3> QED BY <3>1, <3>2
  <2>10. n \in T
    <3> HIDE DEF T
    <3>1. 0..n \subseteq T
      BY <2>8, <2>9, RangeInduction
    <3> QED BY <3>1
  <2> QED BY <2>10, <1>3, <2>7
<1>4. /\ FlattenSeq(s) \in Seq(F)
      /\ Len(FlattenSeq(s)) = k * n
      /\ \A i \in 1..n : \A j \in 1..k : FlattenSeq(s)[k * (i - 1) + j] = s[i][j]
  BY <1>2, <1>3
<1> QED BY <1>4 DEF Ungrouped

-------------------------------------------------------------------------------
(* Building a header                                                       *)

\* Headers with fields of F, and whose counters count.
Built(F) ==
  {h \in [ip: F, encodedNum: Nat, natives: UNION {[D -> F] : D \in SUBSET Nat},
          reportNum: Nat, recps: Seq(F), ackNum: Nat, acks: Seq([ip: F, pid: F])] :
     /\ IsFiniteSet(DOMAIN h.natives) /\ h.encodedNum = Cardinality(DOMAIN h.natives)
     /\ h.reportNum = Len(h.recps)
     /\ h.ackNum = Len(h.acks)}

\* What that means.
LEMMA BuiltFields ==
  ASSUME NEW F, NEW h \in Built(F)
  PROVE  /\ h = [ip |-> h.ip, encodedNum |-> h.encodedNum, natives |-> h.natives,
                 reportNum |-> h.reportNum, recps |-> h.recps,
                 ackNum |-> h.ackNum, acks |-> h.acks]
         /\ h.ip \in F
         /\ h.natives \in [DOMAIN h.natives -> F] /\ DOMAIN h.natives \in SUBSET Nat
         /\ IsFiniteSet(DOMAIN h.natives) /\ h.encodedNum = Cardinality(DOMAIN h.natives)
         /\ h.encodedNum \in Nat
         /\ h.recps \in Seq(F) /\ h.reportNum = Len(h.recps)
         /\ h.acks \in Seq([ip: F, pid: F]) /\ h.ackNum = Len(h.acks)
<1>1. PICK D \in SUBSET Nat : h.natives \in [D -> F]
  BY DEF Built
<1> QED BY <1>1 DEF Built

\* Headers are put together from their fields.
Fields(ip, nat, recps, acks) ==
  [ip |-> ip, encodedNum |-> Cardinality(DOMAIN nat), natives |-> nat,
   reportNum |-> Len(recps), recps |-> recps, ackNum |-> Len(acks), acks |-> acks]

\* All of them.
LEMMA FieldsBuilt ==
  ASSUME NEW F, NEW ip \in F, NEW D \in SUBSET Nat, IsFiniteSet(D), NEW nat \in [D -> F],
         NEW recps \in Seq(F), NEW acks \in Seq([ip: F, pid: F])
  PROVE  Fields(ip, nat, recps, acks) \in Built(F)
<1>1. nat \in UNION {[E -> F] : E \in SUBSET Nat} /\ DOMAIN nat = D
  OBVIOUS
<1>2. Cardinality(D) \in Nat
  BY FS_CardinalityType
<1>3. Len(recps) \in Nat
  OBVIOUS
<1>4. Len(acks) \in Nat
  <2> DEFINE R == [ip: F, pid: F]
  <2> HIDE DEF R
  <2>1. acks \in Seq(R)
    BY DEF R
  <2> QED BY <2>1
<1> QED BY <1>1, <1>2, <1>3, <1>4 DEF Built, Fields

\* Nothing else is a header.
LEMMA BuiltOfFields ==
  ASSUME NEW F, NEW h \in Built(F)
  PROVE  h = Fields(h.ip, h.natives, h.recps, h.acks)
BY DEF Built, Fields

\* A header is built empty.
LEMMA NewBuilt ==
  ASSUME NEW F, NEW ip \in F
  PROVE  NewHeader(ip) \in Built(F) /\ DOMAIN NewHeader(ip).natives = {}
<1>1. <<>> \in [{} -> F] /\ DOMAIN <<>> = {} /\ Len(<<>>) = 0
  OBVIOUS
<1>2. <<>> \in Seq(F) /\ <<>> \in Seq([ip: F, pid: F])
  OBVIOUS
<1>3. NewHeader(ip) = Fields(ip, <<>>, <<>>, <<>>)
  BY <1>1, FS_EmptySet DEF NewHeader, Fields
<1>4. {} \in SUBSET Nat /\ IsFiniteSet({})
  BY FS_EmptySet
<1>5. Fields(ip, <<>>, <<>>, <<>>) \in Built(F)
  BY <1>1, <1>2, <1>4, FieldsBuilt
<1> QED BY <1>1, <1>3, <1>5 DEF Fields

\* One native is added, unless its next hop has one.
LEMMA NativeBuilt ==
  ASSUME NEW F, NEW h \in Built(F), NEW mac \in Nat, NEW id \in F
  PROVE  LET r == AddIdNexthop(h, mac, id)
         IN  /\ r \in Built(F)
             /\ DOMAIN r.natives = DOMAIN h.natives \union {mac}
             /\ mac \notin DOMAIN h.natives => r.natives[mac] = id
             /\ \A m \in DOMAIN h.natives : r.natives[m] = h.natives[m]
<1> DEFINE r == AddIdNexthop(h, mac, id)
           E == DOMAIN h.natives
           D == E \union {mac}
           g == [m \in D |-> IF m = mac THEN id ELSE h.natives[m]]
<1>1. CASE mac \in E
  BY <1>1 DEF AddIdNexthop
<1>2. CASE mac \notin E
  <2>1. /\ h.ip \in F /\ h.natives \in [E -> F] /\ E \in SUBSET Nat /\ IsFiniteSet(E)
        /\ h.recps \in Seq(F) /\ h.acks \in Seq([ip: F, pid: F])
    BY BuiltFields
  <2>2. g \in [D -> F] /\ D \in SUBSET Nat
    BY <2>1
  <2>3. DOMAIN g = D /\ g[mac] = id /\ \A m \in E : g[m] = h.natives[m]
    BY <1>2
  <2>4. IsFiniteSet(D) /\ Cardinality(D) = Cardinality(E) + 1
    <3> HIDE DEF E
    <3> QED BY <1>2, <2>1, FS_AddElement
  <2>5. r = Fields(h.ip, g, h.recps, h.acks)
    <3>1. h = Fields(h.ip, h.natives, h.recps, h.acks)
      BY BuiltOfFields
    <3>2. h.encodedNum = Cardinality(E)
      BY BuiltFields
    <3>3. r = [h EXCEPT !.natives = g, !.encodedNum = Cardinality(D)]
      <4> HIDE DEF D
      <4> QED BY <1>2, <2>4, <3>2 DEF AddIdNexthop, D
    <3> HIDE DEF g, D, r
    <3>4. r = [h EXCEPT !.natives = g, !.encodedNum = Cardinality(DOMAIN g)]
      BY <2>3, <3>3
    <3> DEFINE ip == h.ip
               nat == h.natives
               recps == h.recps
               acks == h.acks
    <3>5. h = Fields(ip, nat, recps, acks)
      BY <3>1
    <3> HIDE DEF ip, nat, recps, acks
    <3>6. r = Fields(ip, g, recps, acks)
      BY <3>4, <3>5 DEF Fields
    <3> QED BY <3>6 DEF ip, recps, acks
  <2> HIDE DEF g, D, r
  <2>6. r \in Built(F)
    BY <2>1, <2>2, <2>4, <2>5, FieldsBuilt
  <2>7. r.natives = g
    BY <2>5 DEF Fields
  <2> QED BY <1>2, <2>3, <2>6, <2>7 DEF D, r
<1> QED BY <1>1, <1>2

\* A report is added, unless it is there.
LEMMA ReportBuilt ==
  ASSUME NEW F, NEW h \in Built(F), NEW id \in F
  PROVE  AddRecpReport(h, id) \in Built(F) /\ AddRecpReport(h, id).natives = h.natives
<1> DEFINE E == DOMAIN h.natives
           q == Append(h.recps, id)
<1>1. /\ h.ip \in F /\ h.natives \in [E -> F] /\ E \in SUBSET Nat /\ IsFiniteSet(E)
      /\ h.recps \in Seq(F) /\ h.acks \in Seq([ip: F, pid: F])
      /\ h.reportNum = Len(h.recps)
  BY BuiltFields
<1>2. q \in Seq(F) /\ Len(q) = Len(h.recps) + 1
  BY <1>1
<1>3. CASE Contains(h.recps, id)
  BY <1>3 DEF AddRecpReport
<1>4. CASE ~Contains(h.recps, id)
  <2>1. AddRecpReport(h, id) = [h EXCEPT !.recps = q, !.reportNum = Len(q)]
    BY <1>1, <1>2, <1>4 DEF AddRecpReport
  <2> HIDE DEF q, E
  <2>2. AddRecpReport(h, id) = Fields(h.ip, h.natives, q, h.acks)
    <3>1. h = Fields(h.ip, h.natives, h.recps, h.acks)
      BY BuiltOfFields
    <3> DEFINE r == AddRecpReport(h, id)
    <3>2. r = [h EXCEPT !.recps = q, !.reportNum = Len(q)]
      BY <2>1
    <3> HIDE DEF r
    <3>3. r = Fields(h.ip, h.natives, q, h.acks)
      <4> DEFINE ip == h.ip
                 nat == h.natives
                 recps == h.recps
                 acks == h.acks
      <4>1. h = Fields(ip, nat, recps, acks)
        BY <3>1
      <4> HIDE DEF ip, nat, recps, acks
      <4>2. r = Fields(ip, nat, q, acks)
        BY <3>2, <4>1 DEF Fields
      <4> QED BY <4>2 DEF ip, nat, acks
    <3> QED BY <3>3 DEF r
  <2>3. AddRecpReport(h, id) \in Built(F)
    <3> DEFINE ip == h.ip
               nat == h.natives
               acks == h.acks
    <3>1. /\ ip \in F /\ E \in SUBSET Nat /\ IsFiniteSet(E) /\ nat \in [E -> F]
          /\ q \in Seq(F) /\ acks \in Seq([ip: F, pid: F])
      BY <1>1, <1>2
    <3> HIDE DEF ip, nat, acks
    <3>2. Fields(ip, nat, q, acks) \in Built(F)
      BY <3>1, FieldsBuilt
    <3> QED BY <2>2, <3>2 DEF ip, nat, acks
  <2> QED BY <2>2, <2>3 DEF Fields
<1> QED BY <1>3, <1>4

\* An acknowledgment is added.
LEMMA AckBuilt ==
  ASSUME NEW F, NEW h \in Built(F), NEW ack \in [ip: F, pid: F]
  PROVE  AddAckBlock(h, ack) \in Built(F) /\ AddAckBlock(h, ack).natives = h.natives
<1> DEFINE E == DOMAIN h.natives
           R == [ip: F, pid: F]
           q == Append(h.acks, ack)
<1>1. /\ h.ip \in F /\ h.natives \in [E -> F] /\ E \in SUBSET Nat /\ IsFiniteSet(E)
      /\ h.recps \in Seq(F) /\ h.acks \in Seq(R)
      /\ h.ackNum = Len(h.acks)
  BY BuiltFields
<1>2. q \in Seq(R) /\ Len(q) = Len(h.acks) + 1
  <2>1. ack \in R
    OBVIOUS
  <2> HIDE DEF R
  <2> QED BY <1>1, <2>1
<1>3. AddAckBlock(h, ack) = [h EXCEPT !.acks = q, !.ackNum = Len(q)]
  BY <1>1, <1>2 DEF AddAckBlock
<1> HIDE DEF q, E
<1>4. AddAckBlock(h, ack) = Fields(h.ip, h.natives, h.recps, q)
  <2>1. h = Fields(h.ip, h.natives, h.recps, h.acks)
    BY BuiltOfFields
  <2> DEFINE r == AddAckBlock(h, ack)
  <2>2. r = [h EXCEPT !.acks = q, !.ackNum = Len(q)]
    BY <1>3
  <2> HIDE DEF r
  <2>3. r = Fields(h.ip, h.natives, h.recps, q)
    <3> DEFINE ip == h.ip
               nat == h.natives
               recps == h.recps
               acks == h.acks
    <3>1. h = Fields(ip, nat, recps, acks)
      BY <2>1
    <3> HIDE DEF ip, nat, recps, acks
    <3>2. r = Fields(ip, nat, recps, q)
      BY <2>2, <3>1 DEF Fields
    <3> QED BY <3>2 DEF ip, nat, recps
  <2> QED BY <2>3 DEF r
<1>5. AddAckBlock(h, ack) \in Built(F)
  <2> DEFINE ip == h.ip
             nat == h.natives
             recps == h.recps
  <2>1. /\ ip \in F /\ E \in SUBSET Nat /\ IsFiniteSet(E) /\ nat \in [E -> F]
        /\ recps \in Seq(F) /\ q \in Seq([ip: F, pid: F])
    BY <1>1, <1>2
  <2> HIDE DEF ip, nat, recps
  <2>2. Fields(ip, nat, recps, q) \in Built(F)
    BY <2>1, FieldsBuilt
  <2> QED BY <1>4, <2>2 DEF ip, nat, recps
<1> QED BY <1>4, <1>5 DEF Fields

-------------------------------------------------------------------------------
(* The order of a map                                                      *)

\* hops lists D, the smaller ones first.
Ascends(hops, D) ==
  /\ hops \in [1..Cardinality(D) -> D]
  /\ \A i, j \in DOMAIN hops : i < j => hops[i] < hops[j]

\* A set of numbers has a smallest one.
LEMMA FirstExists ==
  ASSUME NEW S \in SUBSET Nat, S # {}
  PROVE  \E m \in S : \A y \in S : m <= y
<1>1. PICK x \in S : \A y \in S : ~ (<<y, x>> \in OpToRel(<, Nat))
  <2> HIDE DEF OpToRel
  <2> QED BY WFMin, NatLessThanWellFounded
<1>2. \A y \in S : x <= y
  <2>1. SUFFICES ASSUME NEW y \in S, y < x PROVE FALSE
    OBVIOUS
  <2>2. <<y, x>> \in OpToRel(<, Nat)
    BY <2>1 DEF OpToRel
  <2> QED BY <1>1, <2>2
<1> QED BY <1>2

\* Every finite set of numbers can be listed that way.
LEMMA OrderExists ==
  ASSUME NEW D \in SUBSET Nat, IsFiniteSet(D)
  PROVE  \E hops : Ascends(hops, D)
<1> DEFINE n == Cardinality(D)
           T == {k \in 0..n : \A E \in SUBSET D : Cardinality(E) = k => \E hops : Ascends(hops, E)}
<1>1. n \in Nat
  BY FS_CardinalityType
<1>2. 0 \in T
  <2>1. ASSUME NEW E \in SUBSET D, Cardinality(E) = 0 PROVE \E hops : Ascends(hops, E)
    <3>1. IsFiniteSet(E)
      BY FS_Subset
    <3>2. E = {}
      BY <2>1, <3>1, FS_EmptySet
    <3>3. <<>> \in [1..0 -> E] /\ DOMAIN <<>> = {}
      BY <3>2
    <3>4. Ascends(<<>>, E)
      BY <2>1, <3>3 DEF Ascends
    <3> QED BY <3>4
  <2> QED BY <1>1, <2>1
<1>3. ASSUME NEW k \in 1..n, k - 1 \in T PROVE k \in T
  <2>1. ASSUME NEW E \in SUBSET D, Cardinality(E) = k PROVE \E hops : Ascends(hops, E)
    <3>1. IsFiniteSet(E)
      BY FS_Subset
    <3>2. E # {} /\ E \in SUBSET Nat
      BY <2>1, FS_EmptySet
    <3>3. PICK m \in E : \A y \in E : m <= y
      BY <3>2, FirstExists
    <3>4. Cardinality(E \ {m}) = k - 1
      BY <2>1, <3>1, FS_RemoveElement
    <3>5. PICK g : Ascends(g, E \ {m})
      <4>1. E \ {m} \in SUBSET D
        OBVIOUS
      <4> QED BY <3>4, <4>1, <1>3
    <3>6. /\ g \in [1..(k - 1) -> E \ {m}]
          /\ \A i, j \in 1..(k - 1) : i < j => g[i] < g[j]
      BY <3>4, <3>5 DEF Ascends
    <3> DEFINE h == [i \in 1..k |-> IF i = 1 THEN m ELSE g[i - 1]]
    <3>7. ASSUME NEW i \in 1..k, i # 1
          PROVE  i - 1 \in 1..(k - 1) /\ h[i] = g[i - 1] /\ h[i] \in E \ {m}
      BY <3>6, <3>7
    <3>8. h \in [1..k -> E]
      <4>1. \A i \in 1..k : h[i] \in E
        <5>1. \A i \in 1..k : i = 1 => h[i] = m
          OBVIOUS
        <5> HIDE DEF h
        <5> QED BY <3>7, <5>1
      <4> QED BY <4>1
    <3>9. ASSUME NEW i \in 1..k, NEW j \in 1..k, i < j PROVE h[i] < h[j]
      <4>1. j # 1 /\ h[j] = g[j - 1] /\ h[j] \in E \ {m} /\ j - 1 \in 1..(k - 1)
        BY <3>9, <3>7
      <4>2. CASE i = 1
        <5>1. h[i] = m /\ m \in Nat /\ h[j] \in Nat
          BY <4>1, <4>2
        <5>2. m <= h[j] /\ m # h[j]
          BY <3>3, <4>1
        <5> QED BY <5>1, <5>2
      <4>3. CASE i # 1
        <5>1. i - 1 \in 1..(k - 1) /\ h[i] = g[i - 1]
          BY <4>3, <3>7
        <5> QED BY <3>6, <3>9, <4>1, <5>1
      <4> QED BY <4>2, <4>3
    <3> HIDE DEF h
    <3>10. Ascends(h, E)
      BY <2>1, <3>8, <3>9 DEF Ascends
    <3> QED BY <3>10
  <2> QED BY <2>1
<1>4. n \in T
  <2> HIDE DEF T
  <2>1. 0..n \subseteq T
    BY <1>1, <1>2, <1>3, RangeInduction
  <2> QED BY <1>1, <2>1
<1> QED BY <1>4

\* The loops over the map of natives come by each next hop, once and in order.
LEMMA HopsListed ==
  ASSUME NEW F, NEW h \in Built(F)
  PROVE  LET hops == NextHops(h)
             D == DOMAIN h.natives
         IN  /\ hops \in [1..h.encodedNum -> D] /\ h.encodedNum \in Nat
             /\ Len(hops) = h.encodedNum
             /\ \A i, j \in 1..h.encodedNum : i < j => hops[i] < hops[j]
             /\ \A i, j \in 1..h.encodedNum : hops[i] = hops[j] => i = j
             /\ \A m \in D : \E i \in 1..h.encodedNum : hops[i] = m
<1> DEFINE hops == NextHops(h)
           D == DOMAIN h.natives
           n == h.encodedNum
<1>1. D \in SUBSET Nat /\ IsFiniteSet(D) /\ n = Cardinality(D) /\ n \in Nat
  BY BuiltFields
<1>2. Ascends(hops, D)
  <2>1. \E g : Ascends(g, D)
    <3> HIDE DEF D
    <3> QED BY <1>1, OrderExists
  <2>2. hops = CHOOSE g \in [1..Cardinality(D) -> D] : \A i, j \in DOMAIN g : i < j => g[i] < g[j]
    BY DEF NextHops
  <2> HIDE DEF D, hops
  <2>3. \E g \in [1..Cardinality(D) -> D] : \A i, j \in DOMAIN g : i < j => g[i] < g[j]
    BY <2>1 DEF Ascends
  <2> QED BY <2>2, <2>3 DEF Ascends
<1> HIDE DEF hops, D, n
<1>3. /\ hops \in [1..n -> D] /\ \A i, j \in 1..n : i < j => hops[i] < hops[j]
  BY <1>1, <1>2 DEF Ascends
<1>4. Len(hops) = n
  BY <1>1, <1>3
<1>5. \A i, j \in 1..n : hops[i] = hops[j] => i = j
  <2>1. SUFFICES ASSUME NEW i \in 1..n, NEW j \in 1..n, hops[i] = hops[j], i < j PROVE FALSE
    BY <1>1
  <2>2. hops[i] < hops[j] /\ hops[i] \in Nat
    BY <1>1, <1>3, <2>1
  <2> QED BY <2>1, <2>2
<1>6. \A m \in D : \E i \in 1..n : hops[i] = m
  <2>1. IsFiniteSet(1..n) /\ Cardinality(1..n) = n
    BY <1>1, FS_Interval
  <2>2. hops \in Injection(1..n, D)
    BY <1>3, <1>5 DEF Injection, IsInjective
  <2>3. hops \in Surjection(1..n, D)
    BY <1>1, <2>1, <2>2, FS_Injection
  <2> QED BY <2>3 DEF Surjection
<1> QED BY <1>1, <1>3, <1>4, <1>5, <1>6 DEF hops, D, n

-------------------------------------------------------------------------------
(* The header of a frame                                                   *)

\* What fields of a header hold.
Field == Nat \union {Hash(p) : p \in Packet}

\* The sender is known by one of its addresses.
LEMMA SenderField == SenderIP \in Field
<1> DEFINE S == {Radios[i].ip : i \in DOMAIN Radios}
<1>1. S \in SUBSET Nat /\ S # {}
  <2> DEFINE R == [ip: Nat, mac: Nat, channel: Nat]
  <2>1. Radios \in Seq(R) /\ Radios # <<>> /\ \A x \in R : x.ip \in Nat
    BY FieldAssumption
  <2> HIDE DEF R
  <2>2. 1 \in DOMAIN Radios /\ \A i \in DOMAIN Radios : Radios[i] \in R
    BY <2>1
  <2> QED BY <2>1, <2>2
<1>2. Min(S) \in S
  <2> HIDE DEF S
  <2> QED BY <1>1, FirstExists DEF Min
<1> QED BY <1>1, <1>2 DEF SenderIP, Field

\* What is combined.
LEMMA Combined ==
  ASSUME NEW c \in Combinations
  PROVE  /\ c \in Seq([mac: Mac, packet: Packet]) /\ Len(c) \in Nat \ {0} /\ DOMAIN c = 1..Len(c)
         /\ \A i \in 1..Len(c) : /\ c[i].mac \in Nat /\ c[i].mac \in Mac
                                 /\ c[i].packet \in Packet /\ Hash(c[i].packet) \in Field
         /\ \A i, j \in 1..Len(c) : c[i].mac = c[j].mac => i = j
         /\ \A i, j \in 1..Len(c) : Hash(c[i].packet) = Hash(c[j].packet) => i = j
<1>1. PICK n \in 1..MaxNatives : c \in [1..n -> [mac: Mac, packet: Packet]]
  BY DEF Combinations
<1>2. n \in Nat /\ n # 0
  BY <1>1
<1>3. c \in Seq([mac: Mac, packet: Packet]) /\ Len(c) = n /\ DOMAIN c = 1..n
  <2> DEFINE R == [mac: Mac, packet: Packet]
  <2>1. c \in [1..n -> R]
    BY <1>1
  <2> HIDE DEF R
  <2>2. c \in Seq(R) /\ Len(c) = n /\ DOMAIN c = 1..n
    BY <1>2, <2>1
  <2> QED BY <2>2 DEF R
<1>4. \A i \in 1..n : c[i] \in [mac: Mac, packet: Packet]
  BY <1>1
<1>5. \A i \in 1..n : /\ c[i].mac \in Nat /\ c[i].mac \in Mac
                      /\ c[i].packet \in Packet /\ Hash(c[i].packet) \in Field
  BY <1>4, FieldAssumption DEF Field
<1>6. /\ IsInjective([i \in DOMAIN c |-> c[i].mac])
      /\ IsInjective([i \in DOMAIN c |-> Hash(c[i].packet)])
  BY DEF Combinations
<1>7. /\ \A i, j \in 1..n : c[i].mac = c[j].mac => i = j
      /\ \A i, j \in 1..n : Hash(c[i].packet) = Hash(c[j].packet) => i = j
  BY <1>3, <1>6 DEF IsInjective
<1> QED BY <1>2, <1>3, <1>5, <1>7

\* The first loop: the natives.
LEMMA NamedBuilt ==
  ASSUME NEW c \in Combinations, NEW ip \in Field,
         NEW f, f = CHOOSE g : g = [i \in 0..Len(c) |->
                      IF i = 0 THEN NewHeader(ip)
                      ELSE AddIdNexthop(g[i - 1], c[i].mac, Hash(c[i].packet))]
  PROVE  /\ f[Len(c)] \in Built(Field)
         /\ DOMAIN f[Len(c)].natives = {c[i].mac : i \in 1..Len(c)}
         /\ \A i \in 1..Len(c) : f[Len(c)].natives[c[i].mac] = Hash(c[i].packet)
<1> DEFINE X == Built(Field)
           n == Len(c)
           a == NewHeader(ip)
           step == [i \in 1..n |-> [h \in X |-> AddIdNexthop(h, c[i].mac, Hash(c[i].packet))]]
           Loops(g) == g = [i \in 0..n |-> IF i = 0 THEN a
                              ELSE AddIdNexthop(g[i - 1], c[i].mac, Hash(c[i].packet))]
<1>1. /\ n \in Nat /\ a \in X /\ DOMAIN a.natives = {}
      /\ \A i \in 1..n : c[i].mac \in Nat /\ Hash(c[i].packet) \in Field
      /\ \A i, j \in 1..n : c[i].mac = c[j].mac => i = j
  BY Combined, NewBuilt
<1>2. step \in [1..n -> [X -> X]]
  <2>1. ASSUME NEW i \in 1..n, NEW h \in X
        PROVE  AddIdNexthop(h, c[i].mac, Hash(c[i].packet)) \in X
    BY <1>1, NativeBuilt
  <2> HIDE DEF X
  <2> QED BY <2>1
<1>3. \E g : Loops(g)
  <2>1. PICK g : IsIteration(g, X, a, step, n)
    <3> HIDE DEF X, a, step, n
    <3> QED BY <1>1, <1>2, IterationExists
  <2>2. ASSUME NEW i \in 1..n
        PROVE  step[i][g[i - 1]] = AddIdNexthop(g[i - 1], c[i].mac, Hash(c[i].packet))
    <3>1. i - 1 \in 0..n
      BY <1>1
    <3>2. g[i - 1] \in X
      BY <2>1, <3>1 DEF IsIteration
    <3> HIDE DEF X
    <3> QED BY <3>2
  <2>3. g = [i \in 0..n |-> IF i = 0 THEN a ELSE step[i][g[i - 1]]]
    BY <2>1 DEF IsIteration
  <2>4. Loops(g)
    <3> HIDE DEF step, a, n, X
    <3>1. \A i \in 0..n : i # 0 => i \in 1..n
      BY <1>1
    <3> QED BY <2>2, <2>3, <3>1
  <2> HIDE DEF Loops
  <2> QED BY <2>4
<1>4. Loops(f)
  <2>1. f = CHOOSE g : Loops(g)
    OBVIOUS
  <2> HIDE DEF Loops
  <2> QED BY <1>3, <2>1
<1>5. f[0] = a /\ \A i \in 1..n : f[i] = AddIdNexthop(f[i - 1], c[i].mac, Hash(c[i].packet))
  <2> HIDE DEF a, n
  <2>1. 0 \in 0..n /\ \A i \in 1..n : i \in 0..n /\ i # 0
    BY <1>1
  <2> QED BY <1>4, <2>1
<1> DEFINE Names(i) == /\ f[i] \in X
                       /\ DOMAIN f[i].natives = {c[j].mac : j \in 1..i}
                       /\ \A j \in 1..i : f[i].natives[c[j].mac] = Hash(c[j].packet)
           T == {i \in 0..n : Names(i)}
<1> HIDE DEF X, a, n, step, Loops
<1>6. 0 \in T
  <2>1. 1..0 = {} /\ {c[j].mac : j \in 1..0} = {}
    OBVIOUS
  <2>2. Names(0)
    BY <1>1, <1>5, <2>1
  <2> QED BY <1>1, <2>2
<1>7. ASSUME NEW i \in 1..n, i - 1 \in T PROVE i \in T
  <2>1. f[i - 1] \in Built(Field) /\ Names(i - 1)
    BY <1>7 DEF X
  <2> DEFINE h == f[i - 1]
             mac == c[i].mac
             id == Hash(c[i].packet)
             r == AddIdNexthop(h, mac, id)
  <2>2. r = f[i] /\ mac \in Nat /\ id \in Field
    BY <1>1, <1>5
  <2>3. /\ r \in Built(Field) /\ DOMAIN r.natives = DOMAIN h.natives \union {mac}
        /\ mac \notin DOMAIN h.natives => r.natives[mac] = id
        /\ \A m \in DOMAIN h.natives : r.natives[m] = h.natives[m]
    <3> HIDE DEF h, mac, id
    <3>1. h \in Built(Field)
      BY <2>1 DEF h
    <3>2. mac \in Nat /\ id \in Field
      BY <2>2
    <3> HIDE DEF T, Names
    <3> QED BY <3>1, <3>2, NativeBuilt
  <2>4. \A j \in 1..i : j = i \/ j \in 1..(i - 1)
    OBVIOUS
  <2>5. 1..(i - 1) \subseteq 1..i /\ i \in 1..i /\ 1..i \subseteq 1..n
    BY <1>1
  <2>6. mac \notin DOMAIN h.natives
    BY <1>1, <2>1, <2>5
  <2>7. DOMAIN r.natives = {c[j].mac : j \in 1..i}
    BY <2>1, <2>3, <2>4, <2>5
  <2>8. ASSUME NEW j \in 1..i PROVE r.natives[c[j].mac] = Hash(c[j].packet)
    <3>1. CASE j = i
      BY <2>3, <2>6, <3>1
    <3>2. CASE j # i
      <4>1. j \in 1..(i - 1)
        BY <2>4, <3>2
      <4>2. c[j].mac \in DOMAIN h.natives /\ h.natives[c[j].mac] = Hash(c[j].packet)
        BY <2>1, <4>1
      <4> QED BY <2>3, <4>2
    <3> QED BY <3>1, <3>2
  <2> HIDE DEF r
  <2>9. Names(i)
    BY <2>2, <2>3, <2>7, <2>8 DEF X
  <2> QED BY <1>1, <2>9
<1>8. n \in T
  <2> HIDE DEF T
  <2>1. 0..n \subseteq T
    BY <1>1, <1>6, <1>7, RangeInduction
  <2> QED BY <1>1, <2>1
<1> QED BY <1>8 DEF n, X

\* The second loop: the reports that wait. Natives stay.
LEMMA ReportingBuilt ==
  ASSUME NEW w \in Seq(Nat), NEW a \in Built(Field),
         NEW f, f = CHOOSE g : g = [i \in 0..Len(w) |->
                      IF i = 0 THEN a ELSE AddRecpReport(g[i - 1], w[i])]
  PROVE  f[Len(w)] \in Built(Field) /\ f[Len(w)].natives = a.natives
<1> DEFINE X == Built(Field)
           n == Len(w)
           step == [i \in 1..n |-> [h \in X |-> AddRecpReport(h, w[i])]]
           Loops(g) == g = [i \in 0..n |-> IF i = 0 THEN a ELSE AddRecpReport(g[i - 1], w[i])]
<1>1. n \in Nat /\ \A i \in 1..n : w[i] \in Field
  BY DEF Field
<1>2. step \in [1..n -> [X -> X]]
  <2>1. ASSUME NEW i \in 1..n, NEW h \in X PROVE AddRecpReport(h, w[i]) \in X
    BY <1>1, ReportBuilt
  <2> HIDE DEF X
  <2> QED BY <2>1
<1>3. \E g : Loops(g)
  <2>1. PICK g : IsIteration(g, X, a, step, n)
    <3>1. a \in X
      OBVIOUS
    <3> HIDE DEF X, step, n
    <3> QED BY <1>1, <1>2, <3>1, IterationExists
  <2>2. ASSUME NEW i \in 1..n PROVE step[i][g[i - 1]] = AddRecpReport(g[i - 1], w[i])
    <3>1. i - 1 \in 0..n
      BY <1>1
    <3>2. g[i - 1] \in X
      BY <2>1, <3>1 DEF IsIteration
    <3> HIDE DEF X
    <3> QED BY <3>2
  <2>3. g = [i \in 0..n |-> IF i = 0 THEN a ELSE step[i][g[i - 1]]]
    BY <2>1 DEF IsIteration
  <2>4. Loops(g)
    <3> HIDE DEF step, n, X
    <3>1. \A i \in 0..n : i # 0 => i \in 1..n
      BY <1>1
    <3> QED BY <2>2, <2>3, <3>1
  <2> HIDE DEF Loops
  <2> QED BY <2>4
<1>4. Loops(f)
  <2>1. f = CHOOSE g : Loops(g)
    OBVIOUS
  <2> HIDE DEF Loops
  <2> QED BY <1>3, <2>1
<1>5. f[0] = a /\ \A i \in 1..n : f[i] = AddRecpReport(f[i - 1], w[i])
  <2> HIDE DEF n
  <2>1. 0 \in 0..n /\ \A i \in 1..n : i \in 0..n /\ i # 0
    BY <1>1
  <2> QED BY <1>4, <2>1
<1> DEFINE T == {i \in 0..n : f[i] \in Built(Field) /\ f[i].natives = a.natives}
<1> HIDE DEF n, step, Loops
<1>6. 0 \in T
  BY <1>1, <1>5
<1>7. ASSUME NEW i \in 1..n, i - 1 \in T PROVE i \in T
  <2> DEFINE h == f[i - 1]
             x == w[i]
  <2>1. h \in Built(Field) /\ h.natives = a.natives
    BY <1>7
  <2>2. f[i] = AddRecpReport(h, x) /\ x \in Field
    BY <1>1, <1>5
  <2>3. AddRecpReport(h, x) \in Built(Field) /\ AddRecpReport(h, x).natives = h.natives
    <3> HIDE DEF h, x
    <3> QED BY <2>1, <2>2, ReportBuilt
  <2> QED BY <1>1, <2>1, <2>2, <2>3
<1>8. n \in T
  <2> HIDE DEF T
  <2>1. 0..n \subseteq T
    BY <1>1, <1>6, <1>7, RangeInduction
  <2> QED BY <1>1, <2>1
<1> QED BY <1>8 DEF n

\* The third loop: the acknowledgments that wait. Natives stay.
LEMMA AckingBuilt ==
  ASSUME NEW w \in Seq([ip: Nat, pid: Nat]), NEW a \in Built(Field),
         NEW f, f = CHOOSE g : g = [i \in 0..Len(w) |->
                      IF i = 0 THEN a ELSE AddAckBlock(g[i - 1], w[i])]
  PROVE  f[Len(w)] \in Built(Field) /\ f[Len(w)].natives = a.natives
<1> DEFINE X == Built(Field)
           n == Len(w)
           step == [i \in 1..n |-> [h \in X |-> AddAckBlock(h, w[i])]]
           Loops(g) == g = [i \in 0..n |-> IF i = 0 THEN a ELSE AddAckBlock(g[i - 1], w[i])]
<1>1. n \in Nat /\ \A i \in 1..n : w[i] \in [ip: Field, pid: Field]
  <2> DEFINE R == [ip: Nat, pid: Nat]
  <2>1. R \subseteq [ip: Field, pid: Field]
    BY DEF Field
  <2>2. w \in Seq(R)
    OBVIOUS
  <2> HIDE DEF R
  <2>3. n \in Nat /\ \A i \in 1..n : w[i] \in R
    BY <2>2
  <2> QED BY <2>1, <2>3
<1>2. step \in [1..n -> [X -> X]]
  <2>1. ASSUME NEW i \in 1..n, NEW h \in X PROVE AddAckBlock(h, w[i]) \in X
    BY <1>1, AckBuilt
  <2> HIDE DEF X
  <2> QED BY <2>1
<1>3. \E g : Loops(g)
  <2>1. PICK g : IsIteration(g, X, a, step, n)
    <3>1. a \in X
      OBVIOUS
    <3> HIDE DEF X, step, n
    <3> QED BY <1>1, <1>2, <3>1, IterationExists
  <2>2. ASSUME NEW i \in 1..n PROVE step[i][g[i - 1]] = AddAckBlock(g[i - 1], w[i])
    <3>1. i - 1 \in 0..n
      BY <1>1
    <3>2. g[i - 1] \in X
      BY <2>1, <3>1 DEF IsIteration
    <3> HIDE DEF X
    <3> QED BY <3>2
  <2>3. g = [i \in 0..n |-> IF i = 0 THEN a ELSE step[i][g[i - 1]]]
    BY <2>1 DEF IsIteration
  <2>4. Loops(g)
    <3> HIDE DEF step, n, X
    <3>1. \A i \in 0..n : i # 0 => i \in 1..n
      BY <1>1
    <3> QED BY <2>2, <2>3, <3>1
  <2> HIDE DEF Loops
  <2> QED BY <2>4
<1>4. Loops(f)
  <2>1. f = CHOOSE g : Loops(g)
    OBVIOUS
  <2> HIDE DEF Loops
  <2> QED BY <1>3, <2>1
<1>5. f[0] = a /\ \A i \in 1..n : f[i] = AddAckBlock(f[i - 1], w[i])
  <2> HIDE DEF n
  <2>1. 0 \in 0..n /\ \A i \in 1..n : i \in 0..n /\ i # 0
    BY <1>1
  <2> QED BY <1>4, <2>1
<1> DEFINE T == {i \in 0..n : f[i] \in Built(Field) /\ f[i].natives = a.natives}
<1> HIDE DEF n, step, Loops
<1>6. 0 \in T
  BY <1>1, <1>5
<1>7. ASSUME NEW i \in 1..n, i - 1 \in T PROVE i \in T
  <2> DEFINE h == f[i - 1]
             x == w[i]
  <2>1. h \in Built(Field) /\ h.natives = a.natives
    BY <1>7
  <2>2. f[i] = AddAckBlock(h, x) /\ x \in [ip: Field, pid: Field]
    BY <1>1, <1>5
  <2>3. AddAckBlock(h, x) \in Built(Field) /\ AddAckBlock(h, x).natives = h.natives
    <3> HIDE DEF h, x
    <3> QED BY <2>1, <2>2, AckBuilt
  <2> QED BY <1>1, <2>1, <2>2, <2>3
<1>8. n \in T
  <2> HIDE DEF T
  <2>1. 0..n \subseteq T
    BY <1>1, <1>6, <1>7, RangeInduction
  <2> QED BY <1>1, <2>1
<1> QED BY <1>8 DEF n

\* What the sender writes: one native per next hop, under its id.
LEMMA HeaderBuilt ==
  ASSUME natives \in Combinations, waiting \in Waiting
  PROVE  /\ BuiltHeader \in Built(Field)
         /\ DOMAIN BuiltHeader.natives = {natives[i].mac : i \in 1..Len(natives)}
         /\ \A i \in 1..Len(natives) :
              BuiltHeader.natives[natives[i].mac] = Hash(natives[i].packet)
<1> DEFINE named[i \in 0..Len(natives)] ==
             IF i = 0 THEN NewHeader(SenderIP)
             ELSE AddIdNexthop(named[i - 1], natives[i].mac, Hash(natives[i].packet))
           reporting[i \in 0..Len(waiting.recps)] ==
             IF i = 0 THEN named[Len(natives)]
             ELSE AddRecpReport(reporting[i - 1], waiting.recps[i])
           acking[i \in 0..Len(waiting.acks)] ==
             IF i = 0 THEN reporting[Len(waiting.recps)]
             ELSE AddAckBlock(acking[i - 1], waiting.acks[i])
<1>1. BuiltHeader = acking[Len(waiting.acks)]
  BY DEF BuiltHeader
<1>2. waiting.recps \in Seq(Nat) /\ waiting.acks \in Seq([ip: Nat, pid: Nat])
  BY FieldAssumption
<1>3. /\ named[Len(natives)] \in Built(Field)
      /\ DOMAIN named[Len(natives)].natives = {natives[i].mac : i \in 1..Len(natives)}
      /\ \A i \in 1..Len(natives) :
           named[Len(natives)].natives[natives[i].mac] = Hash(natives[i].packet)
  <2>1. named = CHOOSE g : g = [i \in 0..Len(natives) |->
                  IF i = 0 THEN NewHeader(SenderIP)
                  ELSE AddIdNexthop(g[i - 1], natives[i].mac, Hash(natives[i].packet))]
    OBVIOUS
  <2> HIDE DEF named, reporting, acking
  <2> QED BY <2>1, SenderField, NamedBuilt
<1>4. /\ reporting[Len(waiting.recps)] \in Built(Field)
      /\ reporting[Len(waiting.recps)].natives = named[Len(natives)].natives
  <2> DEFINE w == waiting.recps
             a == named[Len(natives)]
  <2>1. reporting = CHOOSE g : g = [i \in 0..Len(w) |->
                      IF i = 0 THEN a ELSE AddRecpReport(g[i - 1], w[i])]
    OBVIOUS
  <2>2. w \in Seq(Nat) /\ a \in Built(Field)
    BY <1>2, <1>3
  <2> HIDE DEF named, reporting, acking, w, a
  <2>3. reporting[Len(w)] \in Built(Field) /\ reporting[Len(w)].natives = a.natives
    BY <2>1, <2>2, ReportingBuilt
  <2> QED BY <2>3 DEF w, a
<1>5. /\ acking[Len(waiting.acks)] \in Built(Field)
      /\ acking[Len(waiting.acks)].natives = named[Len(natives)].natives
  <2> DEFINE w == waiting.acks
             a == reporting[Len(waiting.recps)]
  <2>1. acking = CHOOSE g : g = [i \in 0..Len(w) |->
                   IF i = 0 THEN a ELSE AddAckBlock(g[i - 1], w[i])]
    OBVIOUS
  <2>2. w \in Seq([ip: Nat, pid: Nat]) /\ a \in Built(Field)
    BY <1>2, <1>4
  <2> HIDE DEF named, reporting, acking, w, a
  <2>3. acking[Len(w)] \in Built(Field) /\ acking[Len(w)].natives = a.natives
    BY <2>1, <2>2, AckingBuilt
  <2> QED BY <1>4, <2>3 DEF w, a
<1> HIDE DEF named, reporting, acking
<1> QED BY <1>1, <1>3, <1>5

-------------------------------------------------------------------------------
(* Writing and reading headers                                             *)

\* w is header h as written, and t behind it.
Written(F, h, t, w) ==
  LET n == h.encodedNum
      r == h.reportNum
      a == h.ackNum
  IN  /\ w \in Seq(F) /\ Len(w) = 4 + 2 * n + r + 2 * a + Len(t)
      /\ w[1] = h.ip /\ w[2] = n /\ w[3 + 2 * n] = r /\ w[4 + 2 * n + r] = a
      /\ \A i \in 1..n : /\ w[1 + 2 * i] = NextHops(h)[i]
                         /\ w[2 + 2 * i] = h.natives[NextHops(h)[i]]
      /\ \A i \in 1..r : w[3 + 2 * n + i] = h.recps[i]
      /\ \A i \in 1..a : /\ w[3 + 2 * n + r + 2 * i] = h.acks[i].ip
                         /\ w[4 + 2 * n + r + 2 * i] = h.acks[i].pid
      /\ \A i \in 1..Len(t) : w[4 + 2 * n + r + 2 * a + i] = t[i]

\* Serialize writes it that way.
LEMMA DataWritten ==
  ASSUME NEW F, Nat \subseteq F, NEW h \in Built(F), NEW t \in Seq(F)
  PROVE  Serialize(h) \in Seq(F) /\ Written(F, h, t, Serialize(h) \o t)
<1> DEFINE n == h.encodedNum
           r == h.reportNum
           a == h.ackNum
           hops == NextHops(h)
           pairs == [i \in 1..n |-> <<hops[i], h.natives[hops[i]]>>]
           told == [i \in 1..a |-> <<h.acks[i].ip, h.acks[i].pid>>]
           first == <<h.ip, n>>
           nat == FlattenSeq(pairs)
           reps == h.recps
           acks == FlattenSeq(told)
           p2 == first \o nat
           p3 == p2 \o <<r>>
           p4 == p3 \o reps
           p5 == p4 \o <<a>>
           p6 == p5 \o acks
           w == p6 \o t
<1>1. /\ n \in Nat /\ h.ip \in F /\ Len(hops) = n
      /\ \A i \in 1..n : hops[i] \in F /\ h.natives[hops[i]] \in F
  <2>1. /\ n \in Nat /\ h.ip \in F
        /\ DOMAIN h.natives \in SUBSET Nat /\ h.natives \in [DOMAIN h.natives -> F]
    BY BuiltFields
  <2>2. hops \in [1..n -> DOMAIN h.natives] /\ Len(hops) = n
    BY HopsListed
  <2> HIDE DEF hops, n
  <2> QED BY <2>1, <2>2
<1>2. reps \in Seq(F) /\ Len(reps) = r /\ r \in Nat
  <2>1. reps \in Seq(F) /\ Len(reps) = r
    BY BuiltFields
  <2> HIDE DEF reps, r
  <2> QED BY <2>1
<1>3. a \in Nat /\ Len(h.acks) = a /\ \A i \in 1..a : h.acks[i].ip \in F /\ h.acks[i].pid \in F
  <2> DEFINE R == [ip: F, pid: F]
             q == h.acks
  <2>1. q \in Seq(R) /\ a = Len(q) /\ \A x \in R : x.ip \in F /\ x.pid \in F
    BY BuiltFields
  <2> HIDE DEF R, q
  <2>2. a \in Nat /\ \A i \in 1..a : q[i] \in R
    BY <2>1
  <2> QED BY <2>1, <2>2 DEF q
<1>4. Serialize(h) = p6
  <2>1. Len(NextHops(h)) = n /\ Len(h.acks) = a
    BY <1>1, <1>3
  <2> QED BY <2>1 DEF Serialize
<1> HIDE DEF n, r, a, hops
<1>5. /\ nat \in Seq(F) /\ Len(nat) = 2 * n
      /\ \A i \in 1..n : nat[2 * (i - 1) + 1] = hops[i] /\ nat[2 * (i - 1) + 2] = h.natives[hops[i]]
  <2>1. \A i \in 1..n : pairs[i] \in Seq(F) /\ Len(pairs[i]) = 2
    BY <1>1
  <2>2. pairs \in [1..n -> Seq(F)]
    BY <2>1
  <2>3. \A i \in 1..n : pairs[i][1] = hops[i] /\ pairs[i][2] = h.natives[hops[i]]
    OBVIOUS
  <2> HIDE DEF pairs
  <2>4. /\ FlattenSeq(pairs) \in Seq(F) /\ Len(FlattenSeq(pairs)) = 2 * n
        /\ \A i \in 1..n : \A j \in 1..2 : FlattenSeq(pairs)[2 * (i - 1) + j] = pairs[i][j]
    <3>1. Grouped(F, 2, n, pairs)
      BY <2>1, <2>2 DEF Grouped
    <3>2. Ungrouped(F, 2, n, pairs, FlattenSeq(pairs))
      BY <1>1, <3>1, FlattenFields
    <3> QED BY <3>2 DEF Ungrouped
  <2>5. 1 \in 1..2 /\ 2 \in 1..2
    OBVIOUS
  <2> QED BY <2>3, <2>4, <2>5
<1>6. /\ acks \in Seq(F) /\ Len(acks) = 2 * a
      /\ \A i \in 1..a : /\ acks[2 * (i - 1) + 1] = h.acks[i].ip
                         /\ acks[2 * (i - 1) + 2] = h.acks[i].pid
  <2>1. \A i \in 1..a : told[i] \in Seq(F) /\ Len(told[i]) = 2
    BY <1>3
  <2>2. told \in [1..a -> Seq(F)]
    BY <2>1
  <2>3. \A i \in 1..a : told[i][1] = h.acks[i].ip /\ told[i][2] = h.acks[i].pid
    OBVIOUS
  <2> HIDE DEF told
  <2>4. /\ FlattenSeq(told) \in Seq(F) /\ Len(FlattenSeq(told)) = 2 * a
        /\ \A i \in 1..a : \A j \in 1..2 : FlattenSeq(told)[2 * (i - 1) + j] = told[i][j]
    <3>1. Grouped(F, 2, a, told)
      BY <2>1, <2>2 DEF Grouped
    <3>2. Ungrouped(F, 2, a, told, FlattenSeq(told))
      BY <1>3, <3>1, FlattenFields
    <3> QED BY <3>2 DEF Ungrouped
  <2>5. 1 \in 1..2 /\ 2 \in 1..2
    OBVIOUS
  <2> QED BY <2>3, <2>4, <2>5
<1> HIDE DEF nat, acks, reps
<1>7. first \in Seq(F) /\ Len(first) = 2 /\ first[1] = h.ip /\ first[2] = n
  BY <1>1
<1>8. /\ <<r>> \in Seq(F) /\ Len(<<r>>) = 1 /\ <<r>>[1] = r
      /\ <<a>> \in Seq(F) /\ Len(<<a>>) = 1 /\ <<a>>[1] = a
  BY <1>2, <1>3
<1> HIDE DEF first
<1>9. /\ p2 \in Seq(F) /\ Len(p2) = 2 + 2 * n
      /\ \A i \in 1..2 : p2[i] = first[i]
      /\ \A i \in 1..(2 * n) : p2[2 + i] = nat[i]
  <2>1. first \in Seq(F) /\ nat \in Seq(F)
    BY <1>5, <1>7
  <2>2. /\ first \o nat \in Seq(F) /\ Len(first \o nat) = Len(first) + Len(nat)
        /\ \A i \in 1..Len(first) : (first \o nat)[i] = first[i]
        /\ \A i \in 1..Len(nat) : (first \o nat)[Len(first) + i] = nat[i]
    BY <2>1, Joined
  <2> QED BY <2>2, <1>1, <1>5, <1>7
<1> HIDE DEF p2
<1>10. /\ p3 \in Seq(F) /\ Len(p3) = 3 + 2 * n
       /\ \A i \in 1..(2 + 2 * n) : p3[i] = p2[i]
       /\ p3[3 + 2 * n] = r
  <2> DEFINE q == <<r>>
  <2>1. p2 \in Seq(F) /\ q \in Seq(F) /\ Len(q) = 1 /\ q[1] = r
    BY <1>8, <1>9
  <2>2. /\ p2 \o q \in Seq(F) /\ Len(p2 \o q) = Len(p2) + Len(q)
        /\ \A i \in 1..Len(p2) : (p2 \o q)[i] = p2[i]
        /\ \A i \in 1..Len(q) : (p2 \o q)[Len(p2) + i] = q[i]
    <3> HIDE DEF q
    <3> QED BY <2>1, Joined
  <2>3. p3 = p2 \o q
    OBVIOUS
  <2> HIDE DEF p3, q
  <2>4. Len(p2) = 2 + 2 * n /\ Len(p2) \in Nat /\ Len(p2) + 1 = 3 + 2 * n /\ 1 \in 1..Len(q)
    BY <1>1, <1>9, <2>1
  <2>5. p3[Len(p2) + 1] = r
    BY <2>1, <2>2, <2>3, <2>4
  <2> QED BY <2>1, <2>2, <2>3, <2>4, <2>5
<1> HIDE DEF p3
<1>11. /\ p4 \in Seq(F) /\ Len(p4) = 3 + 2 * n + r
       /\ \A i \in 1..(3 + 2 * n) : p4[i] = p3[i]
       /\ \A i \in 1..r : p4[3 + 2 * n + i] = reps[i]
  <2>1. p3 \in Seq(F) /\ reps \in Seq(F)
    BY <1>2, <1>10
  <2>2. /\ p3 \o reps \in Seq(F) /\ Len(p3 \o reps) = Len(p3) + Len(reps)
        /\ \A i \in 1..Len(p3) : (p3 \o reps)[i] = p3[i]
        /\ \A i \in 1..Len(reps) : (p3 \o reps)[Len(p3) + i] = reps[i]
    BY <2>1, Joined
  <2> QED BY <2>2, <1>1, <1>2, <1>10
<1> HIDE DEF p4
<1>12. /\ p5 \in Seq(F) /\ Len(p5) = 4 + 2 * n + r
       /\ \A i \in 1..(3 + 2 * n + r) : p5[i] = p4[i]
       /\ p5[4 + 2 * n + r] = a
  <2> DEFINE q == <<a>>
  <2>1. p4 \in Seq(F) /\ q \in Seq(F) /\ Len(q) = 1 /\ q[1] = a
    BY <1>8, <1>11
  <2>2. /\ p4 \o q \in Seq(F) /\ Len(p4 \o q) = Len(p4) + Len(q)
        /\ \A i \in 1..Len(p4) : (p4 \o q)[i] = p4[i]
        /\ \A i \in 1..Len(q) : (p4 \o q)[Len(p4) + i] = q[i]
    <3> HIDE DEF q
    <3> QED BY <2>1, Joined
  <2>3. p5 = p4 \o q
    OBVIOUS
  <2> HIDE DEF p5, q
  <2>4. Len(p4) = 3 + 2 * n + r /\ Len(p4) \in Nat /\ Len(p4) + 1 = 4 + 2 * n + r /\ 1 \in 1..Len(q)
    BY <1>1, <1>2, <1>11, <2>1
  <2>5. p5[Len(p4) + 1] = a
    BY <2>1, <2>2, <2>3, <2>4
  <2> QED BY <2>1, <2>2, <2>3, <2>4, <2>5
<1> HIDE DEF p5
<1>13. /\ p6 \in Seq(F) /\ Len(p6) = 4 + 2 * n + r + 2 * a
       /\ \A i \in 1..(4 + 2 * n + r) : p6[i] = p5[i]
       /\ \A i \in 1..(2 * a) : p6[4 + 2 * n + r + i] = acks[i]
  <2>1. p5 \in Seq(F) /\ acks \in Seq(F)
    BY <1>6, <1>12
  <2>2. /\ p5 \o acks \in Seq(F) /\ Len(p5 \o acks) = Len(p5) + Len(acks)
        /\ \A i \in 1..Len(p5) : (p5 \o acks)[i] = p5[i]
        /\ \A i \in 1..Len(acks) : (p5 \o acks)[Len(p5) + i] = acks[i]
    BY <2>1, Joined
  <2> QED BY <2>2, <1>1, <1>2, <1>3, <1>6, <1>12
<1> HIDE DEF p6
<1>14. /\ w \in Seq(F) /\ Len(w) = 4 + 2 * n + r + 2 * a + Len(t)
       /\ \A i \in 1..(4 + 2 * n + r + 2 * a) : w[i] = p6[i]
       /\ \A i \in 1..Len(t) : w[4 + 2 * n + r + 2 * a + i] = t[i]
  <2>1. p6 \in Seq(F) /\ t \in Seq(F)
    BY <1>13
  <2>2. /\ w \in Seq(F) /\ Len(w) = Len(p6) + Len(t)
        /\ \A i \in 1..Len(p6) : w[i] = p6[i]
        /\ \A i \in 1..Len(t) : w[Len(p6) + i] = t[i]
    BY <2>1, Joined
  <2> QED BY <2>2, <1>1, <1>2, <1>3, <1>13
<1> HIDE DEF w
<1>15. \A i \in 1..(2 + 2 * n) : w[i] = p2[i]
  <2>1. \A i \in 1..(2 + 2 * n) : /\ i \in 1..(3 + 2 * n) /\ i \in 1..(3 + 2 * n + r)
                                  /\ i \in 1..(4 + 2 * n + r) /\ i \in 1..(4 + 2 * n + r + 2 * a)
    BY <1>1, <1>2, <1>3
  <2> QED BY <2>1, <1>10, <1>11, <1>12, <1>13, <1>14
<1>16. w[1] = h.ip /\ w[2] = n
  BY <1>1, <1>7, <1>9, <1>15
<1>17. w[3 + 2 * n] = r
  <2> DEFINE i == 3 + 2 * n
  <2>1. /\ i \in 1..(3 + 2 * n) /\ i \in 1..(3 + 2 * n + r)
        /\ i \in 1..(4 + 2 * n + r) /\ i \in 1..(4 + 2 * n + r + 2 * a)
    BY <1>1, <1>2, <1>3
  <2>2. p3[i] = r
    BY <1>10
  <2> HIDE DEF i
  <2>3. w[i] = r
    BY <2>1, <2>2, <1>11, <1>12, <1>13, <1>14
  <2> QED BY <2>3 DEF i
<1>18. w[4 + 2 * n + r] = a
  <2> DEFINE i == 4 + 2 * n + r
  <2>1. i \in 1..(4 + 2 * n + r) /\ i \in 1..(4 + 2 * n + r + 2 * a)
    BY <1>1, <1>2, <1>3
  <2>2. p5[i] = a
    BY <1>12
  <2> HIDE DEF i
  <2>3. w[i] = a
    BY <2>1, <2>2, <1>13, <1>14
  <2> QED BY <2>3 DEF i
<1>19. ASSUME NEW i \in 1..n
       PROVE  w[1 + 2 * i] = hops[i] /\ w[2 + 2 * i] = h.natives[hops[i]]
  <2>1. /\ 2 * (i - 1) + 1 \in 1..(2 * n) /\ 2 * (i - 1) + 2 \in 1..(2 * n)
        /\ 2 + (2 * (i - 1) + 1) = 1 + 2 * i /\ 2 + (2 * (i - 1) + 2) = 2 + 2 * i
        /\ 1 + 2 * i \in 1..(2 + 2 * n) /\ 2 + 2 * i \in 1..(2 + 2 * n)
    BY <1>1
  <2>2. p2[1 + 2 * i] = nat[2 * (i - 1) + 1] /\ p2[2 + 2 * i] = nat[2 * (i - 1) + 2]
    BY <1>9, <2>1
  <2>3. w[1 + 2 * i] = p2[1 + 2 * i] /\ w[2 + 2 * i] = p2[2 + 2 * i]
    BY <1>15, <2>1
  <2> QED BY <1>5, <2>2, <2>3
<1>20. ASSUME NEW i \in 1..r PROVE w[3 + 2 * n + i] = h.recps[i]
  <2>1. w[3 + 2 * n + i] = p4[3 + 2 * n + i]
    BY <1>1, <1>2, <1>3, <1>12, <1>13, <1>14
  <2> QED BY <1>11, <2>1 DEF reps
<1>21. ASSUME NEW i \in 1..a
       PROVE  /\ w[3 + 2 * n + r + 2 * i] = h.acks[i].ip
              /\ w[4 + 2 * n + r + 2 * i] = h.acks[i].pid
  <2> DEFINE k == 2 * (i - 1)
             b == 4 + 2 * n + r
  <2>1. /\ k + 1 \in 1..(2 * a) /\ k + 2 \in 1..(2 * a) /\ b \in Nat
        /\ b + (k + 1) = 3 + 2 * n + r + 2 * i /\ b + (k + 2) = 4 + 2 * n + r + 2 * i
        /\ b + (k + 1) \in 1..(b + 2 * a) /\ b + (k + 2) \in 1..(b + 2 * a)
    BY <1>1, <1>2, <1>3
  <2>2. acks[k + 1] = h.acks[i].ip /\ acks[k + 2] = h.acks[i].pid
    BY <1>6
  <2>3. p6[b + (k + 1)] = acks[k + 1] /\ p6[b + (k + 2)] = acks[k + 2]
    <3>1. \A j \in 1..(2 * a) : p6[b + j] = acks[j]
      BY <1>13
    <3> HIDE DEF b, k
    <3> QED BY <2>1, <3>1
  <2>4. \A j \in 1..(b + 2 * a) : w[j] = p6[j]
    BY <1>14
  <2> HIDE DEF b, k
  <2>5. w[b + (k + 1)] = acks[k + 1] /\ w[b + (k + 2)] = acks[k + 2]
    BY <2>1, <2>3, <2>4
  <2> QED BY <2>1, <2>2, <2>5
<1>22. Written(F, h, t, w)
  BY <1>14, <1>16, <1>17, <1>18, <1>19, <1>20, <1>21 DEF Written, n, r, a, hops
<1>23. Serialize(h) \in Seq(F) /\ Serialize(h) \o t = w
  BY <1>4, <1>13 DEF w
<1> QED BY <1>22, <1>23

\* Deserialize, given what the counters say.
ReadAs(w, n, r, a) ==
  LET mac(i) == At(w, 1 + 2 * i)
      first(m) == CHOOSE i \in 1..n : mac(i) = m /\ \A j \in 1..n : mac(j) = m => i <= j
      ack(i) == 3 + 2 * n + r + 2 * i
  IN  [header |->
         [ip |-> At(w, 1), encodedNum |-> n,
          natives |-> [m \in {mac(i) : i \in 1..n} |-> At(w, 2 + 2 * first(m))],
          reportNum |-> r, recps |-> [i \in 1..r |-> At(w, 3 + 2 * n + i)],
          ackNum |-> a,
          acks |-> [i \in 1..a |-> [ip |-> At(w, ack(i)), pid |-> At(w, ack(i) + 1)]]],
       rest |-> SubSeq(w, 5 + 2 * n + r + 2 * a, Len(w)),
       dist |-> 4 + 2 + 10 * n + 2 + 4 * r + 2 + 8 * a]

\* Reading a data header gives the header that was written, whatever its size,
\* leaves what follows it, and takes as many bytes as the header has.
LEMMA DataRead ==
  ASSUME NEW F, Nat \subseteq F, NEW h \in Built(F), NEW t \in Seq(F)
  PROVE  LET read == Deserialize(Serialize(h) \o t)
         IN  read.header = h /\ read.rest = t /\ read.dist = GetSerializedSize(h)
<1> DEFINE n == h.encodedNum
           r == h.reportNum
           a == h.ackNum
           hops == NextHops(h)
           D == DOMAIN h.natives
           w == Serialize(h) \o t
           mac(i) == At(w, 1 + 2 * i)
           first(m) == CHOOSE i \in 1..n : mac(i) = m /\ \A j \in 1..n : mac(j) = m => i <= j
           nat == [m \in {mac(i) : i \in 1..n} |-> At(w, 2 + 2 * first(m))]
           recps == [i \in 1..r |-> At(w, 3 + 2 * n + i)]
           acks == [i \in 1..a |-> [ip |-> At(w, 3 + 2 * n + r + 2 * i),
                                    pid |-> At(w, 3 + 2 * n + r + 2 * i + 1)]]
<1>1. /\ w \in Seq(F) /\ Len(w) = 4 + 2 * n + r + 2 * a + Len(t)
      /\ w[1] = h.ip /\ w[2] = n /\ w[3 + 2 * n] = r /\ w[4 + 2 * n + r] = a
      /\ \A i \in 1..n : w[1 + 2 * i] = hops[i] /\ w[2 + 2 * i] = h.natives[hops[i]]
      /\ \A i \in 1..r : w[3 + 2 * n + i] = h.recps[i]
      /\ \A i \in 1..a : /\ w[3 + 2 * n + r + 2 * i] = h.acks[i].ip
                         /\ w[4 + 2 * n + r + 2 * i] = h.acks[i].pid
      /\ \A i \in 1..Len(t) : w[4 + 2 * n + r + 2 * a + i] = t[i]
  <2>1. Written(F, h, t, w)
    BY DataWritten
  <2> QED BY <2>1 DEF Written
<1>2. /\ n \in Nat /\ h.natives \in [D -> F] /\ D \in SUBSET Nat /\ n = Cardinality(D)
      /\ h.recps \in Seq(F) /\ r = Len(h.recps)
      /\ a = Len(h.acks)
      /\ h = [ip |-> h.ip, encodedNum |-> n, natives |-> h.natives, reportNum |-> r,
              recps |-> h.recps, ackNum |-> a, acks |-> h.acks]
  BY BuiltFields
<1>3. r \in Nat /\ Len(t) \in Nat
  <2> DEFINE q == h.recps
  <2>1. q \in Seq(F) /\ r = Len(q)
    BY <1>2
  <2> HIDE DEF q, r
  <2> QED BY <2>1
<1>4. a \in Nat /\ h.acks = [i \in 1..a |-> [ip |-> h.acks[i].ip, pid |-> h.acks[i].pid]]
  <2> DEFINE R == [ip: F, pid: F]
             q == h.acks
  <2>1. q \in Seq(R) /\ a = Len(q)
    BY BuiltFields
  <2>2. \A x \in R : x = [ip |-> x.ip, pid |-> x.pid]
    OBVIOUS
  <2> HIDE DEF R, q, a
  <2>3. a \in Nat /\ q = [i \in 1..a |-> q[i]] /\ \A i \in 1..a : q[i] \in R
    BY <2>1
  <2>4. q = [i \in 1..a |-> [ip |-> q[i].ip, pid |-> q[i].pid]]
    BY <2>2, <2>3
  <2> QED BY <2>3, <2>4 DEF q
<1>5. /\ hops \in [1..n -> D]
      /\ \A i, j \in 1..n : hops[i] = hops[j] => i = j
      /\ \A m \in D : \E i \in 1..n : hops[i] = m
  BY HopsListed
<1>6. /\ At(w, 1) = h.ip /\ At(w, 2) = n /\ At(w, 3 + 2 * n) = r /\ At(w, 4 + 2 * n + r) = a
      /\ \A i \in 1..n : At(w, 1 + 2 * i) = hops[i] /\ At(w, 2 + 2 * i) = h.natives[hops[i]]
      /\ \A i \in 1..r : At(w, 3 + 2 * n + i) = h.recps[i]
      /\ \A i \in 1..a : /\ At(w, 3 + 2 * n + r + 2 * i) = h.acks[i].ip
                         /\ At(w, 4 + 2 * n + r + 2 * i) = h.acks[i].pid
  <2> HIDE DEF w, n, r, a, hops, D
  <2> DEFINE l == 4 + 2 * n + r + 2 * a
  <2>0. n \in Nat /\ r \in Nat /\ a \in Nat
    BY <1>2, <1>3, <1>4
  <2>1. \A i \in 1..l : At(w, i) = w[i]
    BY <1>1, <1>3, <2>0 DEF At
  <2>2. /\ 1 \in 1..l /\ 2 \in 1..l /\ 3 + 2 * n \in 1..l /\ 4 + 2 * n + r \in 1..l
    BY <2>0
  <2>3. \A i \in 1..n : 1 + 2 * i \in 1..l /\ 2 + 2 * i \in 1..l
    BY <2>0
  <2>4. \A i \in 1..r : 3 + 2 * n + i \in 1..l
    BY <2>0
  <2>5. \A i \in 1..a : 3 + 2 * n + r + 2 * i \in 1..l /\ 4 + 2 * n + r + 2 * i \in 1..l
    BY <2>0
  <2> HIDE DEF l
  <2>6. At(w, 1) = h.ip /\ At(w, 2) = n /\ At(w, 3 + 2 * n) = r /\ At(w, 4 + 2 * n + r) = a
    BY <1>1, <2>1, <2>2
  <2>7. \A i \in 1..n : At(w, 1 + 2 * i) = hops[i] /\ At(w, 2 + 2 * i) = h.natives[hops[i]]
    BY <1>1, <2>1, <2>3
  <2>8. \A i \in 1..r : At(w, 3 + 2 * n + i) = h.recps[i]
    BY <1>1, <2>1, <2>4
  <2>9. \A i \in 1..a : /\ At(w, 3 + 2 * n + r + 2 * i) = h.acks[i].ip
                        /\ At(w, 4 + 2 * n + r + 2 * i) = h.acks[i].pid
    BY <1>1, <2>1, <2>5
  <2> QED BY <2>6, <2>7, <2>8, <2>9
<1> HIDE DEF w, n, r, a, hops, D
<1>7. nat = h.natives
  <2>1. {mac(i) : i \in 1..n} = D
    <3>1. \A i \in 1..n : mac(i) = hops[i] /\ hops[i] \in D
      BY <1>5, <1>6
    <3> HIDE DEF mac
    <3> QED BY <1>5, <3>1
  <2>2. ASSUME NEW m \in D PROVE At(w, 2 + 2 * first(m)) = h.natives[m]
    <3>1. PICK i \in 1..n : hops[i] = m
      BY <1>5
    <3>2. \A j \in 1..n : mac(j) = m <=> j = i
      BY <1>5, <1>6, <3>1
    <3>3. first(m) = i
      <4> HIDE DEF mac
      <4>1. i \in 1..n /\ mac(i) = m /\ \A j \in 1..n : mac(j) = m => i <= j
        BY <1>2, <3>2
      <4> QED BY <3>2, <4>1
    <3> HIDE DEF first, mac
    <3> QED BY <1>6, <3>1, <3>3
  <2> HIDE DEF mac, first
  <2>3. nat = [m \in D |-> h.natives[m]]
    BY <2>1, <2>2
  <2> QED BY <1>2, <2>3
<1>8. recps = h.recps
  <2>1. recps = [i \in 1..r |-> h.recps[i]]
    BY <1>6
  <2>2. h.recps = [i \in 1..r |-> h.recps[i]]
    BY <1>2, <1>3
  <2> QED BY <2>1, <2>2
<1>9. acks = h.acks
  <2>1. \A i \in 1..a : 3 + 2 * n + r + 2 * i + 1 = 4 + 2 * n + r + 2 * i
    BY <1>2, <1>3, <1>4
  <2>2. acks = [i \in 1..a |-> [ip |-> h.acks[i].ip, pid |-> h.acks[i].pid]]
    BY <1>6, <2>1
  <2> QED BY <1>4, <2>2
<1>10. Deserialize(w) =
         [header |-> [ip |-> At(w, 1), encodedNum |-> n, natives |-> nat, reportNum |-> r,
                      recps |-> recps, ackNum |-> a, acks |-> acks],
          rest |-> SubSeq(w, 5 + 2 * n + r + 2 * a, Len(w)),
          dist |-> 4 + 2 + 10 * n + 2 + 4 * r + 2 + 8 * a]
  <2> DEFINE n0 == At(w, 2)
             r0 == At(w, 3 + 2 * n0)
             a0 == At(w, 4 + 2 * n0 + r0)
  <2>1. Deserialize(w) = ReadAs(w, n0, r0, a0)
    BY DEF Deserialize, ReadAs
  <2>2. n0 = n /\ r0 = r /\ a0 = a
    BY <1>6
  <2> HIDE DEF n0, r0, a0
  <2>3. Deserialize(w) = ReadAs(w, n, r, a)
    BY <2>1, <2>2
  <2> QED BY <2>3 DEF ReadAs
<1>11. SubSeq(w, 5 + 2 * n + r + 2 * a, Len(w)) = t
  <2> DEFINE l == 4 + 2 * n + r + 2 * a
             u == SubSeq(w, 5 + 2 * n + r + 2 * a, Len(w))
  <2>1. l \in Nat /\ 5 + 2 * n + r + 2 * a = l + 1
    BY <1>2, <1>3, <1>4
  <2>2. /\ w \in Seq(F) /\ Len(w) = l + Len(t)
        /\ \A i \in 1..Len(t) : w[l + i] = t[i]
    BY <1>1
  <2>3. u = SubSeq(w, l + 1, l + Len(t))
    BY <2>1, <2>2
  <2> HIDE DEF l, u
  <2>4. /\ u \in Seq(F) /\ Len(u) = Len(t) /\ \A i \in 1..Len(t) : u[i] = w[l + i]
    BY <1>3, <2>1, <2>2, <2>3
  <2>5. u = t
    BY <2>2, <2>4
  <2> QED BY <2>5 DEF u
<1>12. GetSerializedSize(h) = 4 + 2 + 10 * n + 2 + 4 * r + 2 + 8 * a
  <2>1. Cardinality(DOMAIN h.natives) = n /\ Len(h.recps) = r /\ Len(h.acks) = a
    BY <1>2 DEF D
  <2> QED BY <2>1 DEF GetSerializedSize
<1> HIDE DEF nat, recps, acks
<1>13. /\ Deserialize(w).header = h /\ Deserialize(w).rest = t
       /\ Deserialize(w).dist = GetSerializedSize(h)
  BY <1>2, <1>6, <1>7, <1>8, <1>9, <1>10, <1>11, <1>12
<1> QED BY <1>13 DEF w

\* A hello is read as it was written, whatever the number of radios.
LEMMA HelloRead ==
  ASSUME NEW H \in Seq([ip: Nat, mac: Nat, channel: Nat])
  PROVE  SerializeHello(H) \in Seq(Nat) /\ DeserializeHello(SerializeHello(H)) = H
<1> DEFINE R == [ip: Nat, mac: Nat, channel: Nat]
           n == Len(H)
           s == [i \in 1..n |-> <<H[i].ip, H[i].mac, H[i].channel>>]
           f == FlattenSeq(s)
           w == <<n>> \o f
<1>1. /\ n \in Nat /\ H = [i \in 1..n |-> H[i]]
      /\ \A i \in 1..n : H[i].ip \in Nat /\ H[i].mac \in Nat /\ H[i].channel \in Nat
      /\ \A i \in 1..n : H[i] = [ip |-> H[i].ip, mac |-> H[i].mac, channel |-> H[i].channel]
  <2>1. H \in Seq(R) /\ \A x \in R : /\ x.ip \in Nat /\ x.mac \in Nat /\ x.channel \in Nat
                                     /\ x = [ip |-> x.ip, mac |-> x.mac, channel |-> x.channel]
    OBVIOUS
  <2> HIDE DEF R
  <2>2. n \in Nat /\ H = [i \in 1..n |-> H[i]] /\ \A i \in 1..n : H[i] \in R
    BY <2>1
  <2> HIDE DEF n
  <2> QED BY <2>1, <2>2
<1>2. SerializeHello(H) = w
  BY DEF SerializeHello
<1> HIDE DEF n
<1>3. /\ f \in Seq(Nat) /\ Len(f) = 3 * n
      /\ \A i \in 1..n : /\ f[3 * (i - 1) + 1] = H[i].ip /\ f[3 * (i - 1) + 2] = H[i].mac
                         /\ f[3 * (i - 1) + 3] = H[i].channel
  <2>1. \A i \in 1..n : s[i] \in Seq(Nat) /\ Len(s[i]) = 3
    BY <1>1
  <2>2. s \in [1..n -> Seq(Nat)]
    BY <2>1
  <2>3. \A i \in 1..n : s[i][1] = H[i].ip /\ s[i][2] = H[i].mac /\ s[i][3] = H[i].channel
    OBVIOUS
  <2> HIDE DEF s
  <2>4. Ungrouped(Nat, 3, n, s, FlattenSeq(s))
    <3>1. Grouped(Nat, 3, n, s)
      BY <2>1, <2>2 DEF Grouped
    <3> QED BY <1>1, <3>1, FlattenFields
  <2>5. /\ FlattenSeq(s) \in Seq(Nat) /\ Len(FlattenSeq(s)) = 3 * n
        /\ \A i \in 1..n : \A j \in 1..3 : FlattenSeq(s)[3 * (i - 1) + j] = s[i][j]
    BY <2>4 DEF Ungrouped
  <2>6. 1 \in 1..3 /\ 2 \in 1..3 /\ 3 \in 1..3
    OBVIOUS
  <2> QED BY <2>3, <2>5, <2>6
<1> HIDE DEF f
<1>4. /\ w \in Seq(Nat) /\ Len(w) = 1 + 3 * n /\ w[1] = n
      /\ \A i \in 1..(3 * n) : w[1 + i] = f[i]
  <2> DEFINE q == <<n>>
  <2>1. q \in Seq(Nat) /\ f \in Seq(Nat) /\ Len(q) = 1 /\ q[1] = n
    BY <1>1, <1>3
  <2>2. /\ q \o f \in Seq(Nat) /\ Len(q \o f) = Len(q) + Len(f)
        /\ \A i \in 1..Len(q) : (q \o f)[i] = q[i]
        /\ \A i \in 1..Len(f) : (q \o f)[Len(q) + i] = f[i]
    <3> DEFINE N == Nat
    <3>1. q \in Seq(N) /\ f \in Seq(N)
      BY <2>1
    <3> HIDE DEF q, N
    <3>2. /\ q \o f \in Seq(N) /\ Len(q \o f) = Len(q) + Len(f)
          /\ \A i \in 1..Len(q) : (q \o f)[i] = q[i]
          /\ \A i \in 1..Len(f) : (q \o f)[Len(q) + i] = f[i]
      BY <3>1, Joined
    <3> QED BY <3>2 DEF N
  <2>3. w = q \o f
    OBVIOUS
  <2> HIDE DEF q, w
  <2>4. 1 \in 1..Len(q)
    BY <2>1
  <2> QED BY <1>1, <1>3, <2>1, <2>2, <2>3, <2>4
<1> HIDE DEF w
<1>5. At(w, 1) = n /\ \A i \in 1..(3 * n) : At(w, 1 + i) = f[i]
  <2>1. n \in Nat
    BY <1>1
  <2>2. \A i \in 1..(1 + 3 * n) : At(w, i) = w[i]
    BY <1>4, <2>1 DEF At
  <2>3. 1 \in 1..(1 + 3 * n) /\ \A i \in 1..(3 * n) : 1 + i \in 1..(1 + 3 * n)
    BY <2>1
  <2> QED BY <1>4, <2>2, <2>3
<1>6. ASSUME NEW i \in 1..n
      PROVE  /\ At(w, 3 * i - 1) = H[i].ip /\ At(w, 3 * i) = H[i].mac
             /\ At(w, 3 * i + 1) = H[i].channel
  <2> DEFINE k == 3 * (i - 1)
  <2>1. /\ k + 1 \in 1..(3 * n) /\ k + 2 \in 1..(3 * n) /\ k + 3 \in 1..(3 * n)
        /\ 1 + (k + 1) = 3 * i - 1 /\ 1 + (k + 2) = 3 * i /\ 1 + (k + 3) = 3 * i + 1
    <3>1. n \in Nat
      BY <1>1
    <3> QED BY <3>1
  <2>2. f[k + 1] = H[i].ip /\ f[k + 2] = H[i].mac /\ f[k + 3] = H[i].channel
    BY <1>3
  <2> HIDE DEF k
  <2>3. /\ At(w, 1 + (k + 1)) = f[k + 1] /\ At(w, 1 + (k + 2)) = f[k + 2]
        /\ At(w, 1 + (k + 3)) = f[k + 3]
    BY <1>5, <2>1
  <2> QED BY <2>1, <2>2, <2>3
<1>7. DeserializeHello(w) = [i \in 1..n |-> H[i]]
  BY <1>1, <1>5, <1>6 DEF DeserializeHello
<1> QED BY <1>1, <1>2, <1>4, <1>7

-------------------------------------------------------------------------------
(* A frame on its way                                                      *)

\* The type in front of header and payload tells them apart, and leaves them
\* as they are.
LEMMA Framed ==
  ASSUME NEW F, NEW k \in F, NEW p \in Seq(F), NEW q \in Seq(F)
  PROVE  /\ Head(<<k>> \o p) = k /\ Tail(<<k>> \o p) = p
         /\ Head(<<k>> \o p \o q) = k /\ Tail(<<k>> \o p \o q) = p \o q
<1>1. ASSUME NEW s \in Seq(F)
      PROVE  Head(<<k>> \o s) = k /\ Tail(<<k>> \o s) = s
  OBVIOUS
<1>2. <<k>> \o p \o q = <<k>> \o (p \o q)
  OBVIOUS
<1>3. p \o q \in Seq(F)
  BY Joined
<1> QED BY <1>1, <1>2, <1>3

\* Id(i) is what the i-th native is known by.
Id(i) == Hash(natives[i].packet)

\* What the sender combines is well-formed, and no two natives are equal.
LEMMA NativesFormed ==
  ASSUME natives \in Combinations
  PROVE  /\ Len(natives) \in Nat \ {0} /\ DOMAIN natives = 1..Len(natives)
         /\ \A i \in 1..Len(natives) : /\ natives[i].packet \in Packet
                                       /\ WellFormed(natives[i].packet)
                                       /\ natives[i].packet \in Seq(Byte)
         /\ \A i, j \in 1..Len(natives) : Id(i) = Id(j) => i = j
         /\ \A i, j \in 1..Len(natives) : i # j => natives[i].packet # natives[j].packet
<1>1. /\ Len(natives) \in Nat \ {0} /\ DOMAIN natives = 1..Len(natives)
      /\ \A i \in 1..Len(natives) : natives[i].packet \in Packet
      /\ \A i, j \in 1..Len(natives) : Id(i) = Id(j) => i = j
  BY Combined DEF Id
<1>2. \A p \in Packet : WellFormed(p) /\ p \in Seq(Byte)
  BY PacketAssumption DEF WellFormed
<1> QED BY <1>1, <1>2 DEF Id

\* The payload is a sequence of bytes with a last byte that is not zero when
\* packets are combined.
LEMMA PayloadBytes ==
  ASSUME natives \in Combinations
  PROVE  Payload \in Seq(Byte) /\ Payload \in Seq(Field)
<1> DEFINE n == Len(natives)
           p == natives[1].packet
           q == natives[n].packet
<1>1. n \in Nat \ {0} /\ p \in Seq(Byte) /\ q \in Seq(Byte)
      /\ WellFormed(p) /\ WellFormed(q) /\ (n # 1 => p # q)
  BY NativesFormed
<1>2. ASSUME n = 1 PROVE Payload \in Seq(Byte)
  BY <1>1, <1>2 DEF Payload
<1>3. ASSUME n # 1 PROVE Payload \in Seq(Byte)
  <2>1. ~AllZero(ByteSum(p, q))
    BY <1>1, <1>3, PacketsDiffer
  <2>2. XOR(p, q) \in Seq(Byte)
    BY <1>1, <2>1, XORBytes
  <2> QED BY <1>3, <2>2 DEF Payload
<1>4. Payload \in Seq(Byte)
  BY <1>2, <1>3
<1>5. \A s \in Seq(Byte) : s \in Seq(Field)
  <2>1. Byte \subseteq Field
    BY ByteAssumption DEF Field
  <2> HIDE DEF Field
  <2> QED BY <2>1
<1> QED BY <1>4, <1>5

\* The native the loop comes to at its j-th turn.
Lookup(j) == BuiltHeader.natives[NextHops(BuiltHeader)[j]]

\* The loop comes to every native once.
LEMMA EachLookedUp ==
  ASSUME natives \in Combinations, waiting \in Waiting
  PROVE  /\ BuiltHeader.encodedNum = Len(natives)
         /\ Cardinality(DOMAIN BuiltHeader.natives) = Len(natives)
         /\ \A j \in 1..Len(natives) : \E i \in 1..Len(natives) : Lookup(j) = Id(i)
         /\ \A i \in 1..Len(natives) : \E j \in 1..Len(natives) : Lookup(j) = Id(i)
         /\ \A j, k \in 1..Len(natives) : Lookup(j) = Lookup(k) => j = k
<1> DEFINE n == Len(natives)
           h == BuiltHeader
           D == DOMAIN h.natives
           m(i) == natives[i].mac
           hops == NextHops(h)
<1>1. /\ n \in Nat /\ n > 0
      /\ \A i, j \in 1..n : m(i) = m(j) => i = j
      /\ \A i, j \in 1..n : Id(i) = Id(j) => i = j
  BY Combined DEF Id
<1>2. /\ h \in Built(Field) /\ D = {m(i) : i \in 1..n}
      /\ \A i \in 1..n : h.natives[m(i)] = Id(i)
  BY HeaderBuilt DEF Id
<1>3. h.encodedNum = Cardinality(D) /\ IsFiniteSet(D)
  BY <1>2, BuiltFields
<1>4. Cardinality(D) = n
  <2> DEFINE f == [i \in 1..n |-> m(i)]
  <2>1. f \in Bijection(1..n, D)
    <3> HIDE DEF D
    <3> QED BY <1>1, <1>2 DEF Bijection, Injection, Surjection, IsInjective
  <2>2. IsFiniteSet(1..n) /\ Cardinality(1..n) = n
    BY <1>1, FS_Interval
  <2>3. ExistsBijection(1..n, D)
    BY <2>1 DEF ExistsBijection
  <2> QED BY <2>2, <2>3, FS_Bijection
<1>5. /\ hops \in [1..n -> D]
      /\ \A i, j \in 1..n : hops[i] = hops[j] => i = j
      /\ \A x \in D : \E i \in 1..n : hops[i] = x
  <2> HIDE DEF h, n
  <2>1. h.encodedNum = n
    BY <1>3, <1>4
  <2> QED BY <1>2, <2>1, HopsListed
<1> HIDE DEF m
<1>6. \A j \in 1..n : Lookup(j) = h.natives[hops[j]] /\ \E i \in 1..n : hops[j] = m(i)
  BY <1>2, <1>5 DEF Lookup
<1> HIDE DEF n, h, D, hops
<1>7. \A j \in 1..n : \E i \in 1..n : hops[j] = m(i) /\ Lookup(j) = Id(i)
  BY <1>2, <1>6
<1>8. ASSUME NEW i \in 1..n
      PROVE  \E j \in 1..n : Lookup(j) = Id(i)
  <2>1. m(i) \in D /\ h.natives[m(i)] = Id(i)
    BY <1>2
  <2>2. PICK j \in 1..n : hops[j] = m(i)
    BY <1>5, <2>1
  <2> QED BY <1>6, <2>1, <2>2
<1>9. \A j, k \in 1..n : Lookup(j) = Lookup(k) => j = k
  BY <1>1, <1>5, <1>7
<1>10. h.encodedNum = n /\ Cardinality(D) = n
  BY <1>3, <1>4
<1> QED BY <1>7, <1>8, <1>9, <1>10 DEF n, h, D

\* Removing a native from the sum of two leaves a length, so that the search
\* for the last byte that is not zero ends.
LEMMA RemovalInBounds ==
  ASSUME NEW p, NEW q, WellFormed(p), WellFormed(q), p # q,
         NEW t \in Byte, NEW sum \in {XOR(p, q), XOR(q, p)}
  PROVE  XOR(SetTtl(p, t), sum) # Overrun
<1> DEFINE s == SetTtl(p, t)
           b == ByteSum(s, sum)
<1>1. /\ p \in Seq(Byte) /\ Len(p) > 2 /\ q \in Seq(Byte) /\ Len(q) > 2
      /\ Len(p) \in Nat /\ Len(q) \in Nat /\ q[2] = Len(q) - 2
  BY DEF WellFormed, HeaderLen
<1>2. ~AllZero(ByteSum(p, q))
  BY PacketsDiffer
<1>3. sum = XOR(p, q)
  BY <1>1, XORCommutes
<1>4. /\ sum \in Seq(Byte) /\ 2 \in 1..Big(p, q)
      /\ At(sum, 2) = ByteXor(At(p, 2), At(q, 2))
  <2>1. 2 \in 1..Big(p, q)
    BY <1>1, SumType
  <2> QED BY <1>1, <1>2, <1>3, <2>1, XORBytes
<1>5. /\ s \in Seq(Byte) /\ Len(s) = Len(p) /\ At(s, 2) = At(p, 2)
  BY <1>1, SetTtlKeeps
<1>6. /\ b \in Seq(Byte) /\ 2 \in 1..Len(b) /\ b[2] = ByteXor(At(s, 2), At(sum, 2))
  <2> HIDE DEF s
  <2>1. /\ ByteSum(s, sum) \in Seq(Byte) /\ Len(ByteSum(s, sum)) = Big(s, sum)
        /\ Big(s, sum) \in Nat /\ Len(s) <= Big(s, sum)
        /\ \A i \in 1..Big(s, sum) : ByteSum(s, sum)[i] = ByteXor(At(s, i), At(sum, i))
    BY <1>4, <1>5, SumType
  <2>2. 2 \in 1..Big(s, sum)
    BY <1>1, <1>5, <2>1
  <2> QED BY <2>1, <2>2
<1>7. b[2] = q[2]
  <2>1. At(q, 2) = q[2]
    BY <1>1 DEF At
  <2>2. At(p, 2) \in Byte /\ At(q, 2) \in Byte
    BY <1>1, AtByte
  <2>3. ByteXor(At(p, 2), ByteXor(At(p, 2), At(q, 2))) = At(q, 2)
    BY <2>2, ByteAssumption
  <2>4. At(s, 2) = At(p, 2) /\ At(sum, 2) = ByteXor(At(p, 2), At(q, 2))
    BY <1>4, <1>5
  <2>5. b[2] = ByteXor(At(s, 2), At(sum, 2))
    BY <1>6
  <2> HIDE DEF b, s
  <2> QED BY <2>1, <2>3, <2>4, <2>5
<1>8. ~AllZero(b)
  <2> HIDE DEF b
  <2>1. b[2] # 0 /\ 2 \in DOMAIN b
    BY <1>1, <1>6, <1>7
  <2> QED BY <2>1 DEF AllZero
<1>9. XOR(s, sum) \in Seq(Byte) /\ Len(XOR(s, sum)) > 0
  <2> HIDE DEF s
  <2>1. XOR(s, sum) \in Seq(Byte) /\ Len(XOR(s, sum)) \in 1..Big(s, sum)
    BY <1>4, <1>5, <1>8, XORBytes
  <2>2. Big(s, sum) \in Nat
    BY <1>4, <1>5, SumType
  <2> QED BY <2>1, <2>2
<1> QED BY <1>9 DEF Overrun

-------------------------------------------------------------------------------
(* The inductive invariant                                                 *)

\* The copies the receiver holds differ from what was combined in their TTL.
Copies ==
  \A i \in 1..Len(natives) :
    Id(i) \in DOMAIN pool => \E t \in Byte : pool[Id(i)] = SetTtl(natives[i].packet, t)

Inputs == natives \in Combinations /\ waiting \in Waiting /\ Copies

HelloFrame == frame = <<HELLO>> \o SerializeHello(Radios)

DataFrame == built = BuiltHeader /\ frame = <<DATA>> \o Serialize(BuiltHeader) \o Payload

Phases ==
  /\ phase \in {"send", "receive", "loop", "end", "done", "undefined"}
  /\ phase \in {"receive", "done"} => HelloFrame \/ DataFrame
  /\ phase \in {"loop", "end", "undefined"} => DataFrame

ReadWell ==
  /\ phase \in {"loop", "end"} => header = built /\ Len(natives) > 1
  /\ phase = "done" /\ Head(frame) = HELLO => hello = Radios
  /\ phase = "done" /\ Head(frame) = DATA => header = built

\* Of the natives looked up at most one was missing, and that is pid.
Turns ==
  /\ next \in 1..(Len(natives) + 1) /\ found \in Nat /\ found < Len(natives)
  /\ missing \in {0, 1} /\ found + missing = next - 1
  /\ missing = 0 => \A j \in 1..(next - 1) : Lookup(j) \in DOMAIN pool
  /\ missing = 1 => \E k \in 1..(next - 1) :
                      /\ Lookup(k) = pid /\ pid \notin DOMAIN pool
                      /\ \A j \in 1..(next - 1) : j # k => Lookup(j) \in DOMAIN pool

Ended ==
  \/ missing = 0 /\ found = Len(natives) /\ NotHeld = {}
  \/ missing = 1 /\ found = Len(natives) - 1 /\ NotHeld = {pid}

Counted ==
  /\ phase \in {"send", "receive"} => next = 1 /\ missing = 0 /\ found = 0
  /\ phase = "loop" => Turns
  /\ phase = "end" => Ended
  /\ DecodeCounts

\* What is left of the payload when two natives are combined.
Removed ==
  IF found = 0 THEN packet = Payload
  ELSE \E i \in 1..Len(natives) : Id(i) \in DOMAIN pool /\ packet = XOR(pool[Id(i)], Payload)

NoTrailingZeros == \A p \in Packet : p[Len(p)] # 0

PayloadKept ==
  /\ phase \in {"loop", "done"} /\ missing + found = 0 /\ Head(frame) = DATA => packet = Payload
  /\ phase \in {"loop", "end"} /\ Len(natives) = 2 => Removed
  /\ TwoNativesStayInBounds
  /\ NoTrailingZeros => TwoNativesDecode

DInv == Inputs /\ Phases /\ ReadWell /\ Counted /\ PayloadKept

\* No step changes what is combined, what waits or what the receiver holds:
\* what is defined from them stays.
LEMMA InputsStay ==
  ASSUME natives' = natives, waiting' = waiting, pool' = pool
  PROVE  /\ BuiltHeader' = BuiltHeader /\ Payload' = Payload /\ NotHeld' = NotHeld
         /\ \A i : Id(i)' = Id(i)
         /\ \A j : Lookup(j)' = Lookup(j)
         /\ Inputs => Inputs'
<1>1. Payload' = Payload
  BY DEF Payload
<1>2. \A i : Id(i)' = Id(i)
  BY DEF Id
<1>3. NotHeld' = NotHeld
  BY DEF NotHeld
<1>4. BuiltHeader' = BuiltHeader
  BY DEF BuiltHeader
<1>5. \A j : Lookup(j)' = Lookup(j)
  BY <1>4 DEF Lookup
<1>6. Inputs => Inputs'
  BY DEF Inputs, Copies, Id
<1> QED BY <1>1, <1>2, <1>3, <1>4, <1>5, <1>6

\* What is read of the two frames.
LEMMA FramesRead ==
  ASSUME Inputs
  PROVE  /\ HelloFrame => Head(frame) = HELLO /\ DeserializeHello(Tail(frame)) = Radios
         /\ DataFrame =>
              /\ Head(frame) = DATA
              /\ Deserialize(Tail(frame)).header = built
              /\ Deserialize(Tail(frame)).rest = Payload
              /\ Deserialize(Tail(frame)).dist = GetSerializedSize(built)
         /\ HELLO # DATA
<1>1. ASSUME HelloFrame
      PROVE  Head(frame) = HELLO /\ DeserializeHello(Tail(frame)) = Radios
  <2> DEFINE s == SerializeHello(Radios)
  <2>1. s \in Seq(Nat) /\ DeserializeHello(s) = Radios
    BY FieldAssumption, HelloRead
  <2>2. frame = <<HELLO>> \o s /\ HELLO \in Nat
    BY <1>1 DEF HelloFrame, HELLO
  <2> HIDE DEF s
  <2>3. Head(<<HELLO>> \o s) = HELLO /\ Tail(<<HELLO>> \o s) = s
    BY <2>1, <2>2, Framed
  <2> QED BY <2>1, <2>2, <2>3
<1>2. ASSUME DataFrame
      PROVE  /\ Head(frame) = DATA
             /\ Deserialize(Tail(frame)).header = built
             /\ Deserialize(Tail(frame)).rest = Payload
             /\ Deserialize(Tail(frame)).dist = GetSerializedSize(built)
  <2> DEFINE h == BuiltHeader
             s == Serialize(h)
             t == Payload
  <2>1. h \in Built(Field) /\ t \in Seq(Field)
    BY HeaderBuilt, PayloadBytes DEF Inputs
  <2>2. Nat \subseteq Field
    BY DEF Field
  <2>3. /\ s \in Seq(Field)
        /\ LET read == Deserialize(s \o t)
           IN  read.header = h /\ read.rest = t /\ read.dist = GetSerializedSize(h)
    <3> HIDE DEF h, t
    <3> QED BY <2>1, <2>2, DataWritten, DataRead
  <2>4. built = h /\ frame = <<DATA>> \o s \o t /\ DATA \in Field
    BY <1>2, <2>2 DEF DataFrame, DATA
  <2> HIDE DEF h, s, t
  <2>5. Head(<<DATA>> \o s \o t) = DATA /\ Tail(<<DATA>> \o s \o t) = s \o t
    BY <2>1, <2>3, <2>4, Framed
  <2>6. t = Payload
    BY DEF t
  <2> QED BY <2>3, <2>4, <2>5, <2>6
<1>3. HELLO # DATA
  BY DEF HELLO, DATA
<1> QED BY <1>1, <1>2, <1>3

\* A frame about to be read.
LEMMA DecodingInit ==
  ASSUME Init
  PROVE  DInv
<1>1. Copies
  <2>1. natives \in Combinations
    BY DEF Init
  <2>0. PICK held \in SUBSET DOMAIN natives : \E ttl \in [held -> PoolTtl] : pool = Heard(ttl)
    BY DEF Init
  <2>2. PICK ttl \in [held -> PoolTtl] : pool = Heard(ttl)
    BY <2>0
  <2>3. ASSUME NEW i \in 1..Len(natives), Id(i) \in DOMAIN pool
        PROVE  \E t \in Byte : pool[Id(i)] = SetTtl(natives[i].packet, t)
    <3> DEFINE c == CHOOSE k \in DOMAIN ttl : Hash(natives[k].packet) = Id(i)
    <3>1. DOMAIN pool = {Hash(natives[k].packet) : k \in DOMAIN ttl}
      BY <2>2 DEF Heard
    <3>2. pool[Id(i)] = SetTtl(natives[c].packet, ttl[c])
      BY <2>2, <2>3, <3>1 DEF Heard
    <3>3. c \in DOMAIN ttl /\ Id(c) = Id(i)
      <4>1. \E k \in DOMAIN ttl : Hash(natives[k].packet) = Id(i)
        BY <2>3, <3>1
      <4> QED BY <4>1 DEF Id
    <3>4. c = i /\ ttl[c] \in PoolTtl
      <4>1. DOMAIN ttl = held /\ c \in 1..Len(natives)
        BY <2>1, <2>2, <3>3, NativesFormed
      <4> QED BY <2>1, <2>2, <3>3, <4>1, NativesFormed
    <3> HIDE DEF c
    <3>5. ttl[c] \in Byte
      BY <3>4, PacketAssumption
    <3> QED BY <3>2, <3>4, <3>5
  <2> QED BY <2>3 DEF Copies
<1>2. phase = "send" /\ next = 1 /\ missing = 0 /\ found = 0
  BY DEF Init
<1>3. Inputs
  BY <1>1 DEF Init, Inputs
<1>4. Phases /\ ReadWell /\ Counted /\ PayloadKept
  BY <1>2 DEF Phases, ReadWell, Counted, PayloadKept, DecodeCounts, CodedDone,
              TwoNativesDecode, TwoNativesStayInBounds
<1> QED BY <1>3, <1>4 DEF DInv

\* The natives not held are those the loop does not find.
LEMMA NotHeldLookup ==
  ASSUME Inputs
  PROVE  /\ Len(natives) \in Nat \ {0} /\ IsFiniteSet(NotHeld)
         /\ \A x : x \in NotHeld <=>
                     \E j \in 1..Len(natives) : x = Lookup(j) /\ Lookup(j) \notin DOMAIN pool
         /\ \A j, k \in 1..Len(natives) : Lookup(j) = Lookup(k) => j = k
<1>1. /\ Len(natives) \in Nat \ {0} /\ DOMAIN natives = 1..Len(natives)
      /\ \A j \in 1..Len(natives) : \E i \in 1..Len(natives) : Lookup(j) = Id(i)
      /\ \A i \in 1..Len(natives) : \E j \in 1..Len(natives) : Lookup(j) = Id(i)
      /\ \A j, k \in 1..Len(natives) : Lookup(j) = Lookup(k) => j = k
  BY EachLookedUp, NativesFormed DEF Inputs
<1>2. NotHeld = {Id(i) : i \in 1..Len(natives)} \ DOMAIN pool
  BY <1>1 DEF NotHeld, Id
<1>3. IsFiniteSet(NotHeld)
  <2>1. IsFiniteSet(1..Len(natives))
    BY <1>1, FS_Interval
  <2>2. IsFiniteSet({Id(i) : i \in 1..Len(natives)})
    <3> DEFINE D == 1..Len(natives)
               T == {Id(i) : i \in D}
               f == [i \in D |-> Id(i)]
    <3>1. f \in Surjection(D, T)
      BY DEF Surjection
    <3> HIDE DEF f, T, D
    <3> QED BY <2>1, <3>1, FS_Surjection DEF T, D
  <2> QED BY <1>2, <2>2, FS_Difference
<1>4. ASSUME NEW x
      PROVE  x \in NotHeld <=>
               \E j \in 1..Len(natives) : x = Lookup(j) /\ Lookup(j) \notin DOMAIN pool
  <2>1. ASSUME x \in NotHeld
        PROVE  \E j \in 1..Len(natives) : x = Lookup(j) /\ Lookup(j) \notin DOMAIN pool
    <3>1. PICK i \in 1..Len(natives) : x = Id(i) /\ x \notin DOMAIN pool
      BY <1>2, <2>1
    <3>2. PICK j \in 1..Len(natives) : Lookup(j) = Id(i)
      BY <1>1
    <3> QED BY <3>1, <3>2
  <2>2. ASSUME NEW j \in 1..Len(natives), x = Lookup(j), Lookup(j) \notin DOMAIN pool
        PROVE  x \in NotHeld
    <3>1. PICK i \in 1..Len(natives) : Lookup(j) = Id(i)
      BY <1>1
    <3> QED BY <1>2, <2>2, <3>1
  <2> QED BY <2>1, <2>2
<1> QED BY <1>1, <1>3, <1>4

\* Two natives that are not held are more than one.
LEMMA MoreThanOne ==
  ASSUME NEW S, IsFiniteSet(S), NEW a \in S, NEW b \in S, a # b
  PROVE  Cardinality(S) > 1
<1>1. IsFiniteSet({a}) /\ Cardinality({a}) = 1
  BY FS_Singleton
<1>2. IsFiniteSet({a} \union {b}) /\ Cardinality({a} \union {b}) = 2
  <2>1. b \notin {a}
    OBVIOUS
  <2>2. Cardinality({a} \union {b}) = Cardinality({a}) + 1 /\ IsFiniteSet({a} \union {b})
    BY <1>1, <2>1, FS_AddElement
  <2> QED BY <1>1, <2>2
<1>3. Cardinality({a} \union {b}) <= Cardinality(S)
  <2>1. {a} \union {b} \subseteq S
    OBVIOUS
  <2> QED BY <2>1, FS_Subset
<1>4. Cardinality(S) \in Nat
  BY FS_CardinalityType
<1> QED BY <1>2, <1>3, <1>4

\* What the loop looks up and how often it turns, by what was combined.
LEMMA LoopBounds ==
  ASSUME Inputs, Phases, ReadWell, phase \in {"loop", "end"}
  PROVE  EncodedNum = Len(natives) /\ Current = Lookup(next) /\ Head(frame) = DATA
<1>1. header = BuiltHeader
  BY DEF Phases, ReadWell, DataFrame
<1>2. Cardinality(DOMAIN BuiltHeader.natives) = Len(natives)
  BY EachLookedUp DEF Inputs
<1>3. Head(frame) = DATA
  BY FramesRead DEF Phases
<1> QED BY <1>1, <1>2, <1>3 DEF EncodedNum, Current, Lookup

\* Sending.
LEMMA SendDataStep ==
  ASSUME DInv, SendData
  PROVE  DInv'
<1>1. /\ Inputs' /\ BuiltHeader' = BuiltHeader /\ Payload' = Payload
  BY InputsStay DEF DInv, SendData
<1>2. phase = "send" /\ phase' = "receive"
  BY DEF SendData
<1>3. DataFrame'
  BY <1>1 DEF SendData, DataFrame
<1>4. Phases' /\ ReadWell'
  BY <1>2, <1>3 DEF Phases, ReadWell
<1>5. Counted'
  BY <1>2 DEF DInv, Counted, SendData, DecodeCounts, CodedDone
<1>6. PayloadKept'
  BY <1>2 DEF PayloadKept, TwoNativesStayInBounds, TwoNativesDecode, CodedDone
<1> QED BY <1>1, <1>4, <1>5, <1>6 DEF DInv

LEMMA SendHelloStep ==
  ASSUME DInv, SendHello
  PROVE  DInv'
<1>1. Inputs'
  BY InputsStay DEF DInv, SendHello
<1>2. phase = "send" /\ phase' = "receive"
  BY DEF SendHello
<1>3. HelloFrame'
  BY DEF SendHello, HelloFrame
<1>4. Phases' /\ ReadWell'
  BY <1>2, <1>3 DEF Phases, ReadWell
<1>5. Counted'
  BY <1>2 DEF DInv, Counted, SendHello, DecodeCounts, CodedDone
<1>6. PayloadKept'
  BY <1>2 DEF PayloadKept, TwoNativesStayInBounds, TwoNativesDecode, CodedDone
<1> QED BY <1>1, <1>4, <1>5, <1>6 DEF DInv

\* A hello is read.
LEMMA RecvHelloStep ==
  ASSUME DInv, RecvHello
  PROVE  DInv'
<1>1. Inputs' /\ BuiltHeader' = BuiltHeader /\ Payload' = Payload
  BY InputsStay DEF DInv, RecvHello
<1>2. phase = "receive" /\ phase' = "done" /\ frame' = frame /\ built' = built
  BY DEF RecvHello
<1>3. Head(frame') = HELLO /\ HELLO # DATA /\ HelloFrame
  BY <1>2, FramesRead DEF DInv, Phases, RecvHello
<1>4. hello' = Radios
  BY <1>3, FramesRead DEF DInv, RecvHello
<1>5. Phases'
  BY <1>2, <1>3 DEF Phases, HelloFrame
<1>6. ReadWell'
  BY <1>2, <1>3, <1>4 DEF ReadWell
<1>7. Counted'
  BY <1>2, <1>3 DEF Counted, DecodeCounts, CodedDone
<1>8. PayloadKept'
  BY <1>2, <1>3 DEF PayloadKept, TwoNativesStayInBounds, TwoNativesDecode, CodedDone
<1> QED BY <1>1, <1>5, <1>6, <1>7, <1>8 DEF DInv

\* Header and payload are read as they were written.
LEMMA RecvDataStep ==
  ASSUME DInv, RecvData
  PROVE  DInv'
<1>1. Inputs' /\ BuiltHeader' = BuiltHeader /\ Payload' = Payload
  BY InputsStay DEF DInv, RecvData
<1>2. /\ phase = "receive" /\ frame' = frame /\ built' = built /\ natives' = natives
      /\ next' = 1 /\ missing' = 0 /\ found' = 0
  BY DEF DInv, Counted, RecvData
<1>3. Head(frame') = DATA /\ HELLO # DATA /\ DataFrame
  BY <1>2, FramesRead DEF DInv, Phases, RecvData
<1>4. /\ header' = built /\ packet' = Payload
      /\ phase' = IF built.encodedNum > 1 THEN "loop" ELSE "done"
  <2>1. /\ Deserialize(Tail(frame)).header = built
        /\ Deserialize(Tail(frame)).rest = Payload
        /\ Deserialize(Tail(frame)).dist = GetSerializedSize(built)
    BY <1>3, FramesRead DEF DInv
  <2> QED BY <2>1 DEF RecvData
<1>5. built.encodedNum = Len(natives) /\ Len(natives) \in Nat \ {0}
  BY <1>3, EachLookedUp, NativesFormed DEF DInv, Inputs, DataFrame
<1>6. DataFrame'
  BY <1>1, <1>2, <1>3 DEF DataFrame
<1>7. Phases'
  BY <1>4, <1>6 DEF Phases
<1>8. ReadWell'
  BY <1>2, <1>3, <1>4, <1>5 DEF ReadWell
<1>9. Counted'
  <2>1. ~CodedDone'
    BY <1>2, <1>4, <1>5 DEF CodedDone
  <2>2. Turns' \/ phase' # "loop"
    BY <1>2, <1>4, <1>5 DEF Turns
  <2> QED BY <1>4, <2>1, <2>2 DEF Counted, DecodeCounts
<1>10. PayloadKept'
  <2>1. ~CodedDone'
    BY <1>2, <1>4, <1>5 DEF CodedDone
  <2>2. Removed'
    BY <1>1, <1>2, <1>4 DEF Removed
  <2> QED BY <1>1, <1>2, <1>4, <2>1, <2>2 DEF PayloadKept, TwoNativesStayInBounds, TwoNativesDecode
<1> QED BY <1>1, <1>7, <1>8, <1>9, <1>10 DEF DInv

\* A native the receiver does not hold: the first one is remembered, a second
\* one ends the loop.
LEMMA MissStep ==
  ASSUME DInv, Miss
  PROVE  DInv'
<1> DEFINE n == Len(natives)
<1>1. /\ Inputs' /\ BuiltHeader' = BuiltHeader /\ Payload' = Payload /\ NotHeld' = NotHeld
      /\ \A i : Id(i)' = Id(i)
      /\ \A j : Lookup(j)' = Lookup(j)
  BY InputsStay DEF DInv, Miss
<1>2. /\ phase = "loop" /\ next <= EncodedNum /\ Current \notin DOMAIN pool
      /\ missing' = missing + 1
      /\ \/ missing' > 1 /\ phase' = "done" /\ result' = -1
         \/ ~(missing' > 1) /\ phase' = "loop" /\ pid' = Current /\ next' = next + 1
      /\ UNCHANGED <<natives, pool, built, frame, header, packet, found>>
  BY DEF Miss, InLoop
<1>3. EncodedNum = n /\ Current = Lookup(next) /\ Head(frame) = DATA /\ HELLO # DATA
  BY <1>2, LoopBounds, FramesRead DEF DInv
<1>4. Turns
  BY <1>2 DEF DInv, Counted
<1>5. n \in Nat \ {0} /\ next \in 1..n /\ n > 1
  BY <1>2, <1>3, <1>4, NotHeldLookup DEF DInv, ReadWell, Turns
<1>6. Phases'
  BY <1>1, <1>2 DEF DInv, Phases, DataFrame
<1>7. ReadWell'
  BY <1>2, <1>3 DEF DInv, ReadWell
<1>8. ASSUME missing' > 1
      PROVE  Cardinality(NotHeld) > 1
  <2>1. missing = 1
    BY <1>2, <1>4, <1>8 DEF Turns
  <2>2. PICK k \in 1..(next - 1) : Lookup(k) = pid /\ pid \notin DOMAIN pool
    BY <1>4, <2>1 DEF Turns
  <2>3. k \in 1..n /\ next \in 1..n /\ k # next
    BY <1>5
  <2>4. Lookup(k) \in NotHeld /\ Lookup(next) \in NotHeld /\ Lookup(k) # Lookup(next)
    BY <1>2, <1>3, <2>2, <2>3, NotHeldLookup DEF DInv
  <2> QED BY <2>4, NotHeldLookup, MoreThanOne DEF DInv
<1>9. ASSUME ~(missing' > 1)
      PROVE  Turns'
  <2>1. missing = 0 /\ missing' = 1 /\ next' = next + 1 /\ pid' = Lookup(next)
    BY <1>2, <1>3, <1>4, <1>9 DEF Turns
  <2>2. /\ next' \in 1..(n + 1) /\ found' = found /\ found' \in Nat /\ found' < n
        /\ found' + missing' = next' - 1 /\ n = Len(natives')
    BY <1>2, <1>4, <1>5, <2>1 DEF Turns
  <2>3. PICK k \in 1..n : k = next
    BY <1>5
  <2>4. /\ k \in 1..(next' - 1) /\ Lookup(k)' = pid' /\ pid' \notin DOMAIN pool'
        /\ \A j \in 1..(next' - 1) : j # k => Lookup(j)' \in DOMAIN pool'
    <3>1. \A j \in 1..(next - 1) : Lookup(j) \in DOMAIN pool
      BY <1>4, <2>1 DEF Turns
    <3>2. \A j \in 1..(next' - 1) : j # k => j \in 1..(next - 1)
      BY <1>5, <2>1, <2>3
    <3>3. k \in 1..(next' - 1) /\ pid' = Lookup(k) /\ pid' \notin DOMAIN pool
      BY <1>2, <1>3, <1>5, <2>1, <2>3
    <3> QED BY <1>1, <1>2, <3>1, <3>2, <3>3
  <2> QED BY <2>1, <2>2, <2>4 DEF Turns
<1>10. Counted'
  <2>1. DecodeCounts'
    BY <1>1, <1>2, <1>8 DEF DecodeCounts, CodedDone
  <2> QED BY <1>2, <1>9, <2>1 DEF Counted
<1>11. PayloadKept'
  <2>1. missing' + found' # 0
    BY <1>2, <1>4 DEF Turns
  <2>2. (phase' = "loop" /\ n = 2) => Removed'
    <3>1. n = 2 => Removed
      BY <1>2 DEF DInv, PayloadKept
    <3> QED BY <1>1, <1>2, <3>1 DEF Removed
  <2>3. TwoNativesDecode'
    <3>1. ASSUME phase' = "done", NEW x PROVE NotHeld # {x}
      <4>1. missing' > 1
        BY <1>2, <3>1
      <4> QED BY <1>8, <4>1, FS_Singleton
    <3> QED BY <1>1, <1>2, <3>1 DEF TwoNativesDecode, CodedDone
  <2> QED BY <1>2, <2>1, <2>2, <2>3 DEF PayloadKept, TwoNativesStayInBounds
<1> QED BY <1>1, <1>6, <1>7, <1>10, <1>11 DEF DInv

\* The payload of two natives, and the receiver's copy of one of them.
LEMMA TwoCombined ==
  ASSUME Inputs, Len(natives) = 2, NEW i \in 1..2, Id(i) \in DOMAIN pool
  PROVE  /\ XOR(pool[Id(i)], Payload) # Overrun
         /\ \A k \in 1..2 : k # i /\ NoTrailingZeros =>
              SetTtl(XOR(pool[Id(i)], Payload), FreshTtl) = SetTtl(natives[k].packet, FreshTtl)
<1> DEFINE p == natives[i].packet
           q == natives[3 - i].packet
<1>1. 3 - i \in 1..2 /\ 3 - i # i /\ ((i = 1 /\ 3 - i = 2) \/ (i = 2 /\ 3 - i = 1))
  OBVIOUS
<1>2. WellFormed(p) /\ WellFormed(q) /\ p # q /\ q \in Packet
  BY <1>1, NativesFormed DEF Inputs
<1>3. Payload \in {XOR(p, q), XOR(q, p)}
  BY <1>1 DEF Payload
<1>4. PICK t \in Byte : pool[Id(i)] = SetTtl(p, t)
  BY DEF Inputs, Copies
<1>5. XOR(pool[Id(i)], Payload) # Overrun
  BY <1>2, <1>3, <1>4, RemovalInBounds
<1>6. ASSUME NEW k \in 1..2, k # i, NoTrailingZeros
      PROVE  SetTtl(XOR(pool[Id(i)], Payload), FreshTtl) = SetTtl(natives[k].packet, FreshTtl)
  <2>1. k = 3 - i /\ q[Len(q)] # 0
    BY <1>2, <1>6 DEF NoTrailingZeros
  <2> HIDE DEF p, q
  <2>2. SetTtl(XOR(SetTtl(p, t), Payload), FreshTtl) = SetTtl(q, FreshTtl)
    BY <1>2, <1>3, <2>1, NativeRecovered
  <2> QED BY <1>4, <2>1, <2>2 DEF q
<1> QED BY <1>5, <1>6

\* A native the receiver holds is removed, unless it is the last one.
LEMMA FindStep ==
  ASSUME DInv, Find
  PROVE  DInv'
<1> DEFINE n == Len(natives)
<1>1. /\ Inputs' /\ BuiltHeader' = BuiltHeader /\ Payload' = Payload /\ NotHeld' = NotHeld
      /\ \A i : Id(i)' = Id(i)
      /\ \A j : Lookup(j)' = Lookup(j)
  BY InputsStay DEF DInv, Find
<1>2. /\ phase = "loop" /\ next <= EncodedNum /\ Current \in DOMAIN pool
      /\ found' = found + 1
      /\ UNCHANGED <<natives, pool, built, frame, header, missing, pid>>
  BY DEF Find, InLoop
<1>3. EncodedNum = n /\ Current = Lookup(next) /\ Head(frame) = DATA /\ HELLO # DATA
  BY <1>2, LoopBounds, FramesRead DEF DInv
<1>4. Turns
  BY <1>2 DEF DInv, Counted
<1>5. n \in Nat \ {0} /\ next \in 1..n /\ n > 1
  BY <1>2, <1>3, <1>4, NotHeldLookup DEF DInv, ReadWell, Turns
<1>6. \/ found' < n /\ packet' = XOR(pool[Current], packet) /\ next' = next + 1
         /\ phase' = IF packet' = Overrun THEN "undefined" ELSE "loop"
      \/ ~(found' < n) /\ phase' = "end" /\ packet' = packet /\ next' = next
  BY <1>2, <1>3 DEF Find
<1>7. Phases'
  BY <1>1, <1>2, <1>6 DEF DInv, Phases, DataFrame
<1>8. ReadWell'
  BY <1>2, <1>3, <1>6 DEF DInv, ReadWell
<1>9. ASSUME phase' = "loop"
      PROVE  Turns'
  <2>1. next' = next + 1 /\ found' < n
    BY <1>6, <1>9
  <2>2. /\ next' \in 1..(n + 1) /\ found' \in Nat /\ found' < n /\ missing' = missing
        /\ missing \in {0, 1} /\ found' + missing' = next' - 1 /\ n = Len(natives')
    BY <1>2, <1>4, <1>5, <2>1 DEF Turns
  <2>3. \A j \in 1..(next' - 1) : j \in 1..(next - 1) \/ Lookup(j) \in DOMAIN pool
    BY <1>2, <1>3, <1>5, <2>1
  <2>4. ASSUME missing = 0
        PROVE  \A j \in 1..(next' - 1) : Lookup(j)' \in DOMAIN pool'
    <3>1. \A j \in 1..(next - 1) : Lookup(j) \in DOMAIN pool
      BY <1>4, <2>4 DEF Turns
    <3> QED BY <1>1, <1>2, <2>3, <3>1
  <2>5. ASSUME missing = 1
        PROVE  \E k \in 1..(next' - 1) :
                 /\ Lookup(k)' = pid' /\ pid' \notin DOMAIN pool'
                 /\ \A j \in 1..(next' - 1) : j # k => Lookup(j)' \in DOMAIN pool'
    <3>1. PICK k \in 1..(next - 1) :
            /\ Lookup(k) = pid /\ pid \notin DOMAIN pool
            /\ \A j \in 1..(next - 1) : j # k => Lookup(j) \in DOMAIN pool
      BY <1>4, <2>5 DEF Turns
    <3>2. k \in 1..(next' - 1)
      BY <1>5, <2>1
    <3>3. \A j \in 1..(next' - 1) : j # k => Lookup(j)' \in DOMAIN pool'
      BY <1>1, <1>2, <2>3, <3>1
    <3>4. Lookup(k)' = pid' /\ pid' \notin DOMAIN pool'
      BY <1>1, <1>2, <3>1
    <3> QED BY <3>2, <3>3, <3>4
  <2> QED BY <2>2, <2>4, <2>5 DEF Turns
<1>10. ASSUME phase' = "end"
       PROVE  missing = 0 /\ found' = n /\ NotHeld = {}
  <2>1. ~(found' < n)
    BY <1>6, <1>10
  <2>2. missing = 0 /\ found' = n /\ next = n
    BY <1>2, <1>4, <1>5, <2>1 DEF Turns
  <2>3. \A j \in 1..n : Lookup(j) \in DOMAIN pool
    <3>1. \A j \in 1..(next - 1) : Lookup(j) \in DOMAIN pool
      BY <1>4, <2>2 DEF Turns
    <3>2. \A j \in 1..n : j \in 1..(next - 1) \/ j = next
      BY <1>5, <2>2
    <3> QED BY <1>2, <1>3, <3>1, <3>2
  <2>4. NotHeld = {}
    BY <2>3, NotHeldLookup DEF DInv
  <2> QED BY <2>2, <2>4
<1>11. phase' # "done"
  BY <1>6
<1>12. Counted'
  <2>1. Ended' \/ phase' # "end"
    BY <1>1, <1>2, <1>10 DEF Ended
  <2> QED BY <1>6, <1>9, <1>11, <2>1 DEF Counted, DecodeCounts, CodedDone
<1>13. ASSUME n = 2
       PROVE  Removed' /\ phase' # "undefined"
  <2>1. Removed /\ found \in Nat
    BY <1>2, <1>4, <1>13 DEF DInv, PayloadKept, Turns
  <2>2. PICK i \in 1..n : Lookup(next) = Id(i)
    BY <1>5, EachLookedUp DEF DInv, Inputs
  <2>3. ASSUME found' < n
        PROVE  packet' = XOR(pool[Id(i)], Payload) /\ Id(i) \in DOMAIN pool
    <3>1. found = 0
      BY <1>2, <1>13, <2>1, <2>3
    <3> QED BY <1>2, <1>3, <1>6, <2>1, <2>2, <2>3, <3>1 DEF Removed
  <2>4. ASSUME ~(found' < n)
        PROVE  \E k \in 1..n : Id(k) \in DOMAIN pool /\ packet' = XOR(pool[Id(k)], Payload)
    <3>1. found # 0 /\ packet' = packet
      BY <1>2, <1>6, <1>13, <2>1, <2>4
    <3> QED BY <2>1, <3>1 DEF Removed
  <2>5. \E k \in 1..n : Id(k) \in DOMAIN pool /\ packet' = XOR(pool[Id(k)], Payload)
    BY <2>3, <2>4
  <2>6. Removed'
    BY <1>1, <1>2, <2>1, <2>5 DEF Removed
  <2>7. packet' # Overrun
    BY <1>13, <2>5, TwoCombined DEF DInv
  <2> QED BY <1>6, <2>6, <2>7
<1>14. PayloadKept'
  <2>1. missing' + found' # 0
    BY <1>2, <1>4 DEF Turns
  <2>2. TwoNativesStayInBounds'
    <3>1. n < 3 => n = 2
      BY <1>5
    <3> QED BY <1>2, <1>13, <3>1 DEF TwoNativesStayInBounds
  <2>3. TwoNativesDecode'
    BY <1>11 DEF TwoNativesDecode, CodedDone
  <2>4. Len(natives') = 2 => Removed'
    BY <1>2, <1>13
  <2> QED BY <2>1, <2>2, <2>3, <2>4 DEF PayloadKept
<1> QED BY <1>1, <1>7, <1>8, <1>12, <1>14 DEF DInv

\* The loop comes to its end: one native was missing.
LEMMA ExhaustStep ==
  ASSUME DInv, Exhaust
  PROVE  DInv'
<1> DEFINE n == Len(natives)
<1>1. /\ Inputs' /\ BuiltHeader' = BuiltHeader /\ Payload' = Payload /\ NotHeld' = NotHeld
      /\ \A i : Id(i)' = Id(i)
  BY InputsStay DEF DInv, Exhaust
<1>2. /\ phase = "loop" /\ next > EncodedNum /\ phase' = "end"
      /\ UNCHANGED <<natives, pool, built, frame, header, packet, missing, found, pid>>
  BY DEF Exhaust
<1>3. EncodedNum = n /\ Head(frame) = DATA
  BY <1>2, LoopBounds DEF DInv
<1>4. Turns /\ n \in Nat
  BY <1>2, NotHeldLookup DEF DInv, Counted
<1>5. missing = 1 /\ next = n + 1 /\ found = n - 1
  BY <1>2, <1>3, <1>4 DEF Turns
<1>6. NotHeld = {pid}
  <2>1. PICK k \in 1..(next - 1) :
          /\ Lookup(k) = pid /\ pid \notin DOMAIN pool
          /\ \A j \in 1..(next - 1) : j # k => Lookup(j) \in DOMAIN pool
    BY <1>4, <1>5 DEF Turns
  <2>2. next - 1 = n
    BY <1>4, <1>5
  <2> QED BY <2>1, <2>2, NotHeldLookup DEF DInv
<1>7. Phases' /\ ReadWell'
  BY <1>1, <1>2 DEF DInv, Phases, DataFrame, ReadWell
<1>8. Counted'
  BY <1>1, <1>2, <1>5, <1>6 DEF Counted, Ended, DecodeCounts, CodedDone
<1>9. PayloadKept'
  <2>1. n = 2 => Removed'
    BY <1>1, <1>2 DEF DInv, PayloadKept, Removed
  <2> QED BY <1>2, <2>1 DEF PayloadKept, TwoNativesStayInBounds, TwoNativesDecode, CodedDone
<1> QED BY <1>1, <1>7, <1>8, <1>9 DEF DInv

\* What Decode returns, and the packet it leaves.
LEMMA ReturnStep ==
  ASSUME DInv, Return
  PROVE  DInv'
<1> DEFINE n == Len(natives)
<1>1. /\ Inputs' /\ BuiltHeader' = BuiltHeader /\ Payload' = Payload /\ NotHeld' = NotHeld
      /\ \A i : Id(i)' = Id(i)
  BY InputsStay DEF DInv, Return
<1>2. /\ phase = "end" /\ phase' = "done"
      /\ IF missing = 0 /\ found = EncodedNum
         THEN result' = -2 /\ packet' = packet
         ELSE result' = pid /\ packet' = SetTtl(packet, FreshTtl)
      /\ UNCHANGED <<natives, pool, built, frame, header, missing, found>>
  BY DEF Return
<1>3. EncodedNum = n /\ Head(frame) = DATA /\ HELLO # DATA
  BY <1>2, LoopBounds, FramesRead DEF DInv
<1>4. Ended /\ n \in Nat /\ n > 1 /\ header = built
  BY <1>2, NotHeldLookup DEF DInv, Counted, ReadWell
<1>5. Phases' /\ ReadWell'
  BY <1>1, <1>2, <1>3, <1>4 DEF DInv, Phases, DataFrame, ReadWell
<1>6. Counted'
  <2>1. \/ NotHeld = {} /\ result' = -2
        \/ NotHeld = {result'}
    BY <1>2, <1>3, <1>4 DEF Ended
  <2> QED BY <1>1, <1>2, <2>1 DEF Counted, DecodeCounts
<1>7. PayloadKept'
  <2>1. missing' + found' # 0
    BY <1>2, <1>4 DEF Ended
  <2>2. ASSUME NoTrailingZeros, n = 2, NEW k \in 1..2, NotHeld = {Id(k)}
        PROVE  packet' = SetTtl(natives[k].packet, FreshTtl)
    <3>1. missing = 1 /\ found = 1 /\ packet' = SetTtl(packet, FreshTtl)
      BY <1>2, <1>4, <2>2 DEF Ended
    <3>2. PICK i \in 1..2 : Id(i) \in DOMAIN pool /\ packet = XOR(pool[Id(i)], Payload)
      BY <1>2, <2>2, <3>1 DEF DInv, PayloadKept, Removed
    <3>3. k # i
      BY <2>2, <3>2 DEF NotHeld
    <3> QED BY <2>2, <3>1, <3>2, <3>3, TwoCombined DEF DInv
  <2>3. NoTrailingZeros => TwoNativesDecode'
    <3>1. DOMAIN natives = 1..n
      BY NativesFormed DEF DInv, Inputs
    <3> QED BY <1>1, <1>2, <2>2, <3>1 DEF TwoNativesDecode, Id
  <2> QED BY <1>2, <2>1, <2>3 DEF PayloadKept, TwoNativesStayInBounds, NoTrailingZeros
<1> QED BY <1>1, <1>5, <1>6, <1>7 DEF DInv

-------------------------------------------------------------------------------
(* What every frame and every receiver's pool come to                      *)

THEOREM DecodingInvariant == Spec => []DInv
<1>1. Init => DInv
  BY DecodingInit
<1>2. DInv /\ [Next]_vars => DInv'
  <2> SUFFICES ASSUME DInv, [Next]_vars PROVE DInv'
    OBVIOUS
  <2>1. CASE SendData BY <2>1, SendDataStep
  <2>2. CASE SendHello BY <2>2, SendHelloStep
  <2>3. CASE RecvHello BY <2>3, RecvHelloStep
  <2>4. CASE RecvData BY <2>4, RecvDataStep
  <2>5. CASE Miss BY <2>5, MissStep
  <2>6. CASE Find BY <2>6, FindStep
  <2>7. CASE Exhaust BY <2>7, ExhaustStep
  <2>8. CASE Return BY <2>8, ReturnStep
  <2>9. CASE UNCHANGED vars
    <3>1. /\ Inputs' /\ BuiltHeader' = BuiltHeader /\ Payload' = Payload /\ NotHeld' = NotHeld
          /\ \A i : Id(i)' = Id(i)
          /\ \A j : Lookup(j)' = Lookup(j)
      BY <2>9, InputsStay DEF vars, DInv
    <3>2. UNCHANGED <<natives, pool, phase, built, frame, header, hello, packet, next,
                      missing, found, pid, result>>
      BY <2>9 DEF vars
    <3>3. Phases' /\ ReadWell'
      BY <3>1, <3>2 DEF DInv, Phases, HelloFrame, DataFrame, ReadWell
    <3>4. Turns => Turns'
      BY <3>1, <3>2 DEF Turns
    <3>5. Counted'
      BY <3>1, <3>2, <3>4 DEF DInv, Counted, Ended, DecodeCounts, CodedDone
    <3>6. PayloadKept'
      BY <3>1, <3>2 DEF DInv, PayloadKept, Removed, TwoNativesStayInBounds,
                        TwoNativesDecode, CodedDone, NoTrailingZeros
    <3> QED BY <3>1, <3>3, <3>5, <3>6 DEF DInv
  <2> QED BY <2>1, <2>2, <2>3, <2>4, <2>5, <2>6, <2>7, <2>8, <2>9 DEF Next
<1> QED BY <1>1, <1>2, PTL DEF Spec

\* Whatever natives are combined and whatever reports and acknowledgments
\* wait, headers of any size are read as they were written, and so is what is
\* behind them (Serialize and Deserialize of IPCopeHeader and IPCopeHello, and
\* the assertion on the bytes read).
THEOREM HeadersAlwaysSurvive == Spec => []HeadersSurvive
<1>1. DInv => HeadersSurvive
  <2> SUFFICES ASSUME DInv PROVE HeadersSurvive
    OBVIOUS
  <2>1. phase \in {"loop", "end"} => Head(frame) = DATA /\ HELLO # DATA
    BY LoopBounds, FramesRead DEF DInv
  <2> QED BY <2>1 DEF DInv, Phases, ReadWell, PayloadKept, HeadersSurvive
<1> QED BY <1>1, DecodingInvariant, PTL

\* However many natives are combined, what Decode returns says how many of
\* them the receiver does not hold: -2 for none, the id of the one, -1.
THEOREM DecodeAlwaysCounts == Spec => []DecodeCounts
<1>1. DInv => DecodeCounts
  BY DEF DInv, Counted
<1> QED BY <1>1, DecodingInvariant, PTL

\* With two natives the search for the last byte that is not zero stays in
\* the payload, whatever bytes they end in.
THEOREM TwoNativesAlwaysInBounds == Spec => []TwoNativesStayInBounds
<1>1. DInv => TwoNativesStayInBounds
  BY DEF DInv, PayloadKept
<1> QED BY <1>1, DecodingInvariant, PTL

\* If no packet ends in a zero byte, the one of two natives that the receiver
\* does not hold is recovered, with a fresh TTL.
THEOREM TwoNativesAlwaysDecode ==
  ASSUME NoTrailingZeros
  PROVE  Spec => []TwoNativesDecode
<1>1. DInv => TwoNativesDecode
  BY DEF DInv, PayloadKept
<1> QED BY <1>1, DecodingInvariant, PTL
===============================================================================
