--------------------------- MODULE Gadgets_proofs ---------------------------
(***************************************************************************)
(* Proofs about Gadgets and PedersenHash, for any inputs: bits of any      *)
(* length, points of any order, any number of segments and of chunks that  *)
(* the order of the subgroup admits, any width of the windows.             *)
(*                                                                         *)
(* The invariant says where in its loop each gadget is and that the point  *)
(* it has is the multiple, or the sum of multiples, that the bits read so  *)
(* far spell.  That the constraints admit nothing else rests on the group  *)
(* law and, in the Montgomery form, on the chord through two points with   *)
(* different x-coordinates: the sums of a segment's chunks stay below half *)
(* the order of the subgroup, so the points never meet.                    *)
(***************************************************************************)
EXTENDS Gadgets, Jubjub_proofs

-----------------------------------------------------------------------------
(* The loops that multiply a point                                          *)

\* The bit at a place, false past the end.
BitAt(bits, n) == IF n <= Len(bits) THEN bits[n] ELSE 0

\* A prefix with one more bit: the number it spells.
LEMMA PrefixGrows ==
  ASSUME NEW bits \in Seq(Bit)
  PROVE  /\ Value(Prefix(bits, 0)) = 0
         /\ \A n \in Nat : Value(Prefix(bits, n)) \in Nat
         /\ \A n \in Nat : Value(Prefix(bits, n + 1)) = Value(Prefix(bits, n)) + BitAt(bits, n + 1) * Pow(2, n)
<1> DEFINE N == Len(bits)
<1>1. bits \in Seq(Int) /\ N \in Nat /\ \A n \in 1 .. N : bits[n] \in {0, 1}
  BY DEF Bit
<1>2. \A n \in 0 .. N : Prefix(bits, n) = SubSeq(bits, 1, n)
  BY <1>1 DEF Prefix
<1>3. \A n \in Nat : n >= N => Prefix(bits, n) = SubSeq(bits, 1, N)
  BY <1>1 DEF Prefix
<1>4. Value(Prefix(bits, 0)) = 0
  <2>1. Prefix(bits, 0) = SubSeq(bits, 1, 0)
    BY <1>1, <1>2
  <2>2. QED
    BY <1>1, <2>1, ValueGrows
<1>5. ASSUME NEW n \in Nat
      PROVE  Value(Prefix(bits, n + 1)) = Value(Prefix(bits, n)) + BitAt(bits, n + 1) * Pow(2, n)
  <2>1. CASE n < N
    <3>1. n \in 0 .. N /\ n + 1 \in 0 .. N /\ n \in 0 .. (N - 1)
      BY <1>1, <2>1
    <3>2. Value(SubSeq(bits, 1, n + 1)) = Value(SubSeq(bits, 1, n)) + bits[n + 1] * Pow(2, n)
      BY <1>1, <3>1, ValueGrows
    <3>3. BitAt(bits, n + 1) = bits[n + 1]
      BY <3>1 DEF BitAt
    <3>4. QED
      BY <1>2, <3>1, <3>2, <3>3
  <2>2. CASE n >= N
    <3>1. n + 1 \in Nat /\ n + 1 >= N /\ ~(n + 1 <= N)
      BY <1>1, <2>2
    <3>2. Prefix(bits, n + 1) = Prefix(bits, n)
      BY <1>3, <2>2, <3>1
    <3>3. BitAt(bits, n + 1) = 0
      BY <3>1 DEF BitAt
    <3>4. Value(Prefix(bits, n)) \in Int
      <4>1. N \in 0 .. N
        BY <1>1
      <4>2. Prefix(bits, n) = SubSeq(bits, 1, N)
        BY <1>3, <2>2
      <4>3. QED
        BY <1>1, <4>1, <4>2, ValueGrows
    <3>5. Pow(2, n) \in Int
      BY PowInteger
    <3>6. QED
      BY <3>2, <3>3, <3>4, <3>5
  <2>3. QED
    BY <1>1, <2>1, <2>2
<1>6. \A n \in Nat : Value(Prefix(bits, n)) \in Nat
  <2> DEFINE P == {n \in Nat : Value(Prefix(bits, n)) \in Nat}
  <2>1. 0 \in P
    BY <1>4
  <2>2. ASSUME NEW n \in Nat, n \in P PROVE n + 1 \in P
    <3>1. BitAt(bits, n + 1) \in {0, 1}
      BY <1>1 DEF BitAt
    <3>2. Pow(2, n) \in Nat
      BY PowInteger
    <3> DEFINE a == Value(Prefix(bits, n))
               b == BitAt(bits, n + 1)
               c == Pow(2, n)
    <3>3. a \in Nat /\ b \in {0, 1} /\ c \in Nat /\ Value(Prefix(bits, n + 1)) = a + b * c
      BY <1>5, <2>2, <3>1, <3>2
    <3> HIDE DEF a, b, c
    <3>4. a + b * c \in Nat
      BY <3>3
    <3>5. QED
      BY <3>3, <3>4
  <2> HIDE DEF P
  <2>3. \A n \in Nat : n \in P
    BY <2>1, <2>2, SetInduction
  <2>4. QED
    BY <2>3 DEF P
<1>7. QED
  BY <1>4, <1>5, <1>6

\* A function on an initial segment of the numbers is a sequence.
LEMMA IsASeq ==
  ASSUME NEW S, NEW N \in Nat, NEW t \in [1 .. N -> S]
  PROVE  t \in Seq(S)
OBVIOUS

\* Three bits are a digit in base eight.
LEMMA DigitGrows ==
  ASSUME NEW bits \in Seq(Bit), NEW j \in Nat
  PROVE  /\ Value(Chunk(bits, 3 * j + 1)) \in 0 .. 7
         /\ Value(Prefix(bits, 3 * j + 3)) = Value(Prefix(bits, 3 * j)) + Value(Chunk(bits, 3 * j + 1)) * Pow(8, j)
<1> DEFINE n == 3 * j
           c == Chunk(bits, n + 1)
           a == BitAt(bits, n + 1)
           b == BitAt(bits, n + 2)
           e == BitAt(bits, n + 3)
           q == Pow(2, n)
<1>1. n \in Nat /\ Len(bits) \in Nat /\ \A k \in 1 .. Len(bits) : bits[k] \in {0, 1}
  BY DEF Bit
<1> HIDE DEF n
<1>2. a \in {0, 1} /\ b \in {0, 1} /\ e \in {0, 1}
  BY <1>1 DEF BitAt
<1>3. c \in Seq(Bit) /\ Len(c) = 3 /\ c[1] = a /\ c[2] = b /\ c[3] = e
  <2>1. c = [k \in 1 .. 3 |-> IF (n + 1) + k - 1 <= Len(bits) THEN bits[(n + 1) + k - 1] ELSE 0]
    BY DEF Chunk
  <2>2. \A k \in 1 .. 3 : (n + 1) + k - 1 = n + k
    BY <1>1
  <2>3. \A k \in 1 .. 3 : c[k] = BitAt(bits, n + k)
    BY <2>1, <2>2 DEF BitAt
  <2>4. c[1] = a /\ c[2] = b /\ c[3] = e
    <3>1. 1 \in 1 .. 3 /\ 2 \in 1 .. 3 /\ 3 \in 1 .. 3
      OBVIOUS
    <3> HIDE DEF c
    <3>2. QED
      BY <2>3, <3>1
  <2>5. \A k \in 1 .. 3 : c[k] \in Bit
    <3>1. \A k \in 1 .. 3 : k = 1 \/ k = 2 \/ k = 3
      OBVIOUS
    <3> HIDE DEF c, a, b, e
    <3>2. QED
      BY <1>2, <2>4, <3>1 DEF Bit
  <2>6. c = [k \in 1 .. 3 |-> c[k]]
    BY <2>1
  <2> HIDE DEF c
  <2>7. c \in [1 .. 3 -> Bit]
    BY <2>5, <2>6
  <2>8. c \in Seq(Bit) /\ Len(c) = 3
    <3>1. Bit = {0, 1} /\ 3 \in Nat
      BY DEF Bit
    <3> HIDE DEF Bit
    <3>2. \E N \in Nat : c \in [1 .. N -> Bit]
      BY <2>7, <3>1
    <3>3. c \in Seq(Bit)
      BY <3>2, IsASeq
    <3>4. QED
      BY <2>7, <3>3
  <2>9. QED
    BY <2>4, <2>8
<1> HIDE DEF c, a, b, e
<1>4. Pow(2, 0) = 1 /\ Pow(2, 1) = 2 /\ Pow(2, 2) = 4
  <2>1. Pow(2, 0) = 1
    BY PowUnfolds, Zenon
  <2>2. Pow(2, 0 + 1) = 2 * Pow(2, 0)
    BY PowUnfolds, Zenon
  <2>3. Pow(2, 1 + 1) = 2 * Pow(2, 1)
    BY PowUnfolds, Zenon
  <2>4. 0 + 1 = 1 /\ 1 + 1 = 2
    OBVIOUS
  <2>5. QED
    BY <2>1, <2>2, <2>3, <2>4
<1>5. Value(c) = a + 2 * b + 4 * e
  <2>1. c \in Seq(Int)
    BY <1>3 DEF Bit
  <2>2. /\ Value(SubSeq(c, 1, 0)) = 0
        /\ Value(SubSeq(c, 1, 0 + 1)) = Value(SubSeq(c, 1, 0)) + c[0 + 1] * Pow(2, 0)
        /\ Value(SubSeq(c, 1, 1 + 1)) = Value(SubSeq(c, 1, 1)) + c[1 + 1] * Pow(2, 1)
        /\ Value(SubSeq(c, 1, 2 + 1)) = Value(SubSeq(c, 1, 2)) + c[2 + 1] * Pow(2, 2)
    <3>1. 0 \in 0 .. (Len(c) - 1) /\ 1 \in 0 .. (Len(c) - 1) /\ 2 \in 0 .. (Len(c) - 1)
      BY <1>3
    <3>2. Value(SubSeq(c, 1, 0)) = 0
      BY <2>1, ValueGrows
    <3>3. \A m \in 0 .. (Len(c) - 1) : Value(SubSeq(c, 1, m + 1)) = Value(SubSeq(c, 1, m)) + c[m + 1] * Pow(2, m)
      BY <2>1, ValueGrows, Zenon
    <3>4. QED
      BY <3>1, <3>2, <3>3, Zenon
  <2>3. 0 + 1 = 1 /\ 1 + 1 = 2 /\ 2 + 1 = 3 /\ SubSeq(c, 1, 3) = c
    BY <1>3
  <2>4. /\ Value(SubSeq(c, 1, 1)) = 0 + a * 1
        /\ Value(SubSeq(c, 1, 2)) = Value(SubSeq(c, 1, 1)) + b * 2
        /\ Value(c) = Value(SubSeq(c, 1, 2)) + e * 4
    BY <1>3, <1>4, <2>2, <2>3
  <2>5. QED
    BY <1>2, <2>4
<1>6. Value(c) \in 0 .. 7
  BY <1>2, <1>5
<1>7. q = Pow(8, j) /\ q \in Nat /\ Pow(2, n + 1) = 2 * q /\ Pow(2, n + 2) = 4 * q
  <2> DEFINE P == {k \in Nat : Pow(2, 3 * k) = Pow(8, k)}
  <2>1. \A k \in Nat : Pow(2, k + 1) = 2 * Pow(2, k)
    BY PowUnfolds, Zenon
  <2>2. \A k \in Nat : Pow(8, k + 1) = 8 * Pow(8, k)
    BY PowUnfolds, Zenon
  <2>3. \A k \in Nat : Pow(2, k) \in Nat
    BY PowInteger
  <2>4. \A k \in Nat : Pow(2, k + 2) = 4 * Pow(2, k) /\ Pow(2, k + 3) = 8 * Pow(2, k)
    <3> TAKE k \in Nat
    <3>1. k + 1 \in Nat /\ (k + 1) + 1 = k + 2 /\ k + 2 \in Nat /\ (k + 2) + 1 = k + 3
      OBVIOUS
    <3>2. Pow(2, k + 1) = 2 * Pow(2, k) /\ Pow(2, (k + 1) + 1) = 2 * Pow(2, k + 1) /\ Pow(2, (k + 2) + 1) = 2 * Pow(2, k + 2)
      BY <2>1, <3>1
    <3>3. PICK x \in Nat : x = Pow(2, k)
      BY <2>3
    <3>4. QED
      BY <3>1, <3>2, <3>3
  <2>5. 0 \in P
    <3>1. Pow(8, 0) = 1
      BY PowUnfolds, Zenon
    <3>2. QED
      BY <1>4, <3>1
  <2>6. ASSUME NEW k \in Nat, k \in P PROVE k + 1 \in P
    <3>1. 3 * k \in Nat /\ 3 * (k + 1) = 3 * k + 3
      OBVIOUS
    <3>2. Pow(2, 3 * (k + 1)) = 8 * Pow(2, 3 * k)
      BY <2>4, <3>1
    <3>3. QED
      BY <2>2, <2>6, <3>2
  <2> HIDE DEF P
  <2>7. \A k \in Nat : k \in P
    BY <2>5, <2>6, SetInduction
  <2>8. q = Pow(8, j)
    BY <2>7 DEF P, n
  <2>9. QED
    BY <1>1, <2>1, <2>3, <2>4, <2>8
<1>8. Value(Prefix(bits, n + 3)) = Value(Prefix(bits, n)) + Value(c) * q
  <2> DEFINE V(k) == Value(Prefix(bits, k))
  <2>1. \A k \in Nat : V(k) \in Nat /\ V(k + 1) = V(k) + BitAt(bits, k + 1) * Pow(2, k)
    BY PrefixGrows
  <2> HIDE DEF V
  <2>2. n + 1 \in Nat /\ n + 2 \in Nat /\ (n + 1) + 1 = n + 2 /\ (n + 2) + 1 = n + 3
    BY <1>1
  <2>3. /\ V(n + 1) = V(n) + a * q /\ V(n + 2) = V(n + 1) + b * (2 * q) /\ V(n + 3) = V(n + 2) + e * (4 * q)
        /\ V(n) \in Nat
    <3>1. V(n + 1) = V(n) + BitAt(bits, n + 1) * Pow(2, n)
      BY <1>1, <2>1
    <3>2. V((n + 1) + 1) = V(n + 1) + BitAt(bits, (n + 1) + 1) * Pow(2, n + 1)
      BY <2>1, <2>2
    <3>3. V((n + 2) + 1) = V(n + 2) + BitAt(bits, (n + 2) + 1) * Pow(2, n + 2)
      BY <2>1, <2>2
    <3>4. QED
      BY <1>1, <1>7, <2>1, <2>2, <3>1, <3>2, <3>3 DEF a, b, e
  <2>4. PICK v0 \in Int, v1 \in Int, v2 \in Int, v3 \in Int :
          /\ v0 = V(n) /\ v1 = V(n + 1) /\ v2 = V(n + 2) /\ v3 = V(n + 3)
    <3>1. V(n) \in Int /\ V(n + 1) \in Int /\ V(n + 2) \in Int /\ V(n + 3) \in Int
      <4>1. \A k \in Nat : V(k) \in Int
        BY <2>1
      <4>2. n + 3 \in Nat
        BY <1>1
      <4>3. QED
        BY <1>1, <2>2, <4>1, <4>2
    <3>2. QED
      BY <3>1, Zenon
  <2>5. PICK x \in Int : x = q
    BY <1>7
  <2>6. v1 = v0 + a * x /\ v2 = v1 + b * (2 * x) /\ v3 = v2 + e * (4 * x)
    BY <2>3, <2>4, <2>5
  <2>7. v3 = v0 + (a + 2 * b + 4 * e) * x
    BY <1>2, <2>6
  <2>8. V(n + 3) = V(n) + (a + 2 * b + 4 * e) * q
    BY <2>4, <2>5, <2>7
  <2>9. QED
    BY <1>5, <2>8 DEF V
<1>9. QED
  BY <1>6, <1>7, <1>8 DEF c, n

\* The selected point is the multiple by the bit.
LEMMA BitsAsMultiples ==
  ASSUME NEW p \in Points, NEW k \in Nat, NEW x \in Bit
  PROVE  conditionally_select(Times(k, p), x) = Times(x * k, p)
<1>1. Times(k, p) \in Points /\ Times(0, p) = Identity
  BY TimesCounts
<1>2. x = 0 \/ x = 1
  BY DEF Bit
<1>3. 0 * k = 0 /\ 1 * k = k
  OBVIOUS
<1>4. conditionally_select(Times(k, p), 1) = Times(k, p) /\ conditionally_select(Times(k, p), 0) = Identity
  BY <1>1, SelectIsExact
<1>5. QED
  BY <1>1, <1>2, <1>3, <1>4

\* One bit of mul: the doubled base, the first result and the sum.
LEMMA MulIsExact ==
  ASSUME NEW p \in Points, NEW bits \in Seq(Bit), NEW n \in 0 .. (Len(bits) - 1)
  PROVE  /\ n = 0 => p = Times(Pow(2, 0), p)
         /\ n > 0 => /\ double(Times(Pow(2, n - 1), p)).outputs = {Times(Pow(2, n), p)}
                     /\ 0 \notin double(Times(Pow(2, n - 1), p)).denominators
         /\ n = 0 => conditionally_select(Times(Pow(2, n), p), bits[n + 1]) = Times(Value(Prefix(bits, n + 1)), p)
         /\ add(Times(Value(Prefix(bits, n)), p), conditionally_select(Times(Pow(2, n), p), bits[n + 1])).outputs
              = {Times(Value(Prefix(bits, n + 1)), p)}
         /\ 0 \notin add(Times(Value(Prefix(bits, n)), p),
                         conditionally_select(Times(Pow(2, n), p), bits[n + 1])).denominators
<1>1. n \in Nat /\ n + 1 \in Nat /\ n + 1 <= Len(bits) /\ bits[n + 1] \in Bit
  OBVIOUS
<1>2. Times(1, p) = p /\ (\A k \in Nat : Times(k, p) \in Points)
      /\ \A a, b \in Nat : Times(a + b, p) = Plus(Times(a, p), Times(b, p))
  BY TimesCounts
<1>3. Pow(2, 0) = 1 /\ \A k \in Nat : Pow(2, k) \in Nat /\ Pow(2, k + 1) = 2 * Pow(2, k)
  <2>1. Pow(2, 0) = 1 /\ \A k \in Nat : Pow(2, k + 1) = 2 * Pow(2, k)
    BY PowUnfolds, Zenon
  <2>2. \A k \in Nat : Pow(2, k) \in Nat
    <3>1. 2 \in Nat \ {0}
      OBVIOUS
    <3>2. \A k \in Nat : Pow(2, k) \in Nat \ {0}
      BY <3>1, PowInteger, Zenon
    <3>3. QED
      BY <3>2
  <2>3. QED
    BY <2>1, <2>2, Zenon
<1>4. ASSUME n > 0
      PROVE  /\ double(Times(Pow(2, n - 1), p)).outputs = {Times(Pow(2, n), p)}
             /\ 0 \notin double(Times(Pow(2, n - 1), p)).denominators
  <2>1. n - 1 \in Nat /\ (n - 1) + 1 = n
    BY <1>1, <1>4
  <2>2. PICK k \in Nat : k = Pow(2, n - 1)
    BY <1>3, <2>1
  <2>3. Pow(2, n) = 2 * k /\ 2 * k = k + k
    BY <1>3, <2>1, <2>2
  <2>4. Times(Pow(2, n), p) = Plus(Times(k, p), Times(k, p))
    BY <1>2, <2>3
  <2>5. QED
    BY <1>2, <2>2, <2>4, DoubleIsExact
<1>5. PICK k \in Nat : k = Pow(2, n)
  BY <1>1, <1>3
<1>6. PICK x \in Bit : x = bits[n + 1]
  BY <1>1
<1>7. PICK v \in Nat : v = Value(Prefix(bits, n))
  BY <1>1, PrefixGrows
<1>8. x * k \in Nat /\ Value(Prefix(bits, n + 1)) = v + x * k
  <2>1. BitAt(bits, n + 1) = x
    BY <1>1, <1>6 DEF BitAt
  <2>2. Value(Prefix(bits, n + 1)) = v + x * k
    BY <1>1, <1>5, <1>7, <2>1, PrefixGrows
  <2>3. QED
    BY <2>2 DEF Bit
<1>9. conditionally_select(Times(Pow(2, n), p), bits[n + 1]) = Times(x * k, p)
  BY <1>5, <1>6, BitsAsMultiples
<1>10. n = 0 => conditionally_select(Times(Pow(2, n), p), bits[n + 1]) = Times(Value(Prefix(bits, n + 1)), p)
  <2>1. n = 0 => v = 0
    BY <1>7, PrefixGrows
  <2>2. n = 0 => v + x * k = x * k
    BY <1>8, <2>1
  <2>3. QED
    BY <1>8, <1>9, <2>2
<1>11. LET g == add(Times(Value(Prefix(bits, n)), p), conditionally_select(Times(Pow(2, n), p), bits[n + 1]))
       IN  g.outputs = {Times(Value(Prefix(bits, n + 1)), p)} /\ 0 \notin g.denominators
  <2>1. Times(Value(Prefix(bits, n + 1)), p) = Plus(Times(v, p), Times(x * k, p))
    BY <1>2, <1>8
  <2>2. Times(v, p) \in Points /\ Times(x * k, p) \in Points
    BY <1>2, <1>8
  <2>3. QED
    BY <1>7, <1>9, <2>1, <2>2, AddIsExact
<1>12. QED
  BY <1>2, <1>3, <1>4, <1>10, <1>11

\* One window of the fixed-base loop.
LEMMA FixedBaseIsExact ==
  ASSUME NEW p \in Points, NEW bits \in Seq(Bit), NEW j \in Nat,
         j < FIXED_BASE_CHUNKS_PER_GENERATOR
  PROVE  LET e == lookup3_xy(Chunk(bits, 3 * j + 1), generate_circuit_generator(p)[j + 1])
         IN  /\ j = 0 => e = Times(Value(Prefix(bits, 3)), p)
             /\ add(Times(Value(Prefix(bits, 3 * j)), p), e).outputs = {Times(Value(Prefix(bits, 3 * j + 3)), p)}
             /\ 0 \notin add(Times(Value(Prefix(bits, 3 * j)), p), e).denominators
<1> DEFINE e == lookup3_xy(Chunk(bits, 3 * j + 1), generate_circuit_generator(p)[j + 1])
<1>1. j + 1 \in 1 .. FIXED_BASE_CHUNKS_PER_GENERATOR /\ (j + 1) - 1 = j /\ 3 * j \in Nat
  BY ChunksAssumption
<1>2. PICK c \in 0 .. 7 : c = Value(Chunk(bits, 3 * j + 1))
  BY DigitGrows
<1>3. PICK k \in Nat : k = Pow(8, j)
  BY PowInteger
<1>4. PICK v \in Nat : v = Value(Prefix(bits, 3 * j))
  BY <1>1, PrefixGrows
<1>5. Value(Prefix(bits, 3 * j + 3)) = v + c * k /\ c * k \in Nat
  <2>1. Value(Prefix(bits, 3 * j + 3)) = Value(Prefix(bits, 3 * j)) + Value(Chunk(bits, 3 * j + 1)) * Pow(8, j)
    BY DigitGrows
  <2>2. Value(Prefix(bits, 3 * j + 3)) = v + c * k
    BY <1>2, <1>3, <1>4, <2>1, Zenon
  <2>3. c * k \in Nat
    OBVIOUS
  <2>4. QED
    BY <2>2, <2>3
<1>6. e = Times(c * k, p)
  <2>1. generate_circuit_generator(p)[j + 1] = [d \in 0 .. 7 |-> Times(d * Pow(8, j), p)]
    BY <1>1 DEF generate_circuit_generator
  <2>2. e = [d \in 0 .. 7 |-> Times(d * Pow(8, j), p)][c]
    BY <1>2, <2>1 DEF lookup3_xy
  <2>3. QED
    BY <1>2, <1>3, <2>2
<1> HIDE DEF e
<1>7. (\A a \in Nat : Times(a, p) \in Points)
      /\ \A a, b \in Nat : Times(a + b, p) = Plus(Times(a, p), Times(b, p))
  BY TimesCounts
<1>8. add(Times(v, p), e).outputs = {Times(v + c * k, p)} /\ 0 \notin add(Times(v, p), e).denominators
  <2>1. Times(v + c * k, p) = Plus(Times(v, p), e)
    BY <1>5, <1>6, <1>7
  <2>2. Times(v, p) \in Points /\ e \in Points
    BY <1>5, <1>6, <1>7
  <2>3. QED
    BY <2>1, <2>2, AddIsExact
<1>9. j = 0 => e = Times(Value(Prefix(bits, 3)), p)
  <2> SUFFICES ASSUME j = 0 PROVE e = Times(Value(Prefix(bits, 3)), p)
    OBVIOUS
  <2>1. 3 * j = 0 /\ 3 * j + 3 = 3
    OBVIOUS
  <2>2. v = 0
    BY <1>4, <2>1, PrefixGrows
  <2>3. Value(Prefix(bits, 3)) = c * k
    BY <1>5, <2>1, <2>2
  <2>4. QED
    BY <1>6, <2>3
<1>10. QED
  BY <1>4, <1>5, <1>8, <1>9 DEF e

-----------------------------------------------------------------------------
(* The Montgomery form of a point                                           *)

\* The coordinates of the Montgomery form, up to multiples of Q.
Maps(u, v, x, y) ==
  Vanishes((1 - v) * x - (1 + v)) /\ Vanishes(u * y - MONTGOMERY_SCALE * x)

\* The denominator of the u-coordinate's square.
Gee(v) == 1 + EDWARDS_D * (v * v)

\* Only the neutral element has the v-coordinate one.
LEMMA NeutralV ==
  ASSUME NEW p \in Points, p # Identity
  PROVE  p.v # 1 /\ ~Vanishes(1 - p.v)
<1>1. p.v # 1
  <2> SUFFICES ASSUME p.v = 1 PROVE FALSE
    OBVIOUS
  <2>1. Identity \in Points /\ Identity.v = 1
    BY IdentityNeutral DEF Identity
  <2>2. Negate(Identity) = Identity
    <3>1. 0 \ominus 0 = 0
      BY FieldSize DEF \ominus
    <3>2. QED
      BY <3>1 DEF Negate, Identity
  <2>3. p = Identity \/ p = Negate(Identity)
    BY <2>1, SameV
  <2>4. QED
    BY <2>2, <2>3
<1>2. p.v \in Field /\ 1 \in Field
  BY Coordinates, FieldSize
<1>3. QED
  BY <1>1, <1>2, FieldSame DEF Same

\* The coordinates a window table holds satisfy these equations.
LEMMA MontgomeryMaps ==
  ASSUME NEW p \in Points, p # Identity
  PROVE  /\ to_montgomery_coords(p)[1] = Montgomery(p)
         /\ Montgomery(p) = [x |-> Montgomery(p).x, y |-> Montgomery(p).y]
         /\ Montgomery(p).x \in Field /\ Montgomery(p).y \in Field
         /\ Maps(p.u, p.v, Montgomery(p).x, Montgomery(p).y)
         /\ p.u = 0 => Montgomery(p).y = 0
<1> DEFINE u == p.u
           v == p.v
           x == (1 \oplus v) \oslash (1 \ominus v)
           y == (x \oslash u) \odot MONTGOMERY_SCALE
<1>1. /\ u \in Field /\ v \in Field /\ u \in Int /\ v \in Int /\ v # 1 /\ ~Vanishes(1 - v)
      /\ Vanishes(Curve(u, v)) /\ Q \in Nat /\ Q > 2
  BY Coordinates, NeutralV, FieldSize
<1>2. to_montgomery_coords(p)[1] = Montgomery(p)
  BY DEF Montgomery
<1>3. CASE u = 0
  <2>1. Montgomery(p) = [x |-> 0, y |-> 0]
    BY <1>1, <1>3 DEF Montgomery, to_montgomery_coords
  <2> DEFINE m == Montgomery(p)
  <2>2. m.x = 0 /\ m.y = 0 /\ m = [x |-> m.x, y |-> m.y]
    BY <2>1
  <2>3. Vanishes((1 - v) * (1 + v))
    <3>1. Curve(0, v) = v * v - 1
      BY <1>1, MontgomeryConstants DEF Curve
    <3>2. IsProduct((1 - v) * (1 + v), -1, v * v - 1)
      BY <1>1 DEF IsProduct
    <3>3. QED
      BY <1>1, <1>3, <3>1, <3>2, ProductVanishes
  <2>4. Vanishes(1 + v)
    <3>1. 1 - v \in Int /\ 1 + v \in Int
      BY <1>1
    <3>2. QED
      BY <1>1, <2>3, <3>1, NoZeroDivisors, Zenon
  <2>5. Vanishes((1 - v) * 0 - (1 + v))
    <3>1. IsProduct((1 - v) * 0 - (1 + v), -1, 1 + v)
      BY <1>1 DEF IsProduct
    <3>2. QED
      BY <2>4, <3>1, ProductVanishes
  <2>6. u * 0 - MONTGOMERY_SCALE * 0 = 0
    BY <1>1, MontgomeryConstants
  <2>7. Maps(u, v, 0, 0)
    BY <2>5, <2>6, ZeroVanishes DEF Maps
  <2>8. QED
    BY <1>2, <2>2, <2>7, FieldSize
<1>4. CASE u # 0
  <2>1. Montgomery(p) = [x |-> x, y |-> y]
    BY <1>1, <1>4 DEF Montgomery, to_montgomery_coords
  <2>2. Stands(1 \oplus v, 1 + v) /\ Stands(1 \ominus v, 1 - v)
    <3>1. Stands(1, 1) /\ Stands(v, v)
      BY <1>1, FieldSize, StandsForItself
    <3>2. QED
      BY <3>1, StandsThrough
  <2>3. x \in Field /\ Same((1 - v) * x, 1 + v)
    BY <1>1, <2>2, QuotientOfStands
  <2> DEFINE z == x \oslash u
  <2>4. x \in Int
    BY <1>1, <2>3 DEF Field
  <2> HIDE DEF x
  <2>5. z \in Field /\ Same(u * z, x)
    BY <1>1, <1>4, <2>4, Quotient
  <2>6. z \in Int /\ Vanishes(u * z - x)
    BY <1>1, <2>5 DEF Field, Same
  <2>7. MONTGOMERY_SCALE \in Int
    BY MontgomeryConstants
  <2>8. y \in Field /\ Vanishes(y - z * MONTGOMERY_SCALE)
    <3>1. z \odot MONTGOMERY_SCALE \in Field /\ Same(z \odot MONTGOMERY_SCALE, z * MONTGOMERY_SCALE)
      BY <2>6, <2>7, FieldOperations, Zenon
    <3>2. QED
      BY <3>1 DEF Same
  <2>9. y \in Int
    BY <1>1, <2>8 DEF Field
  <2> HIDE DEF z, y, u
  <2>10. Mixes(u * y - MONTGOMERY_SCALE * x, u, y - z * MONTGOMERY_SCALE, MONTGOMERY_SCALE, u * z - x)
    BY <1>1, <2>4, <2>6, <2>7, <2>9 DEF Mixes
  <2>11. Vanishes(u * y - MONTGOMERY_SCALE * x)
    BY <2>6, <2>8, <2>10, MixVanishes
  <2>12. Maps(u, v, x, y)
    BY <2>3, <2>11 DEF Maps, Same
  <2>13. Montgomery(p).x = x /\ Montgomery(p).y = y
    BY <2>1
  <2>14. QED
    BY <1>2, <1>4, <2>1, <2>3, <2>8, <2>12, <2>13 DEF u
<1>5. QED
  BY <1>3, <1>4

\* Where u is not zero, the relations determine the coordinates.
LEMMA MontgomeryUnique ==
  ASSUME NEW p \in Points, p # Identity, p.u # 0, NEW a \in Field, NEW b \in Field,
         Maps(p.u, p.v, a, b)
  PROVE  Montgomery(p) = [x |-> a, y |-> b]
<1> DEFINE u == p.u
           v == p.v
           x == Montgomery(p).x
           y == Montgomery(p).y
           S == MONTGOMERY_SCALE
<1>1. /\ u \in Field /\ u \in Int /\ v \in Int /\ ~Vanishes(1 - v) /\ a \in Int /\ b \in Int /\ S \in Int
      /\ x \in Field /\ y \in Field /\ x \in Int /\ y \in Int /\ Maps(u, v, x, y)
      /\ Montgomery(p) = [x |-> x, y |-> y]
  BY Coordinates, NeutralV, MontgomeryMaps, MontgomeryConstants, FieldSize DEF Field
<1>2. ~Vanishes(u)
  BY <1>1, FieldZero
<1>3. Maps(u, v, a, b)
  OBVIOUS
<1> HIDE DEF u, v, x, y, S
<1>4. /\ Vanishes((1 - v) * x - (1 + v)) /\ Vanishes(u * y - S * x)
      /\ Vanishes((1 - v) * a - (1 + v)) /\ Vanishes(u * b - S * a)
  BY <1>1, <1>3 DEF Maps, S
<1>5. x = a
  <2>1. Mixes((1 - v) * (x - a), 1, (1 - v) * x - (1 + v), -1, (1 - v) * a - (1 + v))
    BY <1>1 DEF Mixes
  <2>2. IsProduct((1 - v) * (x - a), 1 - v, x - a)
    BY <1>1 DEF IsProduct
  <2>3. Vanishes(x - a)
    BY <1>1, <1>4, <2>1, <2>2, MixVanishes, ProductCancels
  <2>4. QED
    BY <1>1, <2>3, FieldSame DEF Same
<1>6. y = b
  <2>1. Mixes(u * (y - b), 1, u * y - S * x, -1, u * b - S * a)
    BY <1>1, <1>5 DEF Mixes
  <2>2. IsProduct(u * (y - b), u, y - b)
    BY <1>1 DEF IsProduct
  <2>3. Vanishes(y - b)
    BY <1>2, <1>4, <2>1, <2>2, MixVanishes, ProductCancels
  <2>4. QED
    BY <1>1, <2>3, FieldSame DEF Same
<1>7. QED
  BY <1>1, <1>5, <1>6

\* The y-coordinate without a division by u.
LEMMA MontgomeryFit ==
  ASSUME NEW p \in Points, p # Identity
  PROVE  /\ Vanishes((1 - p.v) * (1 - p.v) * Montgomery(p).y + MONTGOMERY_SCALE * (p.u * Gee(p.v)))
         /\ Vanishes((p.u * p.u) * Gee(p.v) - (p.v * p.v - 1)) /\ Gee(p.v) \in Int
<1> DEFINE u == p.u
           v == p.v
           x == Montgomery(p).x
           y == Montgomery(p).y
           S == MONTGOMERY_SCALE
           g == Gee(v)
           r == (u * u) * g - (v * v - 1)
           w == (1 - v) * (1 - v) * y + S * (u * g)
<1>1. /\ u \in Field /\ u \in Int /\ v \in Int /\ S \in Int /\ (u = 0 => y = 0)
      /\ x \in Field /\ y \in Field /\ x \in Int /\ y \in Int /\ Maps(u, v, x, y)
      /\ Vanishes(Curve(u, v))
  BY Coordinates, MontgomeryMaps, MontgomeryConstants, FieldSize DEF Field
<1>2. PICK d \in Int : d = EDWARDS_D
  BY MontgomeryConstants
<1> HIDE DEF u, v, x, y, S
<1>3. g = 1 + d * (v * v) /\ g \in Int
  BY <1>1, <1>2 DEF Gee
<1>4. Curve(u, v) = v * v - u * u - 1 - d * ((u * u) * (v * v))
  BY <1>2 DEF Curve
<1>5. Vanishes(r) /\ r \in Int
  <2>1. IsProduct(r, -1, Curve(u, v))
    BY <1>1, <1>3, <1>4 DEF IsProduct
  <2>2. QED
    BY <1>1, <1>3, <2>1, ProductVanishes
<1>6. Vanishes((1 - v) * x - (1 + v)) /\ Vanishes(u * y - S * x)
  BY <1>1 DEF Maps, S
<1> HIDE DEF g
<1>7. Combines(u * w, u * y - S * x, (1 - v) * (1 - v), (1 - v) * x - (1 + v), S * (1 - v), r, S, 0, 0)
  BY <1>1, <1>3 DEF Combines
<1>8. Vanishes(u * w)
  BY <1>5, <1>6, <1>7, ZeroVanishes, CombinationVanishes
<1>9. Vanishes(w)
  <2>1. CASE u = 0
    <3>1. w = 0
      BY <1>1, <1>3, <2>1
    <3>2. QED
      BY <3>1, ZeroVanishes
  <2>2. CASE u # 0
    <3>1. ~Vanishes(u)
      BY <1>1, <2>2, FieldZero
    <3>2. IsProduct(u * w, u, w)
      BY <1>1, <1>3 DEF IsProduct
    <3> HIDE DEF w
    <3>3. QED
      BY <1>8, <3>1, <3>2, ProductCancels
  <2>3. QED
    BY <2>1, <2>2
<1>10. QED
  BY <1>3, <1>5, <1>9 DEF u, v, x, y, S, g

-----------------------------------------------------------------------------
(* The chord adds: the x-coordinate                                         *)

\* The relations between the Edwards and the Montgomery coordinates of a point.
Fits(u, v, x, y) ==
  /\ u \in Int /\ v \in Int /\ x \in Int /\ y \in Int /\ Gee(v) \in Int
  /\ ~Vanishes(1 - v)
  /\ Vanishes((1 - v) * x - (1 + v))
  /\ Vanishes(((1 - v) * (1 - v)) * y + MONTGOMERY_SCALE * (u * Gee(v)))
  /\ Vanishes((u * u) * Gee(v) - (v * v - 1))
\* The slope of the chord and the x-coordinate where it meets the curve again.
Slope(x1, y1, x2, y2, l) == l \in Int /\ Vanishes((x2 - x1) * l - (y2 - y1))
\* The x-coordinate of the sum.
Chord(x1, x2, l, x) == x \in Int /\ Vanishes(x - (l * l - MONTGOMERY_A - x1 - x2))
\* The direction of the chord, in Edwards coordinates.
Direction(u1, v1, u2, v2) ==
  ((1 - v1) * (1 - v1)) * (u2 * Gee(v2)) - ((1 - v2) * (1 - v2)) * (u1 * Gee(v1))

\* A product of what does not vanish does not.
LEMMA NeverBoth ==
  ASSUME NEW a \in Int, NEW b \in Int, ~Vanishes(a), ~Vanishes(b)
  PROVE  ~Vanishes(a * b)
BY NoZeroDivisors, Zenon

\* An equality between products of coordinates, on which the x-coordinate rests.
LEMMA ChordPolynomial ==
  ASSUME NEW v1 \in Int, NEW v2 \in Int, NEW d \in Int
  PROVE  LET e1 == 1 - v1
             e2 == 1 - v2
             f1 == 1 + v1
             f2 == 1 + v2
             g1 == 1 + d * (v1 * v1)
             g2 == 1 + d * (v2 * v2)
             k == -1 - d
             m == v2 - v1
             j == 2 * (d - 1) * (e1 * e2) + k * (f1 * e2 + f2 * e1)
         IN  0 - (e1 * e1 * e1) * (g2 * f2) - (e2 * e2 * e2) * (g1 * f1) - (m * m) * j
               = (e1 * e2) * (g2 * (v1 * v1 - 1) + g1 * (v2 * v2 - 1))
OBVIOUS

\* The slope in the Edwards coordinates.
LEMMA ChordSlope ==
  ASSUME NEW u1, NEW v1, NEW x1, NEW y1, NEW u2, NEW v2, NEW x2, NEW y2, NEW l,
         Fits(u1, v1, x1, y1), Fits(u2, v2, x2, y2), Slope(x1, y1, x2, y2, l)
  PROVE  /\ Vanishes(2 * (((1 - v1) * (1 - v2)) * (v2 - v1) * l) + MONTGOMERY_SCALE * Direction(u1, v1, u2, v2))
         /\ Direction(u1, v1, u2, v2) \in Int
<1> DEFINE S == MONTGOMERY_SCALE
           e1 == 1 - v1
           e2 == 1 - v2
           f1 == 1 + v1
           f2 == 1 + v2
           g1 == Gee(v1)
           g2 == Gee(v2)
           c == e1 * e2
           m == v2 - v1
           h == (e1 * e1) * (u2 * g2) - (e2 * e2) * (u1 * g1)
           s == c * (x2 - x1) - 2 * m
           t == (c * c) * (y2 - y1) + S * h
<1>1. /\ u1 \in Int /\ v1 \in Int /\ x1 \in Int /\ y1 \in Int /\ g1 \in Int
      /\ u2 \in Int /\ v2 \in Int /\ x2 \in Int /\ y2 \in Int /\ g2 \in Int
      /\ Vanishes(e1 * x1 - f1) /\ Vanishes(e2 * x2 - f2)
      /\ Vanishes((e1 * e1) * y1 + S * (u1 * g1)) /\ Vanishes((e2 * e2) * y2 + S * (u2 * g2))
      /\ l \in Int /\ Vanishes((x2 - x1) * l - (y2 - y1))
  BY DEF Fits, Slope
<1>2. S \in Int /\ e1 \in Int /\ e2 \in Int /\ f1 \in Int /\ f2 \in Int /\ m \in Int
  BY <1>1, MontgomeryConstants
<1>3. c \in Int
  BY <1>2
<1>4. e1 * f2 - e2 * f1 = 2 * m
  BY <1>1
<1> HIDE DEF S, g1, g2, e1, e2, f1, f2, m
<1>5. h \in Int
  BY <1>1, <1>2
<1>6. Vanishes(s)
  <2>1. Mixes(s, e1, e2 * x2 - f2, -e2, e1 * x1 - f1)
    BY <1>1, <1>2, <1>4 DEF Mixes
  <2>2. QED
    BY <1>1, <2>1, MixVanishes
<1>7. Vanishes(t)
  <2>1. Mixes(t, e1 * e1, (e2 * e2) * y2 + S * (u2 * g2), -(e2 * e2), (e1 * e1) * y1 + S * (u1 * g1))
    BY <1>1, <1>2 DEF Mixes
  <2>2. QED
    BY <1>1, <2>1, MixVanishes
<1>8. Vanishes(2 * (c * m * l) + S * h)
  <2> HIDE DEF c, h
  <2>1. Combines(2 * (c * m * l) + S * h, s, -(c * l), (x2 - x1) * l - (y2 - y1), c * c, t, 1, 0, 0)
    BY <1>1, <1>2, <1>3, <1>5 DEF Combines
  <2>2. QED
    BY <1>1, <1>6, <1>7, <2>1, ZeroVanishes, CombinationVanishes
<1>9. h = Direction(u1, v1, u2, v2)
  BY DEF Direction, g1, g2, e1, e2
<1>10. QED
  BY <1>5, <1>8, <1>9 DEF S, e1, e2, m

\* The characteristic is not two: four cancels.
LEMMA FourCancels ==
  ASSUME NEW r \in Int, Vanishes(4 * r)
  PROVE  Vanishes(r)
<1>1. IsProduct(4 * r, 2, 2 * r) /\ IsProduct(2 * r, 2, r)
  BY DEF IsProduct
<1>2. QED
  BY <1>1, ProductCancels, TwoIsNotZero

\* The square of the direction.
LEMMA DirectionSquared ==
  ASSUME NEW u1, NEW v1, NEW x1, NEW y1, NEW u2, NEW v2, NEW x2, NEW y2,
         Fits(u1, v1, x1, y1), Fits(u2, v2, x2, y2)
  PROVE  LET q1 == (1 - v1) * (1 - v1)
             q2 == (1 - v2) * (1 - v2)
             h == Direction(u1, v1, u2, v2)
         IN  Vanishes(h * h - (q1 * q1 * (Gee(v2) * (v2 * v2 - 1)) + q2 * q2 * (Gee(v1) * (v1 * v1 - 1))
                                - 2 * (q1 * q2) * ((Gee(v1) * Gee(v2)) * (u1 * u2))))
<1> DEFINE q1 == (1 - v1) * (1 - v1)
           q2 == (1 - v2) * (1 - v2)
           g1 == Gee(v1)
           g2 == Gee(v2)
           a == v1 * v1 - 1
           b == v2 * v2 - 1
           h == q1 * (u2 * g2) - q2 * (u1 * g1)
<1>1. /\ u1 \in Int /\ v1 \in Int /\ g1 \in Int /\ u2 \in Int /\ v2 \in Int /\ g2 \in Int
      /\ Vanishes((u1 * u1) * g1 - a) /\ Vanishes((u2 * u2) * g2 - b)
  BY DEF Fits
<1>2. q1 \in Int /\ q2 \in Int /\ a \in Int /\ b \in Int
  BY <1>1
<1>3. Direction(u1, v1, u2, v2) = h
  BY DEF Direction
<1> HIDE DEF q1, q2, g1, g2, a, b
<1> DEFINE r == h * h - (q1 * q1 * (g2 * b) + q2 * q2 * (g1 * a) - 2 * (q1 * q2) * ((g1 * g2) * (u1 * u2)))
<1>4. Mixes(r, q1 * q1 * g2, (u2 * u2) * g2 - b, q2 * q2 * g1, (u1 * u1) * g1 - a)
  BY <1>1, <1>2 DEF Mixes
<1>5. Vanishes(r)
  BY <1>1, <1>4, MixVanishes
<1>6. QED
  BY <1>3, <1>5 DEF q1, q2, g1, g2, a, b

\* The x-coordinate where the chord meets the curve again, in terms of the
\* Edwards coordinates.
LEMMA ChordX ==
  ASSUME NEW u1, NEW v1, NEW x1, NEW y1, NEW u2, NEW v2, NEW x2, NEW y2, NEW l, NEW x,
         Fits(u1, v1, x1, y1), Fits(u2, v2, x2, y2), Slope(x1, y1, x2, y2, l), Chord(x1, x2, l, x)
  PROVE  Vanishes(Kay * ((v2 - v1) * (v2 - v1)) * x
                    - (Gee(v1) * Gee(v2)) * ((u2 - u1) * (u2 - u1)))
<1> DEFINE S == MONTGOMERY_SCALE
           A == MONTGOMERY_A
           k == Kay
           e1 == 1 - v1
           e2 == 1 - v2
           f1 == 1 + v1
           f2 == 1 + v2
           g1 == Gee(v1)
           g2 == Gee(v2)
           a == v1 * v1 - 1
           b == v2 * v2 - 1
           c == e1 * e2
           m == v2 - v1
           h == Direction(u1, v1, u2, v2)
           w == u1 * u2
           n == c * m * l
           j == 2 * (EDWARDS_D - 1) * c + k * (f1 * e2 + f2 * e1)
           hh == (e1 * e1) * (e1 * e1) * (g2 * b) + (e2 * e2) * (e2 * e2) * (g1 * a)
                   - 2 * ((e1 * e1) * (e2 * e2)) * ((g1 * g2) * w)
           E == (g1 * g2) * ((u2 - u1) * (u2 - u1))
<1>1. /\ u1 \in Int /\ v1 \in Int /\ x1 \in Int /\ y1 \in Int /\ g1 \in Int
      /\ u2 \in Int /\ v2 \in Int /\ x2 \in Int /\ y2 \in Int /\ g2 \in Int
      /\ ~Vanishes(e1) /\ ~Vanishes(e2)
      /\ Vanishes(e1 * x1 - f1) /\ Vanishes(e2 * x2 - f2)
      /\ Vanishes((u1 * u1) * g1 - a) /\ Vanishes((u2 * u2) * g2 - b)
  BY DEF Fits
<1>2. l \in Int /\ x \in Int /\ Vanishes(x - (l * l - A - x1 - x2))
  BY DEF Slope, Chord
<1>3. S \in Int /\ A \in Int /\ k \in Int /\ EDWARDS_D \in Int
      /\ Vanishes(k * A - 2 * (EDWARDS_D - 1)) /\ Vanishes(k * (S * S) - 4)
  BY MontgomeryConstants
<1>4. e1 \in Int /\ e2 \in Int /\ f1 \in Int /\ f2 \in Int /\ m \in Int /\ a \in Int /\ b \in Int /\ w \in Int
      /\ a = -(e1 * f1) /\ b = -(e2 * f2)
  BY <1>1
<1>5. Vanishes(2 * n + S * h) /\ h \in Int
  BY ChordSlope
<1>6. Vanishes(h * h - hh)
  BY DirectionSquared
<1>7. (0 - (e1 * e1 * e1) * (g2 * f2) - (e2 * e2 * e2) * (g1 * f1) - (m * m) * j) = c * (g2 * a + g1 * b)
  <2>1. PICK d \in Int : d = EDWARDS_D
    BY <1>3
  <2>2. g1 = 1 + d * (v1 * v1) /\ g2 = 1 + d * (v2 * v2) /\ k = -1 - d
    BY <2>1, MontgomeryConstants DEF Gee
  <2>3. j = 2 * (d - 1) * (e1 * e2) + (-1 - d) * (f1 * e2 + f2 * e1)
    BY <2>1, <2>2
  <2>4. QED
    BY <1>1, <2>2, <2>3, ChordPolynomial
<1> HIDE DEF S, A, k, e1, e2, f1, f2, g1, g2, a, b, m, h, w
<1>8. c \in Int /\ n \in Int /\ j \in Int /\ hh \in Int
  BY <1>1, <1>2, <1>3, <1>4
<1>9. Vanishes(c * (k * (A + x1 + x2)) - j)
  <2>1. Combines(c * (k * (A + x1 + x2)) - j, k * A - 2 * (EDWARDS_D - 1), c,
                 e1 * x1 - f1, k * e2, e2 * x2 - f2, k * e1, 0, 0)
    BY <1>1, <1>3, <1>4 DEF Combines
  <2>2. QED
    BY <1>1, <1>3, <2>1, ZeroVanishes, CombinationVanishes
<1>10. Vanishes(n * n * k - h * h)
  <2> HIDE DEF n
  <2>1. Mixes(4 * (n * n * k - h * h), k * (2 * n - S * h), 2 * n + S * h, h * h, k * (S * S) - 4)
    BY <1>3, <1>5, <1>8 DEF Mixes
  <2>2. Vanishes(4 * (n * n * k - h * h))
    BY <1>3, <1>5, <2>1, MixVanishes
  <2>3. n * n * k - h * h \in Int
    BY <1>3, <1>5, <1>8
  <2>4. QED
    BY <2>2, <2>3, FourCancels
<1> HIDE DEF j, hh, c
<1> DEFINE p == (c * c * (m * m)) * k * x - (hh - c * (m * m) * j)
<1>11. Vanishes(p) /\ p \in Int
  <2>1. Combines(p, x - (l * l - A - x1 - x2), k * (c * c * (m * m)), n * n * k - h * h, 1, h * h - hh, 1,
                 c * (k * (A + x1 + x2)) - j, -(c * (m * m)))
    BY <1>1, <1>2, <1>3, <1>4, <1>5, <1>8 DEF Combines
  <2>2. Vanishes(p)
    BY <1>2, <1>6, <1>9, <1>10, <2>1, CombinationVanishes
  <2>3. QED
    BY <1>2, <1>3, <1>4, <1>8, <2>2
<1>12. hh - c * (m * m) * j = c * c * (g2 * a + g1 * b - 2 * ((g1 * g2) * w))
  <2> DEFINE y == 0 - (e1 * e1 * e1) * (g2 * f2) - (e2 * e2 * e2) * (g1 * f1) - (m * m) * j
  <2>1. PICK z \in Int : z = g2 * a + g1 * b
    BY <1>1, <1>4
  <2>2. PICK o \in Int : o = (g1 * g2) * w
    BY <1>1, <1>4
  <2>3. y = c * z
    BY <1>7, <2>1
  <2>4. hh - c * (m * m) * j = c * y - 2 * (c * c) * o
    BY <1>1, <1>4, <1>8, <2>2 DEF c, hh
  <2> HIDE DEF y
  <2>5. c * y - 2 * (c * c) * o = c * c * (z - 2 * o)
    BY <1>8, <2>3
  <2>6. hh - c * (m * m) * j = c * c * (z - 2 * o)
    BY <2>4, <2>5, Zenon
  <2>7. z - 2 * o = g2 * a + g1 * b - 2 * ((g1 * g2) * w)
    <3>1. g2 * a \in Int /\ g1 * b \in Int
      BY <1>1, <1>4
    <3>2. QED
      BY <2>1, <2>2, <3>1
  <2>8. QED
    BY <2>6, <2>7, Zenon
<1> DEFINE q == g2 * a + g1 * b - 2 * ((g1 * g2) * w)
<1>13. Vanishes(E - q) /\ E \in Int /\ q \in Int
  <2>1. Mixes(E - q, g2, (u1 * u1) * g1 - a, g1, (u2 * u2) * g2 - b)
    BY <1>1, <1>4 DEF Mixes, w
  <2>2. QED
    BY <1>1, <1>4, <2>1, MixVanishes
<1>14. p = (c * c * (m * m)) * k * x - c * c * q
  BY <1>12
<1> HIDE DEF E, p, q
<1> DEFINE z == k * (m * m) * x - E
<1>15. Mixes((c * c) * z, 1, p, -(c * c), E - q)
  BY <1>2, <1>3, <1>4, <1>8, <1>11, <1>13, <1>14 DEF Mixes
<1>16. Vanishes((c * c) * z)
  BY <1>11, <1>13, <1>15, MixVanishes
<1>17. z \in Int
  BY <1>2, <1>3, <1>4, <1>13
<1>18. ~Vanishes(c * c) /\ c * c \in Int
  BY <1>1, <1>4, <1>8, NeverBoth DEF c
<1> HIDE DEF z
<1>19. Vanishes(z)
  BY <1>16, <1>17, <1>18, NoZeroDivisors, Zenon
<1>20. QED
  BY <1>19 DEF z, E, k, m, g1, g2

\* Equalities between products of coordinates, for the sum of the two points:
\* first the terms without w, then those with w and with its square.
LEMMA SumTerms ==
  ASSUME NEW v1 \in Int, NEW v2 \in Int, NEW d \in Int
  PROVE  LET p == v1 * v2
             m == v2 - v1
             a == v1 * v1 - 1
             b == v2 * v2 - 1
             g1 == 1 + d * (v1 * v1)
             g2 == 1 + d * (v2 * v2)
             B == g2 * a + g1 * b
         IN  /\ B * (1 - p) = ((-1 - d) * (m * m)) * (1 + p) - 2 * ((1 + d * p) * (a * b))
             /\ 0 - B * (1 + d * p) - 2 * ((g1 * g2) * (1 - p)) = ((-1 - d) * (m * m)) * (1 - d * p)
OBVIOUS

\* The same for the other coordinate.
LEMMA OrdinateTerms ==
  ASSUME NEW v1 \in Int, NEW v2 \in Int, NEW d \in Int
  PROVE  LET p == v1 * v2
             q == d * p
             m == v2 - v1
             a == v1 * v1 - 1
             b == v2 * v2 - 1
             g1 == 1 + d * (v1 * v1)
             g2 == 1 + d * (v2 * v2)
             e1 == 1 - v1
             e2 == 1 - v2
         IN  /\ e2 * ((a * v2) * (v2 * e1)) - e1 * ((b * v1) * (v1 * e2))
                  = ((e1 * e2) * m) * (1 + p) - m * (a * b)
             /\ e2 * ((v1 * g1) * (v2 * e1) - (a * v2) * (1 + q * v2))
                  - e1 * ((v2 * g2) * (v1 * e2) - (b * v1) * (1 + q * v1))
                  = ((e1 * e2) * m) * ((1 - q) + q * (1 + p))
             /\ e1 * ((v2 * g2) * (1 + q * v1)) - e2 * ((v1 * g1) * (1 + q * v2))
                  = ((e1 * e2) * m) * (q * (1 - q)) + m * (g1 * g2)
OBVIOUS

\* The identity behind the x-coordinate of the sum.
SumEquality(v1, v2, d, w) ==
  LET p == v1 * v2
      m == v2 - v1
      a == v1 * v1 - 1
      b == v2 * v2 - 1
      g1 == 1 + d * (v1 * v1)
      g2 == 1 + d * (v2 * v2)
  IN  ((g2 * a + g1 * b) - 2 * ((g1 * g2) * w)) * ((1 - p) - w * (1 + d * p))
        = ((-1 - d) * (m * m)) * ((1 + p) + w * (1 - d * p))
            + 2 * ((1 + d * p) * ((g1 * g2) * (w * w) - a * b))

\* It holds for all integers.
LEMMA SumPolynomial ==
  ASSUME NEW v1 \in Int, NEW v2 \in Int, NEW d \in Int, NEW w \in Int
  PROVE  SumEquality(v1, v2, d, w)
<1> DEFINE p == v1 * v2
           m == v2 - v1
           a == v1 * v1 - 1
           b == v2 * v2 - 1
           g1 == 1 + d * (v1 * v1)
           g2 == 1 + d * (v2 * v2)
           B == g2 * a + g1 * b
           C == 1 - p
           D == 1 + d * p
           G == g1 * g2
           K == (-1 - d) * (m * m)
           M == 1 + p
           N == 1 - d * p
           o == a * b
<1>1. B * C = K * M - 2 * (D * o) /\ 0 - B * D - 2 * (G * C) = K * N
  BY SumTerms
<1>2. B \in Int /\ C \in Int /\ D \in Int /\ G \in Int /\ K \in Int /\ M \in Int /\ N \in Int /\ o \in Int
  OBVIOUS
<1> HIDE DEF p, m, a, b, g1, g2, B, C, D, G, K, M, N, o
<1>3. (B - 2 * (G * w)) * (C - w * D) = B * C + w * (0 - B * D - 2 * (G * C)) + 2 * (D * (G * (w * w)))
  BY <1>2
<1>4. (B - 2 * (G * w)) * (C - w * D) = (K * M - 2 * (D * o)) + w * (K * N) + 2 * (D * (G * (w * w)))
  BY <1>1, <1>3
<1>5. (B - 2 * (G * w)) * (C - w * D) = K * (M + w * N) + 2 * (D * (G * (w * w) - o))
  BY <1>2, <1>4
<1>6. QED
  BY <1>5, Zenon DEF SumEquality, p, m, a, b, g1, g2, B, C, D, G, K, M, N, o

\* The identity behind its y-coordinate.
OrdinateEquality(v1, v2, d, w) ==
  LET p == v1 * v2
      q == d * p
      m == v2 - v1
      a == v1 * v1 - 1
      b == v2 * v2 - 1
      g1 == 1 + d * (v1 * v1)
      g2 == 1 + d * (v2 * v2)
      e1 == 1 - v1
      e2 == 1 - v2
      n1 == a * v2 + (v1 * g1) * w
      n2 == b * v1 + (v2 * g2) * w
      z1 == v1 * e2 - w * (1 + q * v1)
      z2 == v2 * e1 - w * (1 + q * v2)
  IN  e2 * (n1 * z2) - e1 * (n2 * z1)
        = ((1 + q * w) * ((1 + p) + w * (1 - q))) * ((e1 * e2) * m)
            + m * ((g1 * g2) * (w * w) - a * b)

\* It holds for all integers.
LEMMA OrdinatePolynomial ==
  ASSUME NEW v1 \in Int, NEW v2 \in Int, NEW d \in Int, NEW w \in Int
  PROVE  OrdinateEquality(v1, v2, d, w)
<1> DEFINE p == v1 * v2
           q == d * p
           m == v2 - v1
           a == v1 * v1 - 1
           b == v2 * v2 - 1
           g1 == 1 + d * (v1 * v1)
           g2 == 1 + d * (v2 * v2)
           e1 == 1 - v1
           e2 == 1 - v2
           A1 == a * v2
           A2 == b * v1
           B1 == v1 * g1
           B2 == v2 * g2
           C1 == v1 * e2
           C2 == v2 * e1
           D1 == 1 + q * v1
           D2 == 1 + q * v2
           T == (e1 * e2) * m
           M == 1 + p
           N == 1 - q
           G == g1 * g2
           o == a * b
<1>1. /\ e2 * (A1 * C2) - e1 * (A2 * C1) = T * M - m * o
      /\ e2 * (B1 * C2 - A1 * D2) - e1 * (B2 * C1 - A2 * D1) = T * (N + q * M)
      /\ e1 * (B2 * D1) - e2 * (B1 * D2) = T * (q * N) + m * G
  BY OrdinateTerms
<1>2. /\ A1 \in Int /\ A2 \in Int /\ B1 \in Int /\ B2 \in Int /\ C1 \in Int /\ C2 \in Int /\ D1 \in Int /\ D2 \in Int
      /\ T \in Int /\ M \in Int /\ N \in Int /\ G \in Int /\ o \in Int /\ m \in Int /\ q \in Int
      /\ e1 \in Int /\ e2 \in Int
  OBVIOUS
<1> HIDE DEF p, q, m, a, b, g1, g2, e1, e2, A1, A2, B1, B2, C1, C2, D1, D2, T, M, N, G, o
<1>3. e2 * ((A1 + B1 * w) * (C2 - w * D2)) - e1 * ((A2 + B2 * w) * (C1 - w * D1))
        = (e2 * (A1 * C2) - e1 * (A2 * C1)) + w * (e2 * (B1 * C2 - A1 * D2) - e1 * (B2 * C1 - A2 * D1))
            + (w * w) * (e1 * (B2 * D1) - e2 * (B1 * D2))
  BY <1>2
<1>4. e2 * ((A1 + B1 * w) * (C2 - w * D2)) - e1 * ((A2 + B2 * w) * (C1 - w * D1))
        = (T * M - m * o) + w * (T * (N + q * M)) + (w * w) * (T * (q * N) + m * G)
  BY <1>1, <1>3
<1>5. (T * M - m * o) + w * (T * (N + q * M)) + (w * w) * (T * (q * N) + m * G)
        = ((1 + q * w) * (M + w * N)) * T + m * (G * (w * w) - o)
  BY <1>2
<1>6. e2 * ((A1 + B1 * w) * (C2 - w * D2)) - e1 * ((A2 + B2 * w) * (C1 - w * D1))
        = ((1 + q * w) * (M + w * N)) * T + m * (G * (w * w) - o)
  BY <1>4, <1>5, Zenon
<1>7. QED
  BY <1>6, Zenon DEF OrdinateEquality, p, q, m, a, b, g1, g2, e1, e2, A1, A2, B1, B2,
     C1, C2, D1, D2, T, M, N, G, o

\* The numerator and the denominator of the x-coordinate of the sum.
Upper(u1, v1, u2, v2) == (1 + v1 * v2) + (u1 * u2) * (1 - EDWARDS_D * (v1 * v2))
\* The denominator.
Lower(u1, v1, u2, v2) == (1 - v1 * v2) - (u1 * u2) * (1 + EDWARDS_D * (v1 * v2))

\* The product of the u-coordinates.
LEMMA ProductOfU ==
  ASSUME NEW u1, NEW v1, NEW x1, NEW y1, NEW u2, NEW v2, NEW x2, NEW y2,
         Fits(u1, v1, x1, y1), Fits(u2, v2, x2, y2)
  PROVE  Vanishes((Gee(v1) * Gee(v2)) * ((u1 * u2) * (u1 * u2)) - (v1 * v1 - 1) * (v2 * v2 - 1))
<1> DEFINE g1 == Gee(v1)
           g2 == Gee(v2)
           a == v1 * v1 - 1
           b == v2 * v2 - 1
<1>1. /\ u1 \in Int /\ v1 \in Int /\ g1 \in Int /\ u2 \in Int /\ v2 \in Int /\ g2 \in Int
      /\ Vanishes((u1 * u1) * g1 - a) /\ Vanishes((u2 * u2) * g2 - b)
  BY DEF Fits
<1>2. a \in Int /\ b \in Int
  BY <1>1
<1> HIDE DEF g1, g2, a, b
<1>3. Mixes((g1 * g2) * ((u1 * u2) * (u1 * u2)) - a * b, (u2 * u2) * g2, (u1 * u1) * g1 - a, a, (u2 * u2) * g2 - b)
  BY <1>1, <1>2 DEF Mixes
<1>4. Vanishes((g1 * g2) * ((u1 * u2) * (u1 * u2)) - a * b)
  BY <1>1, <1>3, MixVanishes
<1>5. QED
  BY <1>4 DEF g1, g2, a, b

\* The x-coordinate of the chord is that of the sum, as a quotient.
LEMMA QuotientX ==
  ASSUME NEW u1, NEW v1, NEW x1, NEW y1, NEW u2, NEW v2, NEW x2, NEW y2, NEW l, NEW x,
         Fits(u1, v1, x1, y1), Fits(u2, v2, x2, y2), Slope(x1, y1, x2, y2, l), Chord(x1, x2, l, x),
         ~Vanishes(v2 - v1)
  PROVE  /\ Vanishes(Upper(u1, v1, u2, v2) - x * Lower(u1, v1, u2, v2))
         /\ Upper(u1, v1, u2, v2) \in Int /\ Lower(u1, v1, u2, v2) \in Int
<1> DEFINE g1 == Gee(v1)
           g2 == Gee(v2)
           a == v1 * v1 - 1
           b == v2 * v2 - 1
           m == v2 - v1
           p == v1 * v2
           w == u1 * u2
           U == Upper(u1, v1, u2, v2)
           L == Lower(u1, v1, u2, v2)
           E == (g1 * g2) * ((u2 - u1) * (u2 - u1))
           B == (g2 * a + g1 * b) - 2 * ((g1 * g2) * w)
           K == Kay * (m * m)
           F == (g1 * g2) * (w * w) - a * b
<1>1. /\ u1 \in Int /\ v1 \in Int /\ g1 \in Int /\ u2 \in Int /\ v2 \in Int /\ g2 \in Int
      /\ Vanishes((u1 * u1) * g1 - a) /\ Vanishes((u2 * u2) * g2 - b)
  BY DEF Fits
<1>2. PICK d \in Int : d = EDWARDS_D
  BY MontgomeryConstants
<1>3. /\ g1 = 1 + d * (v1 * v1) /\ g2 = 1 + d * (v2 * v2) /\ Kay = -1 - d
      /\ U = (1 + p) + w * (1 - d * p) /\ L = (1 - p) - w * (1 + d * p)
  BY <1>2, MontgomeryConstants DEF Gee, Upper, Lower
<1>4. x \in Int /\ Vanishes(K * x - E)
  BY ChordX DEF Chord
<1>5. Vanishes(F)
  BY ProductOfU
<1>6. a \in Int /\ b \in Int /\ m \in Int /\ p \in Int /\ w \in Int
  BY <1>1
<1>7. B * L = K * U + 2 * ((1 + d * p) * F)
  <2>1. w \in Int
    BY <1>6
  <2> HIDE DEF w
  <2> DEFINE h1 == 1 + d * (v1 * v1)
             h2 == 1 + d * (v2 * v2)
  <2>2. ((h2 * a + h1 * b) - 2 * ((h1 * h2) * w)) * ((1 - p) - w * (1 + d * p))
          = ((-1 - d) * (m * m)) * ((1 + p) + w * (1 - d * p))
              + 2 * ((1 + d * p) * ((h1 * h2) * (w * w) - a * b))
    <3>1. v1 \in Int /\ v2 \in Int
      BY <1>1
    <3>2. SumEquality(v1, v2, d, w)
      BY <2>1, <3>1, SumPolynomial
    <3>3. QED
      BY <3>2, Zenon DEF SumEquality
  <2>3. h1 = g1 /\ h2 = g2 /\ (1 - p) - w * (1 + d * p) = L /\ (1 + p) + w * (1 - d * p) = U /\ -1 - d = Kay
    BY <1>3
  <2> HIDE DEF h1, h2, g1, g2, L, U, p, m, a, b
  <2>4. QED
    BY <2>2, <2>3, Zenon
<1>8. U \in Int /\ L \in Int
  <2> HIDE DEF p, w
  <2>1. QED
    BY <1>3, <1>6
<1>9. Kay \in Int /\ ~Vanishes(Kay)
  BY MontgomeryConstants
<1> HIDE DEF U, L, g1, g2, a, b, p, w, m
<1>10. B \in Int /\ K \in Int /\ E \in Int /\ F \in Int
  BY <1>1, <1>6, <1>9
<1>11. Vanishes(E - B)
  <2>1. Mixes(E - B, g2, (u1 * u1) * g1 - a, g1, (u2 * u2) * g2 - b)
    BY <1>1, <1>6 DEF Mixes, w
  <2>2. QED
    BY <1>1, <2>1, MixVanishes
<1> HIDE DEF B, E, F, K
<1>12. Combines(K * (U - x * L), K * x - E, -L, F, -2 * (1 + d * p), E - B, -L, 0, 0)
  <2> DEFINE D == 1 + d * p
  <2>1. D \in Int
    BY <1>6
  <2> HIDE DEF D
  <2>2. B * L = K * U + 2 * (D * F)
    BY <1>7 DEF D
  <2>3. PICK z \in Int : z = B * L
    BY <1>8, <1>10
  <2>4. K * (U - x * L) = (-L) * (K * x - E) + (-2 * D) * F + (-L) * (E - B) + 0 * 0
    BY <1>4, <1>8, <1>10, <2>1, <2>2
  <2>5. QED
    BY <1>4, <1>8, <1>10, <2>1, <2>4 DEF Combines, D
<1>13. Vanishes(K * (U - x * L))
  BY <1>4, <1>5, <1>11, <1>12, ZeroVanishes, CombinationVanishes
<1>14. ~Vanishes(K)
  <2>1. ~Vanishes(m)
    BY DEF m
  <2>2. QED
    BY <1>6, <1>9, <2>1, NeverBoth DEF K
<1>15. U - x * L \in Int
  BY <1>4, <1>8
<1>16. Vanishes(U - x * L)
  BY <1>10, <1>13, <1>14, <1>15, NoZeroDivisors, Zenon
<1>17. QED
  BY <1>8, <1>16 DEF U, L

\* The same for the v-coordinate of the sum.
LEMMA SumX ==
  ASSUME NEW u1 \in Int, NEW v1 \in Int, NEW u2 \in Int, NEW v2 \in Int, NEW x \in Int,
         NEW u3 \in Int, NEW v3 \in Int, Adds(u1, v1, u2, v2, u3, v3),
         ~Vanishes(1 - Cross(u1, v1, u2, v2)), ~Vanishes(1 - v3),
         Vanishes(Upper(u1, v1, u2, v2) - x * Lower(u1, v1, u2, v2))
  PROVE  /\ Vanishes((1 - v3) * x - (1 + v3))
         /\ ~Vanishes(Lower(u1, v1, u2, v2))
<1> DEFINE t == Cross(u1, v1, u2, v2)
           s == v1 * v2 + u1 * u2
           U == Upper(u1, v1, u2, v2)
           L == Lower(u1, v1, u2, v2)
           r == (1 - t) * v3 - s
<1>1. PICK d \in Int : d = EDWARDS_D
  BY MontgomeryConstants
<1>2. t = d * ((u1 * v2) * (v1 * u2)) /\ t \in Int
  BY <1>1 DEF Cross
<1>3. U = (1 - t) + s /\ L = (1 - t) - s
  <2>1. U = (1 + v1 * v2) + (u1 * u2) * (1 - d * (v1 * v2)) /\ L = (1 - v1 * v2) - (u1 * u2) * (1 + d * (v1 * v2))
    BY <1>1 DEF Upper, Lower
  <2>2. QED
    BY <1>2, <2>1
<1>4. Vanishes(r)
  BY DEF Adds, Same
<1>5. s \in Int
  OBVIOUS
<1> HIDE DEF t, s, U, L
<1>6. Mixes((1 - t) * ((1 - v3) * x - (1 + v3)), -1, U - x * L, -(x + 1), r)
  BY <1>2, <1>3, <1>5 DEF Mixes
<1>7. Vanishes((1 - t) * ((1 - v3) * x - (1 + v3)))
  BY <1>4, <1>6, MixVanishes DEF U, L
<1>8. Vanishes((1 - v3) * x - (1 + v3))
  <2>1. IsProduct((1 - t) * ((1 - v3) * x - (1 + v3)), 1 - t, (1 - v3) * x - (1 + v3))
    BY <1>2 DEF IsProduct
  <2>2. QED
    BY <1>7, <2>1, ProductCancels DEF t
<1>9. ~Vanishes(L)
  <2> SUFFICES ASSUME Vanishes(L) PROVE FALSE
    OBVIOUS
  <2>1. Mixes((1 - t) * (1 - v3), 1, L, -1, r)
    BY <1>2, <1>3, <1>5 DEF Mixes
  <2>2. Vanishes((1 - t) * (1 - v3))
    BY <1>4, <2>1, MixVanishes
  <2>3. IsProduct((1 - t) * (1 - v3), 1 - t, 1 - v3)
    BY <1>2 DEF IsProduct
  <2>4. QED
    BY <2>2, <2>3, ProductCancels DEF t
<1>10. QED
  BY <1>8, <1>9 DEF L

-----------------------------------------------------------------------------
(* The chord adds: the y-coordinate                                         *)

\* The y-coordinate where the chord meets the curve again, reflected.
Reflected(x1, y1, l, x, y) == y \in Int /\ Vanishes(y - ((x1 - x) * l - y1))

\* The numerator of the sum's u-coordinate times the chord's direction.
LEMMA NumeratorTimesDirection ==
  ASSUME NEW u1, NEW v1, NEW x1, NEW y1, NEW u2, NEW v2, NEW x2, NEW y2,
         Fits(u1, v1, x1, y1), Fits(u2, v2, x2, y2)
  PROVE  LET d == EDWARDS_D
             p == v1 * v2
             w == u1 * u2
             n == u1 * v2 + v1 * u2
             q == d * p
             z == v1 * (1 - q * w) - (p + w)
             o == ((1 - v2) * (v2 - v1)) * Lower(u1, v1, u2, v2)
         IN  Vanishes(n * (o * (u1 * Gee(v1)) - z * Direction(u1, v1, u2, v2))
                        - (1 - v1) * (((1 + q * w) * Upper(u1, v1, u2, v2)) * (((1 - v1) * (1 - v2)) * (v2 - v1))))
<1> DEFINE e1 == 1 - v1
           e2 == 1 - v2
           g1 == Gee(v1)
           g2 == Gee(v2)
           a == v1 * v1 - 1
           b == v2 * v2 - 1
           m == v2 - v1
           p == v1 * v2
           w == u1 * u2
           L == Lower(u1, v1, u2, v2)
           U == Upper(u1, v1, u2, v2)
           n == u1 * v2 + v1 * u2
           h == (e1 * e1) * (u2 * g2) - (e2 * e2) * (u1 * g1)
           r1 == (u1 * u1) * g1 - a
           r2 == (u2 * u2) * g2 - b
           n1 == a * v2 + (v1 * g1) * w
           n2 == b * v1 + (v2 * g2) * w
           F == (g1 * g2) * (w * w) - a * b
<1>1. /\ u1 \in Int /\ v1 \in Int /\ g1 \in Int /\ u2 \in Int /\ v2 \in Int /\ g2 \in Int
      /\ Vanishes(r1) /\ Vanishes(r2)
  BY DEF Fits
<1>2. PICK d \in Int : d = EDWARDS_D
  BY MontgomeryConstants
<1> DEFINE q == d * p
           z == v1 * (1 - q * w) - (p + w)
           y == v2 * (1 - q * w) - (p + w)
           T == ((1 + q * w) * U) * ((e1 * e2) * m)
           o == (e2 * m) * L
<1>3. /\ g1 = 1 + d * (v1 * v1) /\ g2 = 1 + d * (v2 * v2)
      /\ U = (1 + p) + w * (1 - q) /\ L = (1 - p) - w * (1 + q)
  BY <1>1, <1>2 DEF Gee, Upper, Lower
<1>4. Vanishes(F)
  BY ProductOfU
<1>5. /\ a \in Int /\ b \in Int /\ m \in Int /\ p \in Int /\ w \in Int /\ q \in Int
      /\ e1 \in Int /\ e2 \in Int /\ n \in Int
  BY <1>1
<1>6. z = v1 * e2 - w * (1 + q * v1) /\ y = v2 * e1 - w * (1 + q * v2)
  <2> HIDE DEF w, q
  <2>1. QED
    BY <1>1, <1>5
<1>7. e2 * (n1 * y) - e1 * (n2 * z) = T + m * F
  <2> DEFINE k1 == 1 + d * (v1 * v1)
             k2 == 1 + d * (v2 * v2)
  <2>1. SumEquality(v1, v2, d, w) /\ OrdinateEquality(v1, v2, d, w)
    <3>1. v1 \in Int /\ v2 \in Int /\ w \in Int
      BY <1>1, <1>5
    <3> HIDE DEF w
    <3>2. QED
      BY <3>1, SumPolynomial, OrdinatePolynomial
  <2> HIDE DEF w
  <2>2. e2 * ((a * v2 + (v1 * k1) * w) * (v2 * e1 - w * (1 + q * v2)))
          - e1 * ((b * v1 + (v2 * k2) * w) * (v1 * e2 - w * (1 + q * v1)))
          = ((1 + q * w) * ((1 + p) + w * (1 - q))) * ((e1 * e2) * m) + m * ((k1 * k2) * (w * w) - a * b)
    BY <2>1, Zenon DEF OrdinateEquality
  <2>3. k1 = g1 /\ k2 = g2 /\ (1 + p) + w * (1 - q) = U
        /\ v2 * e1 - w * (1 + q * v2) = y /\ v1 * e2 - w * (1 + q * v1) = z
    BY <1>3, <1>6
  <2> HIDE DEF k1, k2, g1, g2, U, p, q, m, a, b, e1, e2, y, z
  <2>4. QED
    BY <2>2, <2>3, Zenon
<1>8. z \in Int /\ y \in Int /\ U \in Int /\ L \in Int
  <2> HIDE DEF w, q, p
  <2>1. QED
    BY <1>1, <1>3, <1>5
\* the coefficients of n1 add up
<1>9. z * e2 + m * L = e1 * y
  <2>1. L = (1 - q * w) - (p + w)
    <3> HIDE DEF p, w, q
    <3>1. QED
      BY <1>3, <1>5
  <2> DEFINE k == 1 - q * w
             s == p + w
  <2>2. k \in Int /\ s \in Int
    BY <1>5
  <2> HIDE DEF k, s
  <2>3. z = v1 * k - s /\ y = v2 * k - s /\ L = k - s
    BY <2>1 DEF k, s
  <2>4. v1 \in Int /\ v2 \in Int /\ e1 = 1 - v1 /\ e2 = 1 - v2 /\ m = v2 - v1
    BY <1>1
  <2>5. (v1 * k - s) * (1 - v2) + (v2 - v1) * (k - s) = (1 - v1) * (v2 * k - s)
    BY <2>2, <2>4
  <2> HIDE DEF z, y, L, e1, e2, m
  <2>6. QED
    BY <2>3, <2>4, <2>5, Zenon
<1>10. /\ n * (u1 * g1) - n1 = v2 * r1
       /\ n * (u2 * g2) - n2 = v1 * r2
  <2> HIDE DEF g1, g2, a, b
  <2>1. QED
    BY <1>1, <1>5
<1> HIDE DEF e1, e2, g1, g2, a, b, m, p, w, L, U, n, q, z, y
<1>11. n1 \in Int /\ n2 \in Int /\ r1 \in Int /\ r2 \in Int /\ F \in Int /\ T \in Int
  BY <1>1, <1>5, <1>8
<1> DEFINE m1 == u1 * g1
           m2 == u2 * g2
<1>12. m1 \in Int /\ m2 \in Int /\ n * m1 = n1 + v2 * r1 /\ n * m2 = n2 + v1 * r2
  <2>1. m1 \in Int /\ m2 \in Int
    BY <1>1
  <2>2. v2 * r1 \in Int /\ v1 * r2 \in Int /\ n * m1 \in Int /\ n * m2 \in Int
    BY <1>1, <1>5, <1>11, <2>1
  <2> HIDE DEF n1, n2, r1, r2
  <2>3. n * m1 - n1 = v2 * r1 /\ n * m2 - n2 = v1 * r2
    BY <1>10
  <2> HIDE DEF m1, m2
  <2>4. QED
    BY <1>11, <2>1, <2>2, <2>3
<1> DEFINE G == o * m1 - z * h
<1>13. h = (e1 * e1) * m2 - (e2 * e2) * m1
  OBVIOUS
<1> HIDE DEF m1, m2, n1, n2, r1, r2, F, h
<1>14. n * G = ((e2 * m) * L) * (n1 + v2 * r1) - z * ((e1 * e1) * (n2 + v1 * r2) - (e2 * e2) * (n1 + v2 * r1))
  <2>1. n * G = ((e2 * m) * L) * (n * m1) - z * ((e1 * e1) * (n * m2) - (e2 * e2) * (n * m1))
    BY <1>5, <1>8, <1>12, <1>13
  <2>2. QED
    BY <1>12, <2>1
<1>15. ((e2 * m) * L) * n1 - z * ((e1 * e1) * n2 - (e2 * e2) * n1) = e1 * (T + m * F)
  <2>1. ((e2 * m) * L) * n1 - z * ((e1 * e1) * n2 - (e2 * e2) * n1) = e2 * (n1 * (z * e2 + m * L)) - (e1 * e1) * (n2 * z)
    BY <1>5, <1>8, <1>11
  <2>2. e2 * (n1 * (e1 * y)) - (e1 * e1) * (n2 * z) = e1 * (e2 * (n1 * y) - e1 * (n2 * z))
    BY <1>5, <1>8, <1>11
  <2> HIDE DEF T
  <2>3. e1 * (e2 * (n1 * y) - e1 * (n2 * z)) = e1 * (T + m * F)
    <3>1. e2 * (n1 * y) - e1 * (n2 * z) = T + m * F
      BY <1>7
    <3>2. QED
      BY <3>1, Zenon
  <2>4. QED
    BY <1>9, <2>1, <2>2, <2>3, Zenon
<1> DEFINE c1 == ((e2 * m) * L) * v2 + z * ((e2 * e2) * v2)
           c2 == -(z * ((e1 * e1) * v1))
<1> HIDE DEF T
<1>16. Combines(n * G - e1 * T, r1, c1, r2, c2, F, e1 * m, 0, 0)
  <2>1. c1 \in Int /\ c2 \in Int /\ e1 * m \in Int /\ e1 * T \in Int
    BY <1>1, <1>5, <1>8, <1>11
  <2>2. n * G = (((e2 * m) * L) * n1 - z * ((e1 * e1) * n2 - (e2 * e2) * n1)) + c1 * r1 + c2 * r2
    BY <1>1, <1>5, <1>8, <1>11, <1>14
  <2>3. n * G = e1 * (T + m * F) + c1 * r1 + c2 * r2
    BY <1>15, <2>2
  <2> HIDE DEF G, c1, c2
  <2>4. n * G - e1 * T = c1 * r1 + c2 * r2 + (e1 * m) * F + 0 * 0
    BY <1>5, <1>11, <2>1, <2>3
  <2>5. QED
    BY <1>11, <2>1, <2>4 DEF Combines
<1>17. Vanishes(n * G - e1 * T)
  BY <1>1, <1>4, <1>16, ZeroVanishes, CombinationVanishes
<1>18. Direction(u1, v1, u2, v2) = h
  BY DEF Direction, h, e1, e2, g1, g2
<1>19. QED
  BY <1>2, <1>17, <1>18 DEF n, T, L, U, z, q, p, w, e1, e2, m, g1, m1

\* The chord's y-coordinate fits the u-coordinate of the sum.
LEMMA SumY ==
  ASSUME NEW u1, NEW v1, NEW x1, NEW y1, NEW u2, NEW v2, NEW x2, NEW y2, NEW l, NEW x,
         NEW y,
         Fits(u1, v1, x1, y1), Fits(u2, v2, x2, y2), Slope(x1, y1, x2, y2, l), Chord(x1, x2, l, x),
         Reflected(x1, y1, l, x, y), ~Vanishes(v2 - v1),
         NEW u3 \in Int, NEW v3 \in Int, Adds(u1, v1, u2, v2, u3, v3),
         ~Vanishes(1 + Cross(u1, v1, u2, v2)), ~Vanishes(Lower(u1, v1, u2, v2))
  PROVE  Vanishes(u3 * y - MONTGOMERY_SCALE * x)
<1> DEFINE S == MONTGOMERY_SCALE
           e1 == 1 - v1
           e2 == 1 - v2
           f1 == 1 + v1
           p == v1 * v2
           w == u1 * u2
           q == EDWARDS_D * p
           m == v2 - v1
           h == Direction(u1, v1, u2, v2)
           L == Lower(u1, v1, u2, v2)
           U == Upper(u1, v1, u2, v2)
           n == u1 * v2 + v1 * u2
           z == v1 * (1 - q * w) - (p + w)
           c == e1 * e2
           o == c * m * l
           m1 == u1 * Gee(v1)
           T == (1 + q * w) * (U * (c * m))
           Z == (e1 * (x1 - x)) * L
           G == ((e2 * m) * L) * m1 - z * h
           Y == (e1 * (c * m)) * L
<1>1. /\ u1 \in Int /\ v1 \in Int /\ x1 \in Int /\ y1 \in Int /\ Gee(v1) \in Int
      /\ u2 \in Int /\ v2 \in Int /\ ~Vanishes(e1) /\ ~Vanishes(e2)
      /\ Vanishes(e1 * x1 - f1) /\ Vanishes((e1 * e1) * y1 + S * m1)
  BY DEF Fits
<1>2. x \in Int /\ y \in Int /\ l \in Int /\ Vanishes(y - ((x1 - x) * l - y1))
  BY DEF Reflected, Chord, Slope
<1>3. S \in Int /\ EDWARDS_D \in Int
  BY MontgomeryConstants
<1>4. Vanishes(U - x * L) /\ U \in Int /\ L \in Int
  BY QuotientX
<1>5. Vanishes(2 * o + S * h) /\ h \in Int
  BY ChordSlope
<1>6. Vanishes(n * G - e1 * T)
  <2>1. (1 + q * w) * (U * (c * m)) = ((1 + q * w) * U) * (c * m)
    <3> HIDE DEF q, w, c, m, U
    <3>1. q \in Int /\ w \in Int /\ c \in Int /\ m \in Int
      BY <1>1, <1>3 DEF q, w, c, m
    <3>2. QED
      BY <1>4, <3>1
  <2> DEFINE R == ((1 + q * w) * U) * (c * m)
  <2>2. Vanishes(n * G - e1 * R)
    BY NumeratorTimesDirection, Zenon
  <2>3. R = T
    BY <2>1
  <2> HIDE DEF R, T, G, n, e1
  <2>4. QED
    BY <2>2, <2>3
<1>7. Vanishes((1 + q * w) * u3 - n) /\ ~Vanishes(1 + q * w)
  <2>1. Cross(u1, v1, u2, v2) = q * w
    <3>1. PICK d \in Int : d = EDWARDS_D
      BY <1>3
    <3>2. d * ((u1 * v2) * (v1 * u2)) = d * (v1 * v2) * (u1 * u2)
      BY <1>1
    <3>3. QED
      BY <3>1, <3>2 DEF Cross
  <2>2. Vanishes((1 + Cross(u1, v1, u2, v2)) * u3 - n) /\ ~Vanishes(1 + Cross(u1, v1, u2, v2))
    BY DEF Adds, Same
  <2> HIDE DEF n, q, w
  <2>3. QED
    BY <2>1, <2>2
<1>8. /\ p \in Int /\ w \in Int /\ q \in Int /\ m \in Int /\ n \in Int /\ e1 \in Int /\ e2 \in Int
      /\ f1 \in Int /\ m1 \in Int /\ c \in Int
  BY <1>1, <1>3
<1>9. f1 * L - e1 * U = 2 * z
  <2>1. PICK d \in Int : d = EDWARDS_D
    BY <1>3
  <2>2. U = (1 + p) + w * (1 - q) /\ L = (1 - p) - w * (1 + q)
    BY DEF Upper, Lower
  <2> DEFINE k == 1 - q * w
             s == p + w
  <2>3. k \in Int /\ s \in Int
    BY <1>8
  <2>4. U = k + s /\ L = k - s
    <3> HIDE DEF p, w, q
    <3>1. QED
      BY <1>8, <2>2
  <2>5. z = v1 * k - s
    OBVIOUS
  <2> HIDE DEF k, s, z, U, L
  <2>6. (1 + v1) * (k - s) - (1 - v1) * (k + s) = 2 * (v1 * k - s)
    BY <1>1, <2>3
  <2>7. QED
    BY <2>4, <2>5, <2>6
<1>10. z \in Int
  <2> HIDE DEF p, w, q
  <2>1. QED
    BY <1>1, <1>8
<1>11. ~Vanishes(m) /\ ~Vanishes(L)
  OBVIOUS
<1> HIDE DEF S, e1, e2, f1, p, w, q, m, h, L, U, n, z, m1
<1>12. Vanishes(Z - 2 * z)
  <2>1. Mixes(Z - 2 * z, L, e1 * x1 - f1, e1, U - x * L)
    BY <1>1, <1>2, <1>4, <1>8, <1>9, <1>10 DEF Mixes
  <2>2. QED
    BY <1>1, <1>4, <2>1, MixVanishes
<1>13. Z \in Int /\ o \in Int
  BY <1>1, <1>2, <1>4, <1>8
<1>14. Vanishes(Z * o + z * (S * h))
  <2> HIDE DEF Z, o
  <2>1. Mixes(2 * (Z * o + z * (S * h)), 2 * o, Z - 2 * z, 2 * z, 2 * o + S * h)
    BY <1>3, <1>5, <1>10, <1>13 DEF Mixes
  <2>2. Vanishes(2 * (Z * o + z * (S * h)))
    BY <1>5, <1>12, <2>1, MixVanishes
  <2>3. IsProduct(2 * (Z * o + z * (S * h)), 2, Z * o + z * (S * h))
    BY <1>3, <1>5, <1>10, <1>13 DEF IsProduct
  <2>4. QED
    BY <2>2, <2>3, ProductCancels, TwoIsNotZero
<1> DEFINE V == Y * y - S * G
<1>15. Vanishes(V)
  <2>1. Combines(V, y - ((x1 - x) * l - y1), Y, Z * o + z * (S * h), 1, (e1 * e1) * y1 + S * m1, -((e2 * m) * L), 0, 0)
    BY <1>1, <1>2, <1>3, <1>4, <1>5, <1>8, <1>10 DEF Combines
  <2>2. QED
    BY <1>1, <1>2, <1>14, <2>1, ZeroVanishes, CombinationVanishes
<1>16. Y \in Int /\ G \in Int /\ T \in Int
  BY <1>4, <1>5, <1>8, <1>10
<1> DEFINE k == 1 + q * w
<1>17. k \in Int
  BY <1>8
<1>18. T = k * (U * (c * m)) /\ Y = (e1 * (c * m)) * L
  OBVIOUS
<1> HIDE DEF G, k, T, Y, c
<1>19. Combines(Y * (n * y - S * (k * x)), V, n, n * G - e1 * T, S, U - x * L, S * (k * (e1 * (c * m))), 0, 0)
  BY <1>1, <1>2, <1>3, <1>4, <1>8, <1>16, <1>17, <1>18 DEF Combines
<1>20. Vanishes(Y * (n * y - S * (k * x)))
  BY <1>4, <1>6, <1>15, <1>19, ZeroVanishes, CombinationVanishes
<1>21. ~Vanishes(Y)
  <2>1. ~Vanishes(c)
    BY <1>1, <1>8, NeverBoth DEF c
  <2>2. ~Vanishes(c * m) /\ c * m \in Int
    BY <1>8, <1>11, <2>1, NeverBoth
  <2>3. ~Vanishes(e1 * (c * m)) /\ e1 * (c * m) \in Int
    BY <1>1, <1>8, <2>2, NeverBoth
  <2>4. QED
    BY <1>4, <1>11, <1>18, <2>3, NeverBoth
<1>22. Vanishes(n * y - S * (k * x)) /\ n * y - S * (k * x) \in Int
  <2>1. n * y - S * (k * x) \in Int
    BY <1>2, <1>3, <1>8, <1>17
  <2>2. QED
    BY <1>16, <1>20, <1>21, <2>1, NoZeroDivisors, Zenon
<1>23. Mixes(k * (u3 * y - S * x), 1, n * y - S * (k * x), y, k * u3 - n)
  BY <1>2, <1>3, <1>8, <1>17, <1>22 DEF Mixes
<1>24. Vanishes(k * (u3 * y - S * x))
  BY <1>7, <1>22, <1>23, MixVanishes DEF k
<1>25. IsProduct(k * (u3 * y - S * x), k, u3 * y - S * x)
  BY <1>2, <1>3, <1>17 DEF IsProduct
<1>26. Vanishes(u3 * y - S * x)
  BY <1>7, <1>24, <1>25, ProductCancels DEF k
<1>27. QED
  BY <1>26 DEF S

\* A point's Montgomery form fits it.
LEMMA MontgomeryFits ==
  ASSUME NEW p \in Points, p # Identity
  PROVE  Fits(p.u, p.v, Montgomery(p).x, Montgomery(p).y)
<1> DEFINE x == Montgomery(p).x
           y == Montgomery(p).y
           u == p.u
           v == p.v
<1>1. /\ u \in Int /\ v \in Int /\ x \in Field /\ y \in Field /\ ~Vanishes(1 - v) /\ Maps(u, v, x, y)
      /\ Vanishes((1 - v) * (1 - v) * y + MONTGOMERY_SCALE * (u * Gee(v)))
      /\ Vanishes((u * u) * Gee(v) - (v * v - 1)) /\ Gee(v) \in Int
  BY Coordinates, NeutralV, MontgomeryMaps, MontgomeryFit
<1>2. x \in Int /\ y \in Int
  BY <1>1, FieldSize DEF Field
<1>3. QED
  BY <1>1, <1>2 DEF Fits, Maps

\* Points with different v-coordinates have different x-coordinates.
LEMMA DistinctX ==
  ASSUME NEW u1, NEW v1, NEW x1, NEW y1, NEW u2, NEW v2, NEW x2, NEW y2,
         Fits(u1, v1, x1, y1), Fits(u2, v2, x2, y2), ~Vanishes(v2 - v1)
  PROVE  ~Vanishes(x2 - x1)
<1> SUFFICES ASSUME Vanishes(x2 - x1) PROVE FALSE
  OBVIOUS
<1>1. /\ v1 \in Int /\ x1 \in Int /\ v2 \in Int /\ x2 \in Int
      /\ Vanishes((1 - v1) * x1 - (1 + v1)) /\ Vanishes((1 - v2) * x2 - (1 + v2))
  BY DEF Fits
<1>2. Combines(2 * (v2 - v1), x2 - x1, (1 - v1) * (1 - v2), (1 - v2) * x2 - (1 + v2), -(1 - v1),
               (1 - v1) * x1 - (1 + v1), 1 - v2, 0, 0)
  BY <1>1 DEF Combines
<1>3. Vanishes(2 * (v2 - v1))
  BY <1>1, <1>2, ZeroVanishes, CombinationVanishes
<1>4. IsProduct(2 * (v2 - v1), 2, v2 - v1)
  BY <1>1 DEF IsProduct
<1>5. QED
  BY <1>3, <1>4, ProductCancels, TwoIsNotZero

\* Points with different v-coordinates: the constraints determine the result, and
\* it is the sum.
LEMMA ChordAdds ==
  ASSUME NEW p \in Points, NEW q \in Points, p # Identity, q # Identity, p.v # q.v
  PROVE  /\ Plus(p, q) # Identity
         /\ 0 \notin montgomery_add(Montgomery(p), Montgomery(q)).denominators
         /\ montgomery_add(Montgomery(p), Montgomery(q)).outputs # {}
         /\ Plus(p, q).u # 0 => montgomery_add(Montgomery(p), Montgomery(q)).outputs = {Montgomery(Plus(p, q))}
<1> DEFINE m == Montgomery(p)
           n == Montgomery(q)
           s == Plus(p, q)
           u1 == p.u
           v1 == p.v
           u2 == q.u
           v2 == q.v
           x1 == m.x
           y1 == m.y
           x2 == n.x
           y2 == n.y
<1>1. /\ u1 \in Int /\ v1 \in Field /\ u2 \in Int /\ v2 \in Field /\ v1 \in Int /\ v2 \in Int
      /\ x1 \in Field /\ y1 \in Field /\ x2 \in Field /\ y2 \in Field
  BY Coordinates, MontgomeryMaps
<1>2. Fits(u1, v1, x1, y1) /\ Fits(u2, v2, x2, y2)
  BY MontgomeryFits
<1>3. ~Vanishes(v2 - v1)
  BY <1>1, FieldSame DEF Same
<1>4. ~Vanishes(x2 - x1)
  BY <1>2, <1>3, DistinctX
<1>5. s \in Points /\ s # Identity
  <2>1. s \in Points
    BY PlusOnCurve
  <2>2. s = Identity => q = Negate(p)
    <3>1. Negate(p) \in Points /\ Plus(p, Negate(p)) = Identity
      BY NegateInverts
    <3>2. QED
      BY <3>1, PlusCancels
  <2>3. Negate(p).v = p.v
    BY Coordinates DEF Negate
  <2>4. QED
    BY <2>1, <2>2, <2>3
<1>6. /\ s.u \in Int /\ s.v \in Int /\ Adds(u1, v1, u2, v2, s.u, s.v)
      /\ ~Vanishes(1 + Cross(u1, v1, u2, v2)) /\ ~Vanishes(1 - Cross(u1, v1, u2, v2)) /\ ~Vanishes(1 - s.v)
  BY <1>5, PlusAdds, Coordinates, NeutralV
<1> HIDE DEF m, n, s, u1, v1, u2, v2
<1>7. Stands(x1, x1) /\ Stands(y1, y1) /\ Stands(x2, x2) /\ Stands(y2, y2) /\ Stands(MONTGOMERY_A, MONTGOMERY_A)
  BY <1>1, StandsForItself, MontgomeryConstants
<1>8. Stands(x2 \ominus x1, x2 - x1) /\ Stands(y2 \ominus y1, y2 - y1)
  BY <1>7, StandsThrough
<1>9. PICK l \in Field : Solve(x2 \ominus x1, y2 \ominus y1) = {l} /\ Same((x2 - x1) * l, y2 - y1) /\ x2 \ominus x1 # 0
  BY <1>4, <1>8, SolveDetermined
<1> DEFINE x == (((l \odot l) \ominus MONTGOMERY_A) \ominus x1) \ominus x2
           y == ((x1 \ominus x) \odot l) \ominus y1
<1>10. Stands(l, l) /\ l \in Int
  BY StandsForItself, FieldSize DEF Field
<1>11. Stands(x, l * l - MONTGOMERY_A - x1 - x2)
  <2>1. Stands(l \odot l, l * l)
    BY <1>10, StandsThrough
  <2>2. Stands((l \odot l) \ominus MONTGOMERY_A, l * l - MONTGOMERY_A)
    BY <1>7, <2>1, StandsThrough
  <2>3. Stands(((l \odot l) \ominus MONTGOMERY_A) \ominus x1, l * l - MONTGOMERY_A - x1)
    BY <1>7, <2>2, StandsThrough
  <2>4. QED
    BY <1>7, <2>3, StandsThrough
<1> HIDE DEF x
<1>12. x \in Field /\ Stands(x, x)
  BY <1>11, StandsForItself DEF Stands
<1>13. Stands(y, (x1 - x) * l - y1)
  <2>1. Stands(x1 \ominus x, x1 - x)
    BY <1>7, <1>12, StandsThrough
  <2>2. Stands((x1 \ominus x) \odot l, (x1 - x) * l)
    BY <1>10, <2>1, StandsThrough
  <2>3. QED
    BY <1>7, <2>2, StandsThrough
<1>14. montgomery_add(m, n).outputs = {[x |-> x, y |-> y]} /\ 0 \notin montgomery_add(m, n).denominators
  <2>1. /\ montgomery_add(m, n).outputs = {[x |-> (((k \odot k) \ominus MONTGOMERY_A) \ominus m.x) \ominus n.x,
                                    y |-> ((m.x \ominus ((((k \odot k) \ominus MONTGOMERY_A) \ominus m.x) \ominus n.x)) \odot k) \ominus m.y] :
                                  k \in Solve(n.x \ominus m.x, n.y \ominus m.y)}
        /\ montgomery_add(m, n).denominators = {n.x \ominus m.x}
    BY Zenon DEF montgomery_add, Gadget
  <2>2. QED
    BY <1>9, <2>1 DEF x
<1> HIDE DEF y
<1>15. y \in Field /\ x \in Int /\ y \in Int
  BY <1>12, <1>13, FieldSize DEF Stands, Field
<1>16. /\ Slope(x1, y1, x2, y2, l) /\ Chord(x1, x2, l, x) /\ Reflected(x1, y1, l, x, y)
  BY <1>9, <1>10, <1>11, <1>13, <1>15 DEF Slope, Chord, Reflected, Same, Stands
<1>17. Vanishes(Upper(u1, v1, u2, v2) - x * Lower(u1, v1, u2, v2))
  BY <1>2, <1>3, <1>16, QuotientX
<1>18. Vanishes((1 - s.v) * x - (1 + s.v)) /\ ~Vanishes(Lower(u1, v1, u2, v2))
  BY <1>1, <1>6, <1>15, <1>17, SumX
<1>19. Vanishes(s.u * y - MONTGOMERY_SCALE * x)
  BY <1>2, <1>3, <1>6, <1>16, <1>18, SumY
<1>20. Maps(s.u, s.v, x, y)
  BY <1>18, <1>19 DEF Maps
<1>21. s.u # 0 => Montgomery(s) = [x |-> x, y |-> y]
  BY <1>5, <1>12, <1>15, <1>20, MontgomeryUnique
<1>22. QED
  BY <1>5, <1>14, <1>21 DEF m, n, s

\* The conversion gives the point back.
LEMMA ConversionIsExact ==
  ASSUME NEW p \in Points, p # Identity, p.u # 0
  PROVE  /\ into_edwards(Montgomery(p)).outputs = {p}
         /\ 0 \notin into_edwards(Montgomery(p)).denominators
<1> DEFINE m == Montgomery(p)
           x == m.x
           y == m.y
           u == p.u
           v == p.v
           S == MONTGOMERY_SCALE
<1>1. /\ u \in Field /\ v \in Field /\ u \in Int /\ v \in Int /\ x \in Field /\ y \in Field
      /\ p = [u |-> u, v |-> v] /\ Maps(u, v, x, y) /\ 1 \in Field
  BY Coordinates, MontgomeryMaps, FieldSize
<1>2. x \in Int /\ y \in Int /\ S \in Int /\ S \in Field /\ ~Vanishes(S)
  BY <1>1, FieldSize, MontgomeryConstants DEF Field
<1>3. Vanishes((1 - v) * x - (1 + v)) /\ Vanishes(u * y - S * x)
  BY <1>1 DEF Maps
<1>4. ~Vanishes(u)
  BY <1>1, FieldZero
<1>5. Vanishes((u * u) * Gee(v) - (v * v - 1)) /\ Gee(v) \in Int /\ ~Vanishes(Gee(v))
  BY <1>1, MontgomeryFit, NoSharedPole DEF Gee
<1> DEFINE g == Gee(v)
<1>5a. Vanishes((u * u) * g - (v * v - 1)) /\ g \in Int /\ ~Vanishes(g)
  BY <1>5
<1> HIDE DEF m, x, y, u, v, S, g
<1>6. ~Vanishes(x)
  <2> SUFFICES ASSUME Vanishes(x) PROVE FALSE
    OBVIOUS
  <2>1. Combines((u * u) * g, x, -((1 - v) * (1 - v)), (1 - v) * x - (1 + v), 1 - v, (u * u) * g - (v * v - 1), 1, 0, 0)
    BY <1>1, <1>2, <1>5a DEF Combines
  <2>2. Vanishes((u * u) * g)
    BY <1>3, <1>5a, <2>1, ZeroVanishes, CombinationVanishes
  <2>3. u * u \in Int /\ ~Vanishes(u * u)
    BY <1>1, <1>4, NeverBoth
  <2>4. QED
    BY <1>5a, <2>2, <2>3, NeverBoth
<1>7. ~Vanishes(y)
  <2> SUFFICES ASSUME Vanishes(y) PROVE FALSE
    OBVIOUS
  <2>1. Mixes(S * x, u, y, -1, u * y - S * x)
    BY <1>1, <1>2 DEF Mixes
  <2>2. QED
    BY <1>2, <1>3, <1>6, <2>1, MixVanishes, NeverBoth
<1>8. ~Vanishes(x + 1)
  <2> SUFFICES ASSUME Vanishes(x + 1) PROVE FALSE
    OBVIOUS
  <2>1. Mixes(2, 1 - v, x + 1, -1, (1 - v) * x - (1 + v))
    BY <1>1, <1>2 DEF Mixes
  <2>2. QED
    BY <1>3, <2>1, MixVanishes, TwoIsNotZero
<1>9. Stands(x, x) /\ Stands(y, y) /\ Stands(S, S) /\ Stands(1, 1)
  BY <1>1, <1>2, StandsForItself
<1>10. Stands(x \odot S, x * S) /\ Stands(x \oplus 1, x + 1) /\ Stands(x \ominus 1, x - 1)
  BY <1>9, StandsThrough
<1>11. Solve(y, x \odot S) = {u} /\ y # 0
  <2>1. PICK z \in Field : Solve(y, x \odot S) = {z} /\ Same(y * z, x * S) /\ y # 0
    BY <1>7, <1>9, <1>10, SolveDetermined
  <2>2. Same(y * u, x * S)
    <3>1. y * u - x * S = u * y - S * x
      BY <1>1, <1>2
    <3>2. QED
      BY <1>3, <3>1 DEF Same
  <2>3. x * S \in Int
    BY <1>2
  <2>4. z = u
    BY <1>1, <1>2, <1>7, <2>1, <2>2, <2>3, FactorCancels
  <2>5. QED
    BY <2>1, <2>4
<1>12. Solve(x \oplus 1, x \ominus 1) = {v} /\ x \oplus 1 # 0
  <2>1. PICK z \in Field : Solve(x \oplus 1, x \ominus 1) = {z} /\ Same((x + 1) * z, x - 1) /\ x \oplus 1 # 0
    BY <1>8, <1>10, SolveDetermined
  <2>2. Same((x + 1) * v, x - 1)
    <3>1. IsProduct((x + 1) * v - (x - 1), -1, (1 - v) * x - (1 + v))
      BY <1>1, <1>2 DEF IsProduct
    <3>2. QED
      BY <1>3, <3>1, ProductVanishes DEF Same
  <2>3. x + 1 \in Int /\ x - 1 \in Int
    BY <1>2
  <2>4. z = v
    BY <1>1, <1>8, <2>1, <2>2, <2>3, FactorCancels
  <2>5. QED
    BY <2>1, <2>4
<1>13. /\ into_edwards(m).outputs = [u : Solve(y, x \odot S), v : Solve(x \oplus 1, x \ominus 1)]
       /\ into_edwards(m).denominators = {y, x \oplus 1}
  BY GadgetParts DEF into_edwards, x, y, S
<1>14. into_edwards(m).outputs = {[u |-> u, v |-> v]}
  BY <1>11, <1>12, <1>13, OneRecord
<1>15. QED
  BY <1>1, <1>11, <1>12, <1>13, <1>14 DEF m

\* The negation of the lookup's y-coordinate is that of the point.
LEMMA NegationIsExact ==
  ASSUME NEW p \in Points, p # Identity, p.u # 0
  PROVE  /\ Negate(p) \in Points /\ Negate(p) # Identity /\ Negate(p).u # 0
         /\ Montgomery(Negate(p)) = [Montgomery(p) EXCEPT !.y = 0 \ominus @]
<1> DEFINE x == Montgomery(p).x
           y == Montgomery(p).y
           u == p.u
           v == p.v
           z == 0 \ominus u
           w == 0 \ominus y
           S == MONTGOMERY_SCALE
<1>1. /\ u \in Field /\ v \in Field /\ u \in Int /\ v \in Int /\ x \in Field /\ y \in Field
      /\ p = [u |-> u, v |-> v] /\ Maps(u, v, x, y) /\ Montgomery(p) = [x |-> x, y |-> y]
  BY Coordinates, MontgomeryMaps
<1>2. x \in Int /\ y \in Int /\ S \in Int
  BY <1>1, FieldSize, MontgomeryConstants DEF Field
<1>3. Vanishes((1 - v) * x - (1 + v)) /\ Vanishes(u * y - S * x)
  BY <1>1 DEF Maps
<1>4. ~Vanishes(u)
  BY <1>1, FieldZero
<1>5. Negate(p) \in Points /\ Negate(p) = [u |-> z, v |-> v]
  BY <1>1, NegateInverts DEF Negate
<1>6. /\ z \in Field /\ w \in Field /\ Vanishes(z - (0 - u)) /\ Vanishes(w - (0 - y))
  <2>1. 0 \in Int
    OBVIOUS
  <2>2. /\ 0 \ominus u \in Field /\ Same(0 \ominus u, 0 - u)
        /\ 0 \ominus y \in Field /\ Same(0 \ominus y, 0 - y)
    BY <1>1, <1>2, <2>1, FieldOperations, Zenon
  <2>3. QED
    BY <2>2 DEF Same
<1>7. z \in Int /\ w \in Int
  BY <1>6, FieldSize DEF Field
<1>8. [Montgomery(p) EXCEPT !.y = 0 \ominus @] = [x |-> x, y |-> w]
  BY <1>1
<1> HIDE DEF x, y, u, v, z, w, S
<1>9. z # 0
  <2> SUFFICES ASSUME z = 0 PROVE FALSE
    OBVIOUS
  <2>1. IsProduct(u, 1, z - (0 - u))
    BY <1>1 DEF IsProduct
  <2>2. QED
    BY <1>4, <1>6, <2>1, ProductVanishes
<1>10. Vanishes(z * w - S * x)
  <2>1. Combines(z * w - S * x, z - (0 - u), w, w - (0 - y), -u, u * y - S * x, 1, 0, 0)
    BY <1>1, <1>2, <1>7 DEF Combines
  <2>2. QED
    BY <1>3, <1>6, <2>1, ZeroVanishes, CombinationVanishes
<1>11. Negate(p) # Identity
  BY <1>5, <1>9 DEF Identity
<1>12. Maps(z, v, x, w)
  BY <1>3, <1>10 DEF Maps, S
<1>13. Negate(p).u = z /\ Negate(p).v = v
  BY <1>5
<1>14. Montgomery(Negate(p)) = [x |-> x, y |-> w]
  BY <1>1, <1>5, <1>6, <1>9, <1>11, <1>12, <1>13, MontgomeryUnique
<1>15. QED
  BY <1>5, <1>8, <1>9, <1>11, <1>13, <1>14

-----------------------------------------------------------------------------
(* The native hash: the scalar of a segment and its tables                  *)

\* The number a chunk stands for: 1 + a + 2 b, negated by c.
Signed(c) == IF c[3] = 1 THEN -(1 + c[1] + 2 * c[2]) ELSE 1 + c[1] + 2 * c[2]
\* That of the j-th chunk of a segment.
Digit(bits, j) == Signed(Chunk(bits, 3 * j - 2))

\* The numbers of the first m chunks, each at its weight.
Terms(bits, m) == [j \in 1 .. m |-> Digit(bits, j) * Pow(16, j - 1)]
\* Their sum.
Partial(bits, m) == SumFunction(Terms(bits, m))

\* A chunk is three bits, zero past the end.
LEMMA ChunkBits ==
  ASSUME NEW bits \in Seq(Bit), NEW n \in Nat
  PROVE  /\ Chunk(bits, n + 1) \in [1 .. 3 -> Bit]
         /\ Chunk(bits, n + 1)[1] = BitAt(bits, n + 1)
         /\ Chunk(bits, n + 1)[2] = BitAt(bits, n + 2)
         /\ Chunk(bits, n + 1)[3] = BitAt(bits, n + 3)
<1> DEFINE c == Chunk(bits, n + 1)
<1>1. Len(bits) \in Nat /\ (\A k \in 1 .. Len(bits) : bits[k] \in Bit) /\ 0 \in Bit
  BY DEF Bit
<1> HIDE DEF Bit
<1>2. c = [k \in 1 .. 3 |-> IF (n + 1) + k - 1 <= Len(bits) THEN bits[(n + 1) + k - 1] ELSE 0]
  BY DEF Chunk
<1>3. \A k \in 1 .. 3 : (n + 1) + k - 1 = n + k
  OBVIOUS
<1>4. \A k \in 1 .. 3 : c[k] = BitAt(bits, n + k)
  BY <1>2, <1>3 DEF BitAt
<1>5. c = [k \in 1 .. 3 |-> c[k]]
  BY <1>2
<1> HIDE DEF c
<1>6. \A k \in 1 .. 3 : BitAt(bits, n + k) \in Bit
  BY <1>1 DEF BitAt
<1>7. c \in [1 .. 3 -> Bit]
  BY <1>4, <1>5, <1>6
<1>8. 1 \in 1 .. 3 /\ 2 \in 1 .. 3 /\ 3 \in 1 .. 3
  OBVIOUS
<1>9. QED
  BY <1>4, <1>7, <1>8 DEF c

\* The numbers are 1, 2, 3, 4 and their negatives.
LEMMA SignedNumbers ==
  ASSUME NEW c \in [1 .. 3 -> Bit]
  PROVE  /\ Signed(c) \in Int
         /\ \/ Signed(c) \in 1 .. 4 /\ c[3] = 0 /\ Signed(c) = c[1] + 2 * c[2] + 1
            \/ -Signed(c) \in 1 .. 4 /\ c[3] = 1 /\ -Signed(c) = c[1] + 2 * c[2] + 1
         /\ c[1] + 2 * c[2] + 1 \in 1 .. 4 /\ c[1] \in {0, 1} /\ c[2] \in {0, 1} /\ c[3] \in {0, 1}
<1>1. c[1] \in {0, 1} /\ c[2] \in {0, 1} /\ c[3] \in {0, 1}
  BY DEF Bit
<1>2. QED
  BY <1>1 DEF Signed

\* So are those of the chunks of a segment.
LEMMA DigitIsANumber ==
  ASSUME NEW bits \in Seq(Bit), NEW j \in Nat \ {0}
  PROVE  Digit(bits, j) \in Int /\ (Digit(bits, j) \in 1 .. 4 \/ -Digit(bits, j) \in 1 .. 4)
<1>1. 3 * j - 3 \in Nat /\ (3 * j - 3) + 1 = 3 * j - 2
  OBVIOUS
<1>2. Chunk(bits, 3 * j - 2) \in [1 .. 3 -> Bit]
  BY <1>1, ChunkBits
<1>3. QED
  BY <1>2, SignedNumbers DEF Digit

\* One chunk more.
LEMMA PartialGrows ==
  ASSUME NEW bits \in Seq(Bit)
  PROVE  /\ Partial(bits, 0) = 0
         /\ \A m \in Nat : Partial(bits, m) \in Int
         /\ \A m \in Nat : Partial(bits, m + 1) = Partial(bits, m) + Digit(bits, m + 1) * Pow(16, m)
<1>1. \A j \in Nat \ {0} : Digit(bits, j) * Pow(16, j - 1) \in Int
  <2> TAKE j \in Nat \ {0}
  <2>1. Digit(bits, j) \in Int
    BY DigitIsANumber
  <2>2. j - 1 \in Nat /\ 16 \in Nat \ {0}
    OBVIOUS
  <2>3. Pow(16, j - 1) \in Nat \ {0}
    BY <2>2, PowInteger, Zenon
  <2>4. \A a, b \in Int : a * b \in Int
    OBVIOUS
  <2>5. QED
    BY <2>1, <2>3, <2>4
<1>2. \A m \in Nat : Terms(bits, m) \in Seq(Int) /\ Len(Terms(bits, m)) = m
  <2> TAKE m \in Nat
  <2>1. \A j \in 1 .. m : Digit(bits, j) * Pow(16, j - 1) \in Int
    BY <1>1
  <2>2. Terms(bits, m) \in [1 .. m -> Int]
    BY <2>1, Zenon DEF Terms
  <2>3. QED
    BY <2>2, IsASeq
<1>3. Partial(bits, 0) = 0
  <2>1. DOMAIN Terms(bits, 0) = {}
    BY DEF Terms
  <2>2. IsFiniteSet({})
    BY FS_EmptySet
  <2>3. SumFunctionOnSet(Terms(bits, 0), {}) = 0
    BY <2>2, SumOfSet
  <2>4. QED
    BY <2>1, <2>3 DEF Partial, SumFunction
<1>4. \A m \in Nat : Partial(bits, m) \in Int
  <2> TAKE m \in Nat
  <2>1. Terms(bits, m) \in Seq(Int) /\ Terms(bits, m) \in Seq(Int)
    BY <1>2
  <2>2. QED
    BY <2>1, SumOfConcat DEF Partial
<1>5. ASSUME NEW m \in Nat PROVE Partial(bits, m + 1) = Partial(bits, m) + Digit(bits, m + 1) * Pow(16, m)
  <2> DEFINE s == Terms(bits, m)
             x == Digit(bits, m + 1) * Pow(16, m)
  <2>1. s \in Seq(Int) /\ Len(s) = m /\ m + 1 \in Nat \ {0} /\ (m + 1) - 1 = m
    BY <1>2
  <2>2. x \in Int
    BY <1>1, <2>1
  <2>3. Terms(bits, m + 1) = Append(s, x)
    <3>1. \A j \in 1 .. m : Append(s, x)[j] = Digit(bits, j) * Pow(16, j - 1)
      <4>1. \A j \in 1 .. m : s[j] = Digit(bits, j) * Pow(16, j - 1)
        BY Zenon DEF Terms
      <4> HIDE DEF s, x
      <4>2. QED
        BY <2>1, <4>1
    <3>2. Append(s, x)[m + 1] = Digit(bits, m + 1) * Pow(16, (m + 1) - 1)
      <4>1. x = Digit(bits, m + 1) * Pow(16, (m + 1) - 1)
        BY <2>1
      <4> HIDE DEF s, x
      <4>2. QED
        BY <2>1, <4>1
    <3>3. \A j \in 1 .. (m + 1) : Append(s, x)[j] = Digit(bits, j) * Pow(16, j - 1)
      <4> HIDE DEF s, x
      <4>1. \A j \in 1 .. (m + 1) : j \in 1 .. m \/ j = m + 1
        OBVIOUS
      <4>2. QED
        BY <3>1, <3>2, <4>1, Zenon
    <3>4. Append(s, x) = [j \in 1 .. (m + 1) |-> Append(s, x)[j]]
      <4> HIDE DEF s, x
      <4>1. Append(s, x) \in Seq(Int) /\ Len(Append(s, x)) = m + 1
        BY <2>1, <2>2
      <4>2. \A t \in Seq(Int) : t = [j \in 1 .. Len(t) |-> t[j]]
        OBVIOUS
      <4>3. QED
        BY <4>1, <4>2
    <3>5. QED
      BY <3>3, <3>4, Zenon DEF Terms
  <2> HIDE DEF s, x
  <2>4. SumFunction(Append(s, x)) = SumFunction(s) + x
    BY <2>1, <2>2, SumOfAppend
  <2>5. QED
    BY <2>3, <2>4 DEF Partial, s, x
<1>6. QED
  BY <1>3, <1>4, <1>5

\* Bounds of the partial sums: they stay below a third of the next weight, and
\* only the empty one is zero.
LEMMA PartialBounds ==
  ASSUME NEW bits \in Seq(Bit)
  PROVE  \A m \in Nat : /\ 15 * Partial(bits, m) <= 4 * (Pow(16, m) - 1)
                        /\ -(15 * Partial(bits, m)) <= 4 * (Pow(16, m) - 1)
                        /\ m > 0 => Partial(bits, m) # 0
<1>1. 16 \in Nat \ {0}
  OBVIOUS
<1>2. Pow(16, 0) = 1 /\ (\A m \in Nat : Pow(16, m) \in Nat \ {0}) /\ \A m \in Nat : Pow(16, m + 1) = 16 * Pow(16, m)
  <2>1. Pow(16, 0) = 1 /\ \A m \in Nat : Pow(16, m + 1) = 16 * Pow(16, m)
    BY PowUnfolds, Zenon
  <2>2. \A m \in Nat : Pow(16, m) \in Nat \ {0}
    BY <1>1, PowInteger, Zenon
  <2>3. QED
    BY <2>1, <2>2
<1> DEFINE P == {m \in Nat : /\ 15 * Partial(bits, m) <= 4 * (Pow(16, m) - 1)
                             /\ -(15 * Partial(bits, m)) <= 4 * (Pow(16, m) - 1)
                             /\ m > 0 => Partial(bits, m) # 0}
<1>3. 0 \in P
  <2>1. Partial(bits, 0) = 0 /\ Pow(16, 0) = 1
    BY <1>2, PartialGrows, Zenon
  <2>2. QED
    BY <2>1
<1>4. ASSUME NEW m \in Nat, m \in P PROVE m + 1 \in P
  <2>1. PICK w \in Nat \ {0} : w = Pow(16, m)
    BY <1>2
  <2>2. PICK p \in Int : p = Partial(bits, m)
    BY PartialGrows
  <2>3. PICK d \in Int : d = Digit(bits, m + 1) /\ (d \in 1 .. 4 \/ -d \in 1 .. 4)
    <3>1. m + 1 \in Nat \ {0}
      OBVIOUS
    <3>2. QED
      BY <3>1, DigitIsANumber
  <2>4. Partial(bits, m + 1) = p + d * w
    BY <2>1, <2>2, <2>3, PartialGrows
  <2>5. Pow(16, m + 1) = 16 * w
    BY <1>2, <2>1
  <2>6. 15 * p <= 4 * (w - 1) /\ -(15 * p) <= 4 * (w - 1)
    BY <1>4, <2>1, <2>2
  <2>7. d \in {1, 2, 3, 4, -1, -2, -3, -4}
    BY <2>3
  <2>8. /\ 15 * (p + d * w) <= 4 * (16 * w - 1)
        /\ -(15 * (p + d * w)) <= 4 * (16 * w - 1)
        /\ p + d * w # 0
    BY <2>6, <2>7
  <2>9. QED
    BY <2>4, <2>5, <2>8
<1> HIDE DEF P
<1>5. \A m \in Nat : m \in P
  BY <1>3, <1>4, SetInduction
<1>6. QED
  BY <1>5 DEF P

\* The same, as an opaque whole.
Bounded(a, w) == 15 * a <= 4 * (w - 1) /\ -(15 * a) <= 4 * (w - 1)
\* The partial sums are bounded by the weight of the next chunk.
LEMMA PartialBounded ==
  ASSUME NEW bits \in Seq(Bit), NEW m \in Nat
  PROVE  Bounded(Partial(bits, m), Pow(16, m)) /\ (m > 0 => Partial(bits, m) # 0)
BY PartialBounds DEF Bounded

\* The recursion that defines SegmentScalar.
Accumulated(bits, f, j) == IF j = 0 THEN 0 ELSE (f[j - 1] + ChunkScalar(bits, j)) % R_J

\* The scalar of a chunk is its number at its weight.
LEMMA ChunkScalarIsDigit ==
  ASSUME NEW bits \in Seq(Bit), NEW j \in Nat \ {0}
  PROVE  ChunkScalar(bits, j) = Digit(bits, j) * Pow(16, j - 1)
<1> DEFINE c == Chunk(bits, 3 * j - 2)
           w == Pow(16, j - 1)
<1>1. 3 * j - 3 \in Nat /\ (3 * j - 3) + 1 = 3 * j - 2 /\ j - 1 \in Nat /\ 16 \in Nat \ {0}
  OBVIOUS
<1>2. c \in [1 .. 3 -> Bit]
  BY <1>1, ChunkBits
<1>3. w \in Nat \ {0}
  BY <1>1, PowInteger, Zenon
<1>4. c[1] \in {0, 1} /\ c[2] \in {0, 1} /\ c[3] \in {0, 1}
  BY <1>2, SignedNumbers
<1>5. ChunkScalar(bits, j) = IF c[3] = 1 THEN -(w + c[1] * w + c[2] * 2 * w) ELSE w + c[1] * w + c[2] * 2 * w
  BY DEF ChunkScalar
<1>6. Digit(bits, j) = IF c[3] = 1 THEN -(1 + c[1] + 2 * c[2]) ELSE 1 + c[1] + 2 * c[2]
  BY DEF Digit, Signed
<1> HIDE DEF c, w
<1>7. QED
  BY <1>3, <1>4, <1>5, <1>6 DEF w

\* The scalar of a segment is its sum, modulo the order of the subgroup.
LEMMA ScalarIsPartial ==
  ASSUME NEW bits \in Seq(Bit)
  PROVE  SegmentScalar(bits) = Partial(bits, (Len(bits) + 2) \div 3) % R_J
<1> DEFINE N == (Len(bits) + 2) \div 3
           f == [j \in 0 .. N |-> Partial(bits, j) % R_J]
           A == CHOOSE g : g = [j \in 0 .. N |-> Accumulated(bits, g, j)]
<1>1. N \in Nat
  OBVIOUS
<1>2. SegmentScalar(bits) = A[N]
  BY DEF SegmentScalar, Accumulated
<1> HIDE DEF N
<1>3. \A j \in 0 .. N : f[j] = Accumulated(bits, f, j)
  <2> TAKE j \in 0 .. N
  <2>1. CASE j = 0
    <3>1. Partial(bits, 0) = 0 /\ R_J \in Nat /\ R_J > 4
      BY PartialGrows, CurveAssumption
    <3>2. f[j] = 0 % R_J /\ 0 % R_J = 0
      BY <2>1, <3>1
    <3>3. QED
      BY <2>1, <3>2 DEF Accumulated
  <2>2. CASE j # 0
    <3>1. j - 1 \in Nat /\ j - 1 \in 0 .. N /\ (j - 1) + 1 = j /\ j \in Nat \ {0}
      BY <1>1, <2>2
    <3>2. f[j] = Partial(bits, j) % R_J /\ f[j - 1] = Partial(bits, j - 1) % R_J
      BY <3>1
    <3>3. Partial(bits, j) = Partial(bits, j - 1) + ChunkScalar(bits, j)
      <4>1. Partial(bits, (j - 1) + 1) = Partial(bits, j - 1) + Digit(bits, (j - 1) + 1) * Pow(16, j - 1)
        BY <3>1, PartialGrows
      <4>2. ChunkScalar(bits, j) = Digit(bits, j) * Pow(16, j - 1)
        BY <3>1, ChunkScalarIsDigit
      <4>3. QED
        BY <3>1, <4>1, <4>2
    <3>4. Partial(bits, j - 1) \in Int /\ ChunkScalar(bits, j) \in Int
      <4>1. Digit(bits, j) \in Int /\ 16 \in Nat \ {0}
        BY <3>1, DigitIsANumber
      <4>2. Pow(16, j - 1) \in Nat
        BY <3>1, <4>1, PowInteger, Zenon
      <4>3. \A a, b \in Int : a * b \in Int
        OBVIOUS
      <4>4. Digit(bits, j) * Pow(16, j - 1) \in Int
        BY <4>1, <4>2, <4>3
      <4>5. QED
        BY <3>1, <4>4, PartialGrows, ChunkScalarIsDigit
    <3>5. ((Partial(bits, j - 1) % R_J) + ChunkScalar(bits, j)) % R_J = (Partial(bits, j - 1) + ChunkScalar(bits, j)) % R_J
      BY <3>4, Residues
    <3> HIDE DEF f
    <3>6. QED
      BY <2>2, <3>2, <3>3, <3>5, Zenon DEF Accumulated
  <2>3. QED
    BY <2>1, <2>2
<1>4. f = [j \in 0 .. N |-> Accumulated(bits, f, j)]
  <2>1. f = [j \in 0 .. N |-> f[j]]
    OBVIOUS
  <2> HIDE DEF f
  <2>2. QED
    BY <1>3, <2>1, Zenon
<1>5. A = [j \in 0 .. N |-> Accumulated(bits, A, j)]
  BY <1>4, Zenon
<1> HIDE DEF A
<1> DEFINE P == {j \in Nat : j <= N => A[j] = f[j]}
<1>6. \A j \in 0 .. N : A[j] = Accumulated(bits, A, j)
  BY <1>5
<1> HIDE DEF f
<1>7. 0 \in P
  <2>1. 0 \in 0 .. N
    BY <1>1
  <2>2. QED
    BY <1>3, <1>6, <2>1 DEF Accumulated
<1>8. ASSUME NEW j \in Nat, j \in P PROVE j + 1 \in P
  <2> SUFFICES ASSUME j + 1 <= N PROVE A[j + 1] = f[j + 1]
    OBVIOUS
  <2>1. j + 1 \in 0 .. N /\ (j + 1) - 1 = j /\ j <= N
    BY <1>1
  <2>2. A[j] = f[j]
    BY <1>8, <2>1
  <2>3. QED
    BY <1>3, <1>6, <2>1, <2>2 DEF Accumulated
<1> HIDE DEF P
<1>9. \A j \in Nat : j \in P
  BY <1>7, <1>8, SetInduction
<1>10. A[N] = f[N]
  BY <1>1, <1>9 DEF P
<1>11. f[N] = Partial(bits, N) % R_J
  BY <1>1 DEF f
<1>12. QED
  BY <1>2, <1>10, <1>11 DEF N

\* A power of a power.
LEMMA PowPow ==
  ASSUME NEW b \in Nat \ {0}, NEW w \in Nat
  PROVE  \A n \in Nat : Pow(b, w * n) = Pow(Pow(b, w), n)
<1> DEFINE s == Pow(b, w)
           P == {n \in Nat : Pow(b, w * n) = Pow(s, n)}
<1>1. Pow(b, 0) = 1 /\ Pow(s, 0) = 1 /\ \A n \in Nat : Pow(s, n + 1) = s * Pow(s, n)
  BY PowUnfolds
<1>2. 0 \in P
  BY <1>1
<1>3. ASSUME NEW n \in Nat, n \in P PROVE n + 1 \in P
  <2>1. w * n \in Nat /\ w * (n + 1) = w + w * n
    OBVIOUS
  <2>2. PICK k \in Nat : k = w * n
    BY <2>1
  <2>3. Pow(b, w + k) = Pow(b, w) * Pow(b, k)
    BY PowAdds
  <2>4. Pow(b, k) = Pow(s, n)
    BY <1>3, <2>2
  <2>5. QED
    BY <1>1, <2>1, <2>2, <2>3, <2>4
<1> HIDE DEF P
<1>4. \A n \in Nat : n \in P
  BY <1>2, <1>3, SetInduction
<1>5. QED
  BY <1>4 DEF P

\* Powers of a base above one grow with the exponent.
LEMMA PowGrows ==
  ASSUME NEW b \in Nat \ {0}, NEW m \in Nat, NEW n \in Nat, m <= n
  PROVE  Pow(b, m) <= Pow(b, n)
<1>1. n - m \in Nat /\ m + (n - m) = n
  OBVIOUS
<1>2. PICK x \in Nat \ {0} : x = Pow(b, m)
  BY PowInteger
<1>3. PICK y \in Nat \ {0} : y = Pow(b, n - m)
  BY <1>1, PowInteger
<1>4. Pow(b, n) = x * y
  BY <1>1, <1>2, <1>3, PowAdds
<1>5. x <= x * y
  OBVIOUS
<1>6. QED
  BY <1>2, <1>4, <1>5

\* The windows that are read have tables, and cover a scalar.
LEMMA WindowsCover ==
  LET w == PEDERSEN_HASH_EXP_WINDOW_SIZE
      size == Pow(2, w)
  IN  /\ w \in Nat \ {0} /\ size \in Nat \ {0} /\ WindowsRead \in Nat
      /\ \A j \in 1 .. WindowsRead : j \in 1 .. (FR_NUM_BITS \div w + 1)
      /\ R_J <= Pow(size, WindowsRead)
      /\ \A n \in Nat : Pow(2, w * n) = Pow(size, n) /\ Pow(size, n) \in Nat \ {0}
<1> DEFINE w == PEDERSEN_HASH_EXP_WINDOW_SIZE
           F == FR_NUM_BITS
           size == Pow(2, w)
           W == WindowsRead
<1>1. w \in Nat \ {0} /\ F \in Nat /\ R_J <= Pow(2, F) /\ 2 \in Nat \ {0} /\ w \in Nat
  BY PedersenAssumption
<1>2. W = (F + w - 1) \div w
  BY DEF WindowsRead
<1> HIDE DEF w, F, W
<1>3. W \in Nat /\ W <= F \div w + 1 /\ F <= w * W
  <2> DEFINE d == F \div w
             r == F % w
             D == (F + w - 1) \div w
             r2 == (F + w - 1) % w
  <2>1. d \in Nat /\ r \in 0 .. w - 1 /\ F = w * d + r
    BY <1>1, Division
  <2>2. F + w - 1 \in Nat
    BY <1>1
  <2>3. D \in Nat /\ r2 \in 0 .. w - 1 /\ F + w - 1 = w * D + r2
    BY <1>1, <2>2, Division
  <2> HIDE DEF d, r, D, r2
  <2>4. F <= w * D
    BY <1>1, <2>3
  <2>5. D <= d + 1
    <3> SUFFICES ASSUME D >= d + 2 PROVE FALSE
      BY <2>1, <2>3
    <3>1. PICK e \in Nat : D = d + 2 + e
      <4>1. D - d - 2 \in Nat /\ D = d + 2 + (D - d - 2)
        BY <2>1, <2>3
      <4>2. QED
        BY <4>1
    <3>2. w * D = w * d + 2 * w + w * e /\ w * e \in Nat
      BY <1>1, <2>1, <3>1
    <3>3. w * d \in Nat /\ w * D \in Nat
      BY <1>1, <2>1, <2>3
    <3>4. QED
      BY <1>1, <2>1, <2>3, <3>2, <3>3
  <2>6. QED
    BY <1>2, <2>3, <2>4, <2>5 DEF D, d
<1>4. \A n \in Nat : Pow(2, n) \in Nat \ {0}
  BY <1>1, PowInteger, Zenon
<1>5. size \in Nat \ {0}
  BY <1>1, <1>4
<1>6. \A n \in Nat : Pow(2, w * n) = Pow(size, n)
  BY <1>1, PowPow, Zenon
<1>7. \A n \in Nat : Pow(size, n) \in Nat \ {0}
  BY <1>5, PowInteger, Zenon
<1>8. R_J <= Pow(size, W)
  <2>1. w * W \in Nat
    BY <1>1, <1>3
  <2>2. Pow(2, F) <= Pow(2, w * W)
    <3>1. PICK n \in Nat : n = w * W
      BY <2>1
    <3>2. F <= n
      BY <1>3, <3>1
    <3>3. Pow(2, F) <= Pow(2, n)
      BY <1>1, <3>2, PowGrows, Zenon
    <3>4. QED
      BY <3>1, <3>3
  <2>3. Pow(2, F) \in Nat /\ Pow(2, w * W) \in Nat /\ R_J \in Nat
    BY <1>1, <1>4, <2>1, CurveAssumption
  <2>4. R_J <= Pow(2, w * W)
    BY <1>1, <2>2, <2>3
  <2>5. QED
    BY <1>3, <1>6, <2>4
<1>9. \A j \in 1 .. W : j \in 1 .. (F \div w + 1)
  BY <1>1, <1>3
<1>10. QED
  BY <1>1, <1>3, <1>5, <1>6, <1>7, <1>8, <1>9 DEF w, F, W

\* The digits of a number in a base, from the lowest: what n of them leave out is
\* the quotient by the n-th power.
LEMMA DigitsAddUp ==
  ASSUME NEW acc \in Nat, NEW size \in Nat \ {0}, NEW x \in Nat \ {0}
  PROVE  LET q == acc \div x
             d == q % size
         IN  /\ q \in Nat /\ d \in 0 .. (size - 1) /\ acc \div (size * x) \in Nat
             /\ acc - q * x \in Nat
             /\ acc - (acc \div (size * x)) * (size * x) = (acc - q * x) + d * x
<1> DEFINE q == acc \div x
           r == acc % x
           h == q \div size
           d == q % size
<1>1. q \in Nat /\ r \in 0 .. x - 1 /\ acc = x * q + r
  BY Division
<1> HIDE DEF q, r
<1>2. h \in Nat /\ d \in 0 .. size - 1 /\ q = size * h + d
  BY <1>1, Division
<1> HIDE DEF h, d
<1>3. PICK z \in Nat \ {0} : z = size * x
  <2>1. size * x \in Nat \ {0}
    OBVIOUS
  <2>2. QED
    BY <2>1
<1>4. acc = z * h + (x * d + r)
  <2>1. acc = x * (size * h + d) + r
    BY <1>1, <1>2
  <2>2. x * (size * h + d) + r = (size * x) * h + (x * d + r)
    BY <1>1, <1>2
  <2>3. QED
    BY <1>3, <2>1, <2>2
<1>5. x * d + r \in 0 .. z - 1
  <2>1. x * d + r \in Nat
    BY <1>1, <1>2
  <2>2. PICK e \in Nat : e = size - 1 - d
    BY <1>2
  <2>3. z = x * d + x + x * e
    BY <1>2, <1>3, <2>2
  <2>4. x * e \in Nat /\ x * d \in Nat
    BY <1>2, <2>2
  <2>5. QED
    BY <1>1, <1>3, <2>1, <2>3, <2>4
<1>6. acc \div z = h
  BY <1>2, <1>4, <1>5, DivisionUnique
<1>7. acc - h * z = (acc - q * x) + d * x
  <2>1. q * x = x * (size * h + d)
    BY <1>1, <1>2
  <2>2. h * z = h * (size * x)
    BY <1>3
  <2>3. acc - h * (size * x) = (acc - x * (size * h + d)) + d * x
    BY <1>1, <1>2
  <2>4. QED
    BY <2>1, <2>2, <2>3
<1>8. acc - q * x \in Nat
  BY <1>1
<1>9. QED
  BY <1>1, <1>2, <1>3, <1>6, <1>7, <1>8 DEF q, d

\* The exponentiation with the tables is the multiple of the generator.
LEMMA ExponentiateIsExact ==
  ASSUME NEW acc \in 0 .. (R_J - 1), NEW s \in Segments
  PROVE  Exponentiate(acc, s) = Times(acc, PEDERSEN_HASH_GENERATORS[s])
<1> DEFINE w == PEDERSEN_HASH_EXP_WINDOW_SIZE
           size == Pow(2, w)
           W == WindowsRead
           g == PEDERSEN_HASH_GENERATORS[s]
           t == [j \in 1 .. W |-> PEDERSEN_HASH_EXP_TABLE[s][j][(acc \div Pow(size, j - 1)) % size]]
           q(n) == acc \div Pow(size, n)
           A(n) == acc - q(n) * Pow(size, n)
<1>1. /\ w \in Nat \ {0} /\ size \in Nat \ {0} /\ W \in Nat
      /\ \A j \in 1 .. W : j \in 1 .. (FR_NUM_BITS \div w + 1)
      /\ R_J <= Pow(size, W)
      /\ \A n \in Nat : Pow(2, w * n) = Pow(size, n) /\ Pow(size, n) \in Nat \ {0}
  BY WindowsCover
<1>2. g \in Points /\ acc \in Nat /\ R_J \in Nat
  BY PedersenAssumption, CurveAssumption DEF Segments
<1>3. Exponentiate(acc, s) = PointSum(W, t)
  BY DEF Exponentiate
<1>4. ASSUME NEW n \in Nat
      PROVE  /\ q(n) \in Nat /\ q(n) % size \in 0 .. (size - 1) /\ A(n) \in Nat
             /\ A(n + 1) = A(n) + (q(n) % size) * Pow(size, n)
  <2>1. PICK x \in Nat \ {0} : x = Pow(size, n)
    BY <1>1
  <2>2. Pow(size, n + 1) = size * x
    BY <2>1, PowUnfolds
  <2>3. size \in Nat \ {0} /\ acc \in Nat
    BY <1>1, <1>2
  <2> HIDE DEF size
  <2>4. LET k == acc \div x
            d == k % size
        IN  /\ k \in Nat /\ d \in 0 .. (size - 1) /\ acc \div (size * x) \in Nat
            /\ acc - k * x \in Nat
            /\ acc - (acc \div (size * x)) * (size * x) = (acc - k * x) + d * x
    BY <2>3, DigitsAddUp, Zenon
  <2>5. QED
    BY <2>1, <2>2, <2>4
<1>5. ASSUME NEW n \in Nat, n + 1 <= W
      PROVE  t[n + 1] = Times((q(n) % size) * Pow(size, n), g)
  <2>1. n + 1 \in 1 .. W /\ (n + 1) - 1 = n /\ n + 1 \in 1 .. (FR_NUM_BITS \div w + 1)
    BY <1>1, <1>5
  <2>2. t[n + 1] = PEDERSEN_HASH_EXP_TABLE[s][n + 1][q(n) % size]
    BY <2>1
  <2>3. PEDERSEN_HASH_EXP_TABLE[s] = generate_pedersen_hash_exp_table(g)
    BY DEF PEDERSEN_HASH_EXP_TABLE
  <2>4. generate_pedersen_hash_exp_table(g)[n + 1] = [k \in 0 .. (size - 1) |-> Times(k * Pow(2, w * n), g)]
    BY <2>1 DEF generate_pedersen_hash_exp_table
  <2>5. q(n) % size \in 0 .. (size - 1)
    BY <1>4
  <2> HIDE DEF q, size, w, g, t
  <2>6. t[n + 1] = Times((q(n) % size) * Pow(2, w * n), g)
    BY <2>2, <2>3, <2>4, <2>5
  <2>7. Pow(2, w * n) = Pow(size, n)
    BY <1>1
  <2>8. QED
    BY <2>6, <2>7
<1> DEFINE P == {n \in Nat : n <= W => PointSum(n, t) = Times(A(n), g)}
<1>6. 0 \in P
  <2>1. Pow(size, 0) = 1 /\ PointSum(0, t) = Identity
    BY PowUnfolds, PointSumUnfolds
  <2> HIDE DEF size, t
  <2>2. A(0) = 0
    BY <1>2, <2>1
  <2>3. Times(0, g) = Identity
    BY <1>2, TimesCounts
  <2>4. QED
    BY <2>1, <2>2, <2>3
<1>7. ASSUME NEW n \in Nat, n \in P PROVE n + 1 \in P
  <2> SUFFICES ASSUME n + 1 <= W PROVE PointSum(n + 1, t) = Times(A(n + 1), g)
    OBVIOUS
  <2>1. n <= W
    BY <1>1
  <2>2. PointSum(n, t) = Times(A(n), g)
    BY <1>7, <2>1
  <2>3. PointSum(n + 1, t) = Plus(PointSum(n, t), t[n + 1])
    BY PointSumUnfolds
  <2>4. t[n + 1] = Times((q(n) % size) * Pow(size, n), g)
    BY <1>5
  <2>5. PICK b \in Nat : b = (q(n) % size) * Pow(size, n)
    <3>1. \A x \in 0 .. (size - 1) : x \in Nat
      BY <1>1
    <3>2. q(n) % size \in Nat /\ Pow(size, n) \in Nat
      BY <1>1, <1>4, <3>1
    <3>3. \A x, y \in Nat : x * y \in Nat
      OBVIOUS
    <3> HIDE DEF q, size
    <3>4. QED
      BY <3>2, <3>3
  <2>6. A(n) \in Nat /\ A(n + 1) = A(n) + b
    BY <1>4, <2>5
  <2> HIDE DEF A, t, q, size, P
  <2>7. Times(A(n) + b, g) = Plus(Times(A(n), g), Times(b, g))
    BY <1>2, <2>6, TimesCounts
  <2>8. QED
    BY <2>2, <2>3, <2>4, <2>5, <2>6, <2>7
<1> HIDE DEF P
<1>8. \A n \in Nat : n \in P
  BY <1>6, <1>7, SetInduction
<1>9. PointSum(W, t) = Times(A(W), g)
  <2>1. W \in P /\ W <= W
    BY <1>1, <1>8
  <2> HIDE DEF A, t, W, g
  <2>2. QED
    BY <2>1 DEF P
<1>10. A(W) = acc
  <2>1. PICK x \in Nat \ {0} : x = Pow(size, W)
    BY <1>1
  <2>2. acc < x
    BY <1>1, <1>2, <2>1
  <2>3. acc = x * 0 + acc /\ acc \in 0 .. x - 1
    BY <1>2, <2>2
  <2>4. acc \div x = 0
    BY <1>2, <2>3, DivisionUnique
  <2>5. QED
    BY <1>2, <2>1, <2>4
<1>11. QED
  BY <1>3, <1>9, <1>10

-----------------------------------------------------------------------------
(* The segments and their windows                                           *)

\* A segment is not empty.
LEMMA SegmentSize ==
  /\ PEDERSEN_HASH_CHUNKS_PER_GENERATOR \in Nat \ {0} /\ SegmentBits \in Nat \ {0}
  /\ SegmentBits = 3 * PEDERSEN_HASH_CHUNKS_PER_GENERATOR
BY PedersenAssumption DEF SegmentBits

\* A segment's length, and its chunks among those of the whole.
LEMMA SegmentParts ==
  ASSUME NEW bits \in Seq(Bit), NEW k \in Nat, k * SegmentBits < Len(bits)
  PROVE  LET seg == SegmentOf(bits, k + 1)
         IN  /\ seg \in Seq(Bit) /\ Len(seg) \in Nat
             /\ Len(seg) <= SegmentBits /\ Len(seg) <= Len(bits) - k * SegmentBits
             /\ Len(seg) = SegmentBits \/ Len(seg) = Len(bits) - k * SegmentBits
             /\ \A m \in 0 .. (PEDERSEN_HASH_CHUNKS_PER_GENERATOR - 1) :
                   Chunk(seg, 3 * m + 1) = Chunk(bits, (k * SegmentBits + 3 * m) + 1)
<1> DEFINE C == PEDERSEN_HASH_CHUNKS_PER_GENERATOR
           b == SegmentBits
           N == Len(bits)
           e == IF (k + 1) * b < N THEN (k + 1) * b ELSE N
           seg == SegmentOf(bits, k + 1)
<1>1. C \in Nat \ {0} /\ b \in Nat \ {0} /\ b = 3 * C /\ N \in Nat /\ \A x \in 1 .. N : bits[x] \in Bit
  BY SegmentSize
<1>2. seg = SubSeq(bits, ((k + 1) - 1) * b + 1, e)
  BY DEF SegmentOf
<1> HIDE DEF C, b, seg, Bit
<1>3. PICK o \in Nat : o = k * b
  <2>1. k * b \in Nat
    BY <1>1
  <2>2. QED
    BY <2>1
<1>4. ((k + 1) - 1) * b = o /\ (k + 1) * b = o + b
  BY <1>1, <1>3
<1>5. e = (IF o + b < N THEN o + b ELSE N) /\ seg = SubSeq(bits, o + 1, e)
  BY <1>2, <1>4
<1> HIDE DEF e
<1>6. o < N
  BY <1>3 DEF b, N
<1>7. e \in o + 1 .. N /\ e <= o + b /\ (e = o + b \/ e = N) /\ e \in Nat
  BY <1>1, <1>5, <1>6
<1> HIDE DEF N
<1>8. /\ Len(seg) = e - o /\ seg \in Seq(Bit)
      /\ \A x \in 1 .. (e - o) : seg[x] = bits[o + x]
  <2>1. seg = SubSeq(bits, o + 1, e) /\ o + 1 \in 1 .. Len(bits) /\ e \in 1 .. Len(bits) /\ o + 1 <= e
    BY <1>1, <1>5, <1>7 DEF N
  <2>2. Len(SubSeq(bits, o + 1, e)) = e - o /\ SubSeq(bits, o + 1, e) \in Seq(Bit)
    BY <2>1, <1>7
  <2>3. \A x \in 1 .. (e - o) : SubSeq(bits, o + 1, e)[x] = bits[o + x]
    BY <2>1, <1>7
  <2>4. QED
    BY <2>1, <2>2, <2>3
<1>9. ASSUME NEW m \in 0 .. (C - 1)
      PROVE  Chunk(seg, 3 * m + 1) = Chunk(bits, (o + 3 * m) + 1)
  <2>1. 3 * m + 3 <= b /\ m \in Nat
    BY <1>1
  <2>2. \A x \in 1 .. 3 : (IF (3 * m + 1) + x - 1 <= Len(seg) THEN seg[(3 * m + 1) + x - 1] ELSE 0)
                            = (IF ((o + 3 * m) + 1) + x - 1 <= N THEN bits[((o + 3 * m) + 1) + x - 1] ELSE 0)
    <3> TAKE x \in 1 .. 3
    <3>1. PICK y \in Nat : y = 3 * m + x
      BY <2>1
    <3>2. (3 * m + 1) + x - 1 = y /\ ((o + 3 * m) + 1) + x - 1 = o + y /\ y >= 1 /\ y <= b
      <4>1. PICK z \in Nat : z = 3 * m
        BY <2>1
      <4>2. z + 3 <= b /\ y = z + x /\ b \in Nat
        BY <1>1, <2>1, <3>1, <4>1
      <4>3. (z + 1) + x - 1 = y /\ ((o + z) + 1) + x - 1 = o + y /\ y >= 1 /\ y <= b
        BY <4>2
      <4>4. QED
        BY <4>1, <4>3
    <3>3. y <= e - o <=> o + y <= N
      BY <1>1, <1>7, <3>2
    <3>4. y <= e - o => seg[y] = bits[o + y]
      BY <1>7, <1>8, <3>2
    <3>5. QED
      BY <1>8, <3>2, <3>3, <3>4
  <2>3. QED
    BY <2>2 DEF Chunk, N
<1>10. Len(seg) \in Nat /\ Len(seg) <= b /\ Len(seg) <= N - o /\ (Len(seg) = b \/ Len(seg) = N - o)
  BY <1>1, <1>7, <1>8
<1>11. QED
  BY <1>3, <1>8, <1>9, <1>10 DEF C, b, N, seg

\* Where the circuit's loop is after m chunks of segment k + 1.
LEMMA Places ==
  ASSUME NEW k \in Nat, NEW m \in 0 .. (PEDERSEN_HASH_CHUNKS_PER_GENERATOR - 1)
  PROVE  LET n == k * SegmentBits + 3 * m
         IN  /\ n \in Nat /\ n \div SegmentBits = k /\ n % SegmentBits = 3 * m /\ (3 * m) \div 3 = m
             /\ (n = 0 <=> k = 0 /\ m = 0)
<1> DEFINE b == SegmentBits
<1>1. b \in Nat \ {0} /\ 3 * m \in 0 .. b - 1 /\ m \in Nat
  BY SegmentSize
<1> HIDE DEF b
<1>2. PICK o \in Nat : o = b * k
  <2>1. b * k \in Nat
    BY <1>1
  <2>2. QED
    BY <2>1
<1>3. k * b = o
  BY <1>1, <1>2
<1>4. PICK n \in Nat : n = o + 3 * m
  BY <1>1
<1>5. n = b * k + 3 * m
  BY <1>2, <1>4
<1>6. n \div b = k /\ n % b = 3 * m
  <2>1. PICK r \in 0 .. b - 1 : r = 3 * m
    BY <1>1
  <2>2. n = b * k + r
    BY <1>5, <2>1
  <2>3. n \div b = k /\ n % b = r
    BY <1>1, <2>2, DivisionUnique
  <2>4. QED
    BY <2>1, <2>3
<1>7. o = 0 <=> k = 0
  BY <1>1, <1>2
<1>8. (3 * m) \div 3 = m
  BY <1>1
<1>9. n = 0 <=> k = 0 /\ m = 0
  BY <1>1, <1>4, <1>7
<1>10. n = k * b + 3 * m
  BY <1>3, <1>4
<1>11. QED
  BY <1>4, <1>6, <1>8, <1>9, <1>10 DEF b

\* A full segment ends where the next begins.
LEMMA FullSegment ==
  ASSUME NEW k \in Nat
  PROVE  LET n == k * SegmentBits + 3 * PEDERSEN_HASH_CHUNKS_PER_GENERATOR
         IN  n % SegmentBits = 0 /\ n = (k + 1) * SegmentBits /\ n > 0 /\ n \in Nat
<1> DEFINE b == SegmentBits
<1>1. b \in Nat \ {0} /\ 3 * PEDERSEN_HASH_CHUNKS_PER_GENERATOR = b
  BY SegmentSize
<1> HIDE DEF b
<1>2. PICK n \in Nat : n = b * (k + 1) + 0
  <2>1. b * (k + 1) + 0 \in Nat
    BY <1>1
  <2>2. QED
    BY <2>1
<1>3. k * b + b = n /\ (k + 1) * b = n /\ n > 0
  BY <1>1, <1>2
<1>4. n % b = 0
  <2>1. k + 1 \in Nat /\ 0 \in 0 .. b - 1
    BY <1>1
  <2>2. QED
    BY <1>1, <1>2, <2>1, DivisionUnique
<1>5. QED
  BY <1>1, <1>3, <1>4 DEF b

\* The chunks of a segment that has been read.
LEMMA ChunksOfSegment ==
  ASSUME NEW bits \in Seq(Bit), NEW k \in Nat,
         NEW m \in 1 .. PEDERSEN_HASH_CHUNKS_PER_GENERATOR,
         k * SegmentBits + 3 * (m - 1) < Len(bits),
         m = PEDERSEN_HASH_CHUNKS_PER_GENERATOR \/ k * SegmentBits + 3 * m >= Len(bits)
  PROVE  (Len(SegmentOf(bits, k + 1)) + 2) \div 3 = m
<1> DEFINE b == SegmentBits
           C == PEDERSEN_HASH_CHUNKS_PER_GENERATOR
           l == Len(SegmentOf(bits, k + 1))
<1>1. C \in Nat \ {0} /\ b = 3 * C /\ m \in Nat /\ m >= 1 /\ m <= C /\ Len(bits) \in Nat /\ b \in Nat
  BY SegmentSize
<1>2. PICK o \in Nat : o = k * b
  <2> HIDE DEF b
  <2>1. k * b \in Nat
    BY <1>1
  <2>2. QED
    BY <2>1
<1>3. o + 3 * (m - 1) < Len(bits) /\ (m = C \/ o + 3 * m >= Len(bits)) /\ o < Len(bits)
  BY <1>1, <1>2
<1>4. l \in Nat /\ l <= b /\ l <= Len(bits) - o /\ (l = b \/ l = Len(bits) - o)
  BY <1>2, <1>3, SegmentParts, Zenon
<1> HIDE DEF b, C, l
<1>5. l <= 3 * m /\ l > 3 * (m - 1)
  BY <1>1, <1>3, <1>4
<1>6. (l + 2) \div 3 = m
  BY <1>1, <1>4, <1>5
<1>7. QED
  BY <1>6 DEF l

\* The segments of the bits that have been read.
LEMMA SegmentsRead ==
  ASSUME NEW bits \in Seq(Bit), NEW k \in Nat
  PROVE  /\ SegmentCount(bits) \in Nat
         /\ (k * SegmentBits < Len(bits) /\ Len(bits) <= (k + 1) * SegmentBits) => SegmentCount(bits) = k + 1
         /\ k * SegmentBits < Len(bits) => k + 1 <= SegmentCount(bits)
<1> DEFINE b == SegmentBits
           N == Len(bits)
           S == SegmentCount(bits)
           r == (N + b - 1) % b
<1>1. b \in Nat \ {0} /\ N \in Nat
  BY SegmentSize
<1>2. S = (N + b - 1) \div b
  BY DEF SegmentCount
<1>3. N + b - 1 \in Nat
  BY <1>1
<1> HIDE DEF b, N, S
<1>4. S \in Nat /\ r \in 0 .. b - 1 /\ N + b - 1 = b * S + r
  BY <1>1, <1>2, <1>3, Division
<1> HIDE DEF r
<1>5. PICK o \in Nat : o = k * b
  <2>1. k * b \in Nat
    BY <1>1
  <2>2. QED
    BY <2>1
<1>6. o < N => k + 1 <= S
  <2> SUFFICES ASSUME o < N, S <= k PROVE FALSE
    BY <1>4
  <2>1. PICK e \in Nat : k = S + e
    <3>1. k - S \in Nat /\ k = S + (k - S)
      BY <1>4
    <3>2. QED
      BY <3>1
  <2>2. o = b * S + b * e /\ b * e \in Nat
    BY <1>1, <1>4, <1>5, <2>1
  <2>3. b * S \in Nat
    BY <1>1, <1>4
  <2>4. QED
    BY <1>1, <1>4, <1>5, <2>2, <2>3
<1>7. ASSUME o < N, N <= o + b PROVE S = k + 1
  <2>1. N + b - 1 = b * (k + 1) + (N - o - 1)
    <3>1. b * (k + 1) = o + b
      BY <1>1, <1>5
    <3>2. QED
      BY <1>1, <1>5, <3>1
  <2>2. N - o - 1 \in 0 .. b - 1 /\ k + 1 \in Nat
    BY <1>1, <1>5, <1>7
  <2>3. PICK p \in Nat, t \in 0 .. b - 1, q \in Nat :
           p = N + b - 1 /\ t = N - o - 1 /\ q = k + 1
    BY <1>3, <2>2
  <2>4. p = b * q + t
    BY <2>1, <2>3
  <2>5. p \div b = q
    <3>1. b \in Nat \ {0} /\ q \in Nat /\ t \in 0 .. b - 1 /\ p \in Nat
      BY <1>1, <2>3
    <3>2. QED
      BY ONLY <3>1, <2>4, DivisionUnique
  <2>6. QED
    BY <1>2, <2>3, <2>5
<1>8. (k + 1) * b = o + b
  BY <1>1, <1>5
<1>9. QED
  BY <1>4, <1>5, <1>6, <1>7, <1>8 DEF b, N, S

\* The generators lie in the subgroup and generate it.
LEMMA Generators ==
  ASSUME NEW s \in Segments
  PROVE  InSubgroup(PEDERSEN_HASH_GENERATORS[s]) /\ PEDERSEN_HASH_GENERATORS[s] # Identity
BY PedersenAssumption DEF Segments, InSubgroup

\* Only the neutral element of the subgroup has a u-coordinate of zero.
LEMMA SubgroupU ==
  ASSUME NEW p, InSubgroup(p), p # Identity
  PROVE  p \in Points /\ p.u # 0
BY ZeroDoubles, OddOrder DEF InSubgroup

\* Weights: those of a segment's chunks stay below the order.
LEMMA WeightsFit ==
  ASSUME NEW m \in 0 .. PEDERSEN_HASH_CHUNKS_PER_GENERATOR
  PROVE  /\ Pow(16, m) \in Nat \ {0} /\ R_J \in Nat
         /\ 8 * (Pow(16, m) - 1) < 15 * R_J
<1> DEFINE C == PEDERSEN_HASH_CHUNKS_PER_GENERATOR
<1>1. C \in Nat /\ 8 * (Pow(16, C) - 1) < 15 * R_J /\ R_J \in Nat /\ 16 \in Nat \ {0}
  BY PedersenAssumption, CurveAssumption
<1>2. \A n \in Nat : Pow(16, n) \in Nat \ {0}
  BY <1>1, PowInteger, Zenon
<1>3. m \in Nat /\ m <= C
  BY <1>1
<1> HIDE DEF C
<1>4. Pow(16, m) <= Pow(16, C)
  BY <1>1, <1>3, PowGrows, Zenon
<1>5. PICK x \in Nat \ {0} : x = Pow(16, m)
  BY <1>2, <1>3
<1>6. PICK y \in Nat \ {0} : y = Pow(16, C)
  BY <1>1, <1>2
<1>7. QED
  BY <1>1, <1>4, <1>5, <1>6

\* A number of a chunk is not a multiple of the order.
LEMMA NonzeroMultiple ==
  ASSUME NEW g, InSubgroup(g), g # Identity, NEW a \in Int, a # 0, a < R_J, -a < R_J
  PROVE  /\ InSubgroup(Multiple(a, g)) /\ Multiple(a, g) \in Points
         /\ Multiple(a, g) # Identity /\ Multiple(a, g).u # 0
<1>1. InSubgroup(Multiple(a, g)) /\ Multiple(a, g) \in Points /\ Multiple(0, g) = Identity
  BY MultiplesAdd
<1>2. a - 0 < R_J /\ 0 - a < R_J /\ 0 \in Int
  OBVIOUS
<1>3. Multiple(a, g) # Multiple(0, g)
  BY <1>2, MultiplesDiffer
<1>4. QED
  BY <1>1, <1>3, SubgroupU

\* What the window table and the conditional negation give.
LEMMA WindowLookup ==
  ASSUME NEW s \in Segments, NEW m \in 0 .. (PEDERSEN_HASH_CHUNKS_PER_GENERATOR - 1),
         NEW c \in [1 .. 3 -> Bit]
  PROVE  lookup3_xy_with_conditional_negation(c, generate_pedersen_circuit_generators[s][m + 1])
           = Montgomery(Multiple(Signed(c) * Pow(16, m), PEDERSEN_HASH_GENERATORS[s]))
<1> DEFINE g == PEDERSEN_HASH_GENERATORS[s]
           C == PEDERSEN_HASH_CHUNKS_PER_GENERATOR
           t == generate_pedersen_circuit_generators[s][m + 1]
           d == c[1] + 2 * c[2] + 1
<1>1. InSubgroup(g) /\ g # Identity /\ g \in Points
  BY Generators DEF InSubgroup
<1>2. C \in Nat \ {0} /\ m + 1 \in 1 .. C /\ (m + 1) - 1 = m /\ m \in Nat /\ m + 1 \in 0 .. C
  BY PedersenAssumption
<1>3. t = [k \in 1 .. 4 |-> to_montgomery_coords(Times(k * Pow(16, m), g))[1]]
  BY <1>2 DEF generate_pedersen_circuit_generators
<1>4. /\ d \in 1 .. 4 /\ d \in Nat /\ c[3] \in {0, 1} /\ Signed(c) = (IF c[3] = 1 THEN -d ELSE d)
      /\ c[1] \in {0, 1} /\ c[2] \in {0, 1}
  <2>1. c[1] \in {0, 1} /\ c[2] \in {0, 1} /\ c[3] \in {0, 1}
    BY SignedNumbers
  <2>2. QED
    BY <2>1 DEF Signed
<1> HIDE DEF t, g, d, C
<1>5. PICK w \in Nat \ {0} : w = Pow(16, m)
  <2>1. 16 \in Nat \ {0}
    OBVIOUS
  <2>2. Pow(16, m) \in Nat \ {0}
    BY <1>2, <2>1, PowInteger, Zenon
  <2>3. QED
    BY <2>2
<1>6. PICK n \in Nat \ {0} : n = d * w /\ n < R_J
  <2>1. 8 * (Pow(16, m + 1) - 1) < 15 * R_J /\ R_J \in Nat
    BY <1>2, WeightsFit DEF C
  <2>2. Pow(16, m + 1) = 16 * Pow(16, m)
    BY <1>2, PowUnfolds, Zenon
  <2>3. 8 * (16 * w - 1) < 15 * R_J
    BY <1>5, <2>1, <2>2
  <2>4. d \in {1, 2, 3, 4}
    BY <1>4
  <2>5. d * w \in Nat \ {0} /\ d * w < R_J
    BY <2>1, <2>3, <2>4
  <2>6. QED
    BY <2>5
<1> DEFINE p == Multiple(n, g)
<1>7. p \in Points /\ p # Identity /\ p.u # 0
  <2>1. n \in Int /\ n # 0 /\ -n < R_J
    <3>1. R_J \in Nat
      BY CurveAssumption
    <3>2. QED
      BY <1>6, <3>1
  <2>2. QED
    BY <1>1, <1>6, <2>1, NonzeroMultiple
<1>8. t[d] = Montgomery(p)
  <2>1. t[d] = to_montgomery_coords(Times(n, g))[1]
    BY <1>3, <1>4, <1>5, <1>6
  <2>2. Times(n, g) = p
    BY <1>1, <1>6, MultipleOfNumber
  <2>3. QED
    BY <2>1, <2>2 DEF Montgomery
<1>9. lookup3_xy_with_conditional_negation(c, t)
        = IF c[3] = 1 THEN [t[d] EXCEPT !.y = 0 \ominus @] ELSE t[d]
  BY DEF lookup3_xy_with_conditional_negation, d
<1>10. [Montgomery(p) EXCEPT !.y = 0 \ominus @] = Montgomery(Multiple(-n, g))
  <2>1. Montgomery(Negate(p)) = [Montgomery(p) EXCEPT !.y = 0 \ominus @]
    BY <1>7, NegationIsExact, Zenon
  <2>2. Multiple(-n, g) = Negate(p)
    BY <1>1, <1>6, MultiplesAdd
  <2>3. QED
    BY <2>1, <2>2
<1> HIDE DEF p
<1>11. CASE c[3] = 1
  <2>1. Signed(c) * Pow(16, m) = -n
    <3>1. Signed(c) = -d
      BY <1>4, <1>11
    <3>2. (-d) * w = -n
      BY <1>4, <1>6
    <3>3. QED
      BY <1>5, <3>1, <3>2
  <2>2. lookup3_xy_with_conditional_negation(c, t) = [t[d] EXCEPT !.y = 0 \ominus @]
    BY <1>9, <1>11
  <2>3. QED
    BY <1>8, <1>10, <2>1, <2>2 DEF t, g
<1>12. CASE c[3] # 1
  <2>1. Signed(c) * Pow(16, m) = n
    BY <1>4, <1>5, <1>6, <1>12
  <2>2. lookup3_xy_with_conditional_negation(c, t) = t[d]
    BY <1>9, <1>12
  <2>3. QED
    BY <1>8, <2>1, <2>2 DEF t, g, p
<1>13. QED
  BY <1>11, <1>12

\* One chunk more: the addition is never met by its exceptions.
LEMMA WindowAdds ==
  ASSUME NEW g, InSubgroup(g), g # Identity, NEW w \in Nat \ {0},
         8 * (16 * w - 1) < 15 * R_J,
         NEW a \in Int, a # 0, 15 * a <= 4 * (w - 1), -(15 * a) <= 4 * (w - 1),
         NEW d \in Int, d \in 1 .. 4 \/ -d \in 1 .. 4
  PROVE  LET sum == montgomery_add(Montgomery(Multiple(d * w, g)), Montgomery(Multiple(a, g)))
         IN  sum.outputs = {Montgomery(Multiple(a + d * w, g))} /\ 0 \notin sum.denominators
<1>1. PICK n \in Int : n = d * w
  <2>1. d * w \in Int
    OBVIOUS
  <2>2. QED
    BY <2>1
<1>2. R_J \in Nat
  BY CurveAssumption
<1>3. d \in {1, 2, 3, 4, -1, -2, -3, -4}
  OBVIOUS
<1>4. /\ n # 0 /\ n < R_J /\ -n < R_J /\ a < R_J /\ -a < R_J
      /\ n # a /\ n - a < R_J /\ a - n < R_J
      /\ n # -a /\ n - (-a) < R_J /\ -a - n < R_J
      /\ a + n # 0 /\ a + n < R_J /\ -(a + n) < R_J
  BY <1>1, <1>2, <1>3
<1> DEFINE p == Multiple(n, g)
           q == Multiple(a, g)
<1>5. p \in Points /\ p # Identity /\ q \in Points /\ q # Identity
  BY <1>4, NonzeroMultiple
<1>6. p.v # q.v
  <2> SUFFICES ASSUME p.v = q.v PROVE FALSE
    OBVIOUS
  <2>1. p = q \/ p = Negate(q)
    BY <1>5, SameV
  <2>2. Negate(q) = Multiple(-a, g)
    BY MultiplesAdd
  <2>3. p # q
    BY <1>4, MultiplesDiffer
  <2>4. p # Multiple(-a, g)
    <3>1. -a \in Int
      OBVIOUS
    <3>2. QED
      BY <1>4, <3>1, MultiplesDiffer
  <2>5. QED
    BY <2>1, <2>2, <2>3, <2>4
<1>7. Plus(p, q) = Multiple(a + n, g)
  <2>1. Multiple(a + n, g) = Plus(q, p)
    BY MultiplesAdd
  <2>2. QED
    BY <1>5, <2>1, PlusCommutes
<1>8. Plus(p, q).u # 0
  <2>1. a + n \in Int
    OBVIOUS
  <2>2. Multiple(a + n, g).u # 0
    BY <1>4, <2>1, NonzeroMultiple
  <2>3. QED
    BY <1>7, <2>2
<1> HIDE DEF p, q
<1>9. /\ 0 \notin montgomery_add(Montgomery(p), Montgomery(q)).denominators
      /\ montgomery_add(Montgomery(p), Montgomery(q)).outputs = {Montgomery(Plus(p, q))}
  BY <1>5, <1>6, <1>8, ChordAdds
<1>10. QED
  BY <1>1, <1>7, <1>9 DEF p, q

\* The first m chunks of segment k + 1, as a point, and the points of the segments
\* as pedersen_hash computes them.
SegmentPoint(bits, k, m) ==
  Multiple(Partial(SegmentOf(bits, k + 1), m), PEDERSEN_HASH_GENERATORS[k + 1])

\* The points the native hash adds up.
SegmentPoints(bits) ==
  [s \in 1 .. SegmentCount(bits) |-> Exponentiate(SegmentScalar(SegmentOf(bits, s)), s)]
\* What the circuit looks up for the chunk at m of segment k + 1.
Window(bits, k, m) ==
  lookup3_xy_with_conditional_negation(
    Chunk(bits, (k * SegmentBits + 3 * m) + 1), generate_pedersen_circuit_generators[k + 1][m + 1])

\* One window of the circuit's hash adds one chunk to the sum of its segment.
LEMMA HashWindowIsExact ==
  ASSUME NEW bits \in Seq(Bit), NEW k \in Nat, k + 1 \in Segments,
         k * SegmentBits < Len(bits),
         NEW m \in 0 .. (PEDERSEN_HASH_CHUNKS_PER_GENERATOR - 1)
  PROVE  /\ m = 0 => Window(bits, k, m) = Montgomery(SegmentPoint(bits, k, m + 1))
         /\ m > 0 =>
              LET sum == montgomery_add(Window(bits, k, m), Montgomery(SegmentPoint(bits, k, m)))
              IN  /\ sum.outputs = {Montgomery(SegmentPoint(bits, k, m + 1))}
                  /\ 0 \notin sum.denominators
<1> DEFINE seg == SegmentOf(bits, k + 1)
           c == Chunk(seg, 3 * m + 1)
           g == PEDERSEN_HASH_GENERATORS[k + 1]
           C == PEDERSEN_HASH_CHUNKS_PER_GENERATOR
           w == Pow(16, m)
           a == Partial(seg, m)
           d == Signed(c)
<1>1. InSubgroup(g) /\ g # Identity
  BY Generators
<1>2. /\ seg \in Seq(Bit) /\ Chunk(seg, 3 * m + 1) = Chunk(bits, (k * SegmentBits + 3 * m) + 1)
  BY SegmentParts, Zenon
<1>3. C \in Nat \ {0} /\ m \in Nat /\ m \in 0 .. C /\ m + 1 \in 0 .. C /\ 3 * m \in Nat
  BY SegmentSize
<1>4. c \in [1 .. 3 -> Bit]
  <2> HIDE DEF seg
  <2>1. QED
    BY <1>2, <1>3, ChunkBits
<1>5. w \in Nat \ {0} /\ 8 * (Pow(16, m + 1) - 1) < 15 * R_J
  BY <1>3, WeightsFit
<1>6. Pow(16, m + 1) = 16 * w
  BY <1>3, PowUnfolds, Zenon
<1>7. 8 * (16 * w - 1) < 15 * R_J
  BY <1>5, <1>6
<1>8. a \in Int /\ 15 * a <= 4 * (w - 1) /\ -(15 * a) <= 4 * (w - 1) /\ (m > 0 => a # 0) /\ (m = 0 => a = 0)
  <2> HIDE DEF seg
  <2>1. a \in Int /\ Partial(seg, 0) = 0
    BY <1>2, <1>3, PartialGrows
  <2>2. /\ 15 * Partial(seg, m) <= 4 * (Pow(16, m) - 1) /\ -(15 * Partial(seg, m)) <= 4 * (Pow(16, m) - 1)
        /\ m > 0 => Partial(seg, m) # 0
    BY <1>2, <1>3, PartialBounds
  <2>3. QED
    BY <2>1, <2>2
<1>9. d \in Int /\ (d \in 1 .. 4 \/ -d \in 1 .. 4)
  <2> HIDE DEF c
  <2>1. QED
    BY <1>4, SignedNumbers
<1>10. Partial(seg, m + 1) = a + d * w
  <2>1. Partial(seg, m + 1) = Partial(seg, m) + Digit(seg, m + 1) * Pow(16, m)
    <3> HIDE DEF seg
    <3>1. QED
      BY <1>2, <1>3, PartialGrows
  <2>2. Digit(seg, m + 1) = d
    <3>1. 3 * (m + 1) - 2 = 3 * m + 1
      BY <1>3
    <3> HIDE DEF seg
    <3>2. QED
      BY <3>1 DEF Digit
  <2>3. QED
    BY <2>1, <2>2
<1>11. Window(bits, k, m) = Montgomery(Multiple(d * w, g))
  <2>1. Window(bits, k, m) = lookup3_xy_with_conditional_negation(c, generate_pedersen_circuit_generators[k + 1][m + 1])
    BY <1>2 DEF Window
  <2> HIDE DEF c
  <2>2. lookup3_xy_with_conditional_negation(c, generate_pedersen_circuit_generators[k + 1][m + 1])
          = Montgomery(Multiple(Signed(c) * Pow(16, m), PEDERSEN_HASH_GENERATORS[k + 1]))
    BY <1>4, WindowLookup
  <2>3. QED
    BY <2>1, <2>2
<1>12. SegmentPoint(bits, k, m) = Multiple(a, g) /\ SegmentPoint(bits, k, m + 1) = Multiple(a + d * w, g)
  BY <1>10 DEF SegmentPoint
<1> HIDE DEF seg, c, g, w, a, d
<1>13. CASE m = 0
  <2>1. a + d * w = d * w
    BY <1>5, <1>8, <1>9, <1>13
  <2>2. QED
    BY <1>11, <1>12, <1>13, <2>1
<1>14. CASE m > 0
  <2>1. LET sum == montgomery_add(Montgomery(Multiple(d * w, g)), Montgomery(Multiple(a, g)))
        IN  sum.outputs = {Montgomery(Multiple(a + d * w, g))} /\ 0 \notin sum.denominators
    BY <1>1, <1>5, <1>7, <1>8, <1>9, <1>14, WindowAdds
  <2>2. QED
    BY <1>11, <1>12, <1>14, <2>1
<1>15. QED
  BY <1>3, <1>13, <1>14

\* A point that has chunks in it has a conversion.
LEMMA SegmentPointConverts ==
  ASSUME NEW bits \in Seq(Bit), NEW k \in Nat, k + 1 \in Segments,
         k * SegmentBits < Len(bits),
         NEW m \in 1 .. PEDERSEN_HASH_CHUNKS_PER_GENERATOR
  PROVE  /\ SegmentPoint(bits, k, m) \in Points
         /\ into_edwards(Montgomery(SegmentPoint(bits, k, m))).outputs = {SegmentPoint(bits, k, m)}
         /\ 0 \notin into_edwards(Montgomery(SegmentPoint(bits, k, m))).denominators
<1> DEFINE seg == SegmentOf(bits, k + 1)
           g == PEDERSEN_HASH_GENERATORS[k + 1]
           C == PEDERSEN_HASH_CHUNKS_PER_GENERATOR
           a == Partial(seg, m)
           p == Multiple(a, g)
<1>1. InSubgroup(g) /\ g # Identity
  BY Generators
<1>2. seg \in Seq(Bit)
  BY SegmentParts, Zenon
<1>3. C \in Nat \ {0} /\ m \in Nat /\ m > 0 /\ m \in 0 .. C
  BY SegmentSize
<1>4. PICK w \in Nat \ {0} : w = Pow(16, m) /\ 8 * (w - 1) < 15 * R_J /\ R_J \in Nat
  BY <1>3, WeightsFit
<1> HIDE DEF seg
<1>5. a \in Int /\ 15 * a <= 4 * (w - 1) /\ -(15 * a) <= 4 * (w - 1) /\ a # 0
  <2>1. a \in Int
    BY <1>2, <1>3, PartialGrows
  <2>2. Bounded(a, w) /\ a # 0
    BY <1>2, <1>3, <1>4, PartialBounded
  <2>3. QED
    BY <2>1, <2>2 DEF Bounded
<1> HIDE DEF a, g
<1>6. a < R_J /\ -a < R_J
  <2>1. 8 * (w - 1) < 15 * R_J /\ R_J \in Int /\ w \in Int /\ w > 0
    BY <1>4
  <2>2. a \in Int /\ 15 * a <= 4 * (w - 1) /\ -(15 * a) <= 4 * (w - 1)
    BY <1>5
  <2>3. QED
    BY <2>1, <2>2
<1>7. p \in Points /\ p # Identity /\ p.u # 0
  BY <1>1, <1>5, <1>6, NonzeroMultiple
<1>8. SegmentPoint(bits, k, m) = p
  BY DEF SegmentPoint, a, g, seg
<1> HIDE DEF p
<1>9. QED
  BY <1>7, <1>8, ConversionIsExact

\* At the end of a segment the point is the one pedersen_hash exponentiates to.
LEMMA HashSegmentIsExact ==
  ASSUME NEW bits \in Seq(Bit), NEW k \in Nat, k + 1 \in Segments,
         k * SegmentBits < Len(bits),
         NEW m \in 1 .. PEDERSEN_HASH_CHUNKS_PER_GENERATOR,
         k * SegmentBits + 3 * (m - 1) < Len(bits),
         m = PEDERSEN_HASH_CHUNKS_PER_GENERATOR \/ k * SegmentBits + 3 * m >= Len(bits),
         PointSum(k, SegmentPoints(bits)) \in Points
  PROVE  /\ PointSum(k + 1, SegmentPoints(bits)) \in Points
         /\ k = 0 => SegmentPoint(bits, k, m) = PointSum(k + 1, SegmentPoints(bits))
         /\ add(SegmentPoint(bits, k, m), PointSum(k, SegmentPoints(bits))).outputs
              = {PointSum(k + 1, SegmentPoints(bits))}
         /\ 0 \notin add(SegmentPoint(bits, k, m), PointSum(k, SegmentPoints(bits))).denominators
<1> DEFINE seg == SegmentOf(bits, k + 1)
           g == PEDERSEN_HASH_GENERATORS[k + 1]
           p == SegmentPoint(bits, k, m)
           t == SegmentPoints(bits)
<1>1. seg \in Seq(Bit)
  BY SegmentParts, Zenon
<1>2. (Len(seg) + 2) \div 3 = m
  BY ChunksOfSegment
<1>3. SegmentScalar(seg) = Partial(seg, m) % R_J /\ Partial(seg, m) \in Int
  <2> HIDE DEF seg
  <2>1. m \in Nat
    BY SegmentSize
  <2>2. QED
    BY <1>1, <1>2, <2>1, ScalarIsPartial, PartialGrows
<1>4. SegmentScalar(seg) \in 0 .. (R_J - 1)
  <2> HIDE DEF seg
  <2>1. QED
    BY <1>3, Residues
<1>5. Exponentiate(SegmentScalar(seg), k + 1) = p
  <2>1. Exponentiate(SegmentScalar(seg), k + 1) = Times(SegmentScalar(seg), g)
    BY <1>4, ExponentiateIsExact
  <2>2. QED
    BY <1>3, <2>1 DEF SegmentPoint, Multiple
<1>6. k + 1 \in 1 .. SegmentCount(bits)
  <2>1. SegmentCount(bits) \in Nat /\ k + 1 <= SegmentCount(bits)
    BY SegmentsRead
  <2>2. QED
    BY <2>1
<1>7. t[k + 1] = p
  BY <1>5, <1>6 DEF SegmentPoints
<1>8. p \in Points
  BY SegmentPointConverts
<1>9. PointSum(k + 1, t) = Plus(PointSum(k, t), t[k + 1]) /\ PointSum(0, t) = Identity
  BY PointSumUnfolds
<1> HIDE DEF seg, p, t, g
<1>10. PointSum(k, t) \in Points
  BY DEF t
<1>11. PointSum(k + 1, t) \in Points /\ PointSum(k + 1, t) = Plus(p, PointSum(k, t))
  BY <1>7, <1>8, <1>9, <1>10, PlusCommutes, PlusOnCurve
<1>12. k = 0 => p = PointSum(k + 1, t)
  BY <1>7, <1>8, <1>9, IdentityNeutral
<1>13. add(p, PointSum(k, t)).outputs = {PointSum(k + 1, t)} /\ 0 \notin add(p, PointSum(k, t)).denominators
  BY <1>8, <1>10, <1>11, AddIsExact
<1>14. QED
  BY <1>11, <1>12, <1>13 DEF p, t

-----------------------------------------------------------------------------
(* The inductive invariant                                                  *)

(* What each gadget's state is between two steps. *)

\* mul has the next power of the base and the multiple spelled so far.
MulInv ==
  job.gadget = "mul" =>
    /\ job.input \in Points \X Seq(Bit)
    /\ status \in {"synthesizing", "done", "AssignmentMissing"}
    /\ i \in 0 .. Len(job.input[2])
    /\ curbase = IF i = 0 THEN <<>> ELSE <<Times(Pow(2, i - 1), job.input[1])>>
    /\ result = IF i = 0 THEN <<>> ELSE <<Times(Value(Prefix(job.input[2], i)), job.input[1])>>

\* The fixed-base loop has read whole windows.
FixedBaseInv ==
  job.gadget = "fixed_base" =>
    /\ job.input \in FixedInputs
    /\ status \in {"synthesizing", "done", "AssignmentMissing"}
    /\ \E j \in 0 .. FIXED_BASE_CHUNKS_PER_GENERATOR :
          /\ i = 3 * j
          /\ result = IF j = 0 THEN <<>> ELSE <<Times(Value(Prefix(job.input[2], 3 * j)), job.input[1])>>

\* The bits that are hashed.
HashBits(input) == get_bits(input[1]) \o input[2]
\* k segments and m chunks of the next one have been read.
HashAt(bits, k, m) ==
  /\ m > 0 => /\ i = k * SegmentBits + 3 * m /\ k * SegmentBits + 3 * (m - 1) < Len(bits)
              /\ k + 1 \in Segments
  /\ m = 0 => /\ i = k * SegmentBits \/ (i >= Len(bits) /\ Len(bits) <= k * SegmentBits)
              /\ k > 0 => (k - 1) * SegmentBits < Len(bits)
  /\ i \in Nat /\ k <= Len(PEDERSEN_HASH_GENERATORS)
  /\ PointSum(k, SegmentPoints(bits)) \in Points
  /\ result = IF k = 0 THEN <<>> ELSE <<PointSum(k, SegmentPoints(bits))>>
  /\ segment = IF m = 0 THEN <<>> ELSE <<Montgomery(SegmentPoint(bits, k, m))>>
  /\ (k > 0 \/ m > 0) => Asserted(job.input[1])
  /\ status \in {"synthesizing", "done", "panic"}
  /\ status = "done" => m = 0 /\ i >= Len(bits)
  /\ status = "panic" => ~Asserted(job.input[1]) \/ SegmentCount(bits) > Len(PEDERSEN_HASH_GENERATORS)

\* The circuit's hash is at one such place.
HashInv ==
  job.gadget = "pedersen_hash" =>
    /\ job.input \in HashInputs
    /\ \E k \in 0 .. SegmentCount(HashBits(job.input)) :
          \E m \in 0 .. PEDERSEN_HASH_CHUNKS_PER_GENERATOR : HashAt(HashBits(job.input), k, m)

\* The pairs of points that ecc.rs documents as exceptions.
Documented(p, q) == p.v = q.v \/ Plus(p, q) = [u |-> 0, v |-> Q - 1]
\* Outside the documented pairs the sum is the Edwards sum, and exists.
MontgomeryInv ==
  job.gadget = "montgomery" =>
    /\ job.input \in MontgomeryInputs
    /\ i \in {0, 1}
    /\ i = 0 => segment = <<Montgomery(job.input[1])>> /\ status # "done"
    /\ ~Documented(job.input[1], job.input[2]) =>
         /\ status \in {"synthesizing", "done"}
         /\ i = 1 => segment = <<Montgomery(Plus(job.input[1], job.input[2]))>>
         /\ status = "done" => result = <<Plus(job.input[1], job.input[2])>>

\* The check decides by the constraints; a group hash is on the curve.
SmallOrderInv ==
  job.gadget = "small_order" =>
    /\ job.input \in [u : Field, v : Field]
    /\ OnCurve(job.input) => Times(8 * R_J, job.input) = Identity
    /\ result = <<>> \/ (OnCurve(job.input) /\ ~IsSmallOrder(job.input))
    /\ status \in {"synthesizing", "done", "unsatisfied", "DivisionByZero"}
    /\ status = "done" => interpret(job.input) /\ assert_not_small_order(job.input)
    /\ status = "unsatisfied" => ~(interpret(job.input) /\ assert_not_small_order(job.input))
    /\ status = "DivisionByZero" => ~OnCurve(job.input) \/ IsSmallOrder(job.input)

\* What group_hash still has before it.
GroupHashInv ==
  job.gadget = "group_hash" => job.input \in GroupHashInputs /\ status \in {"synthesizing", "None"}

\* The inductive invariant: each gadget where its loop says it is.
IInv ==
  /\ job.gadget \in {"mul", "fixed_base", "pedersen_hash", "montgomery", "small_order", "group_hash"}
  /\ MulInv /\ FixedBaseInv /\ HashInv /\ MontgomeryInv /\ SmallOrderInv /\ GroupHashInv

\* A step of mul keeps it.
LEMMA MulStep ==
  ASSUME MulInv, Next, job.gadget = "mul"
  PROVE  job' = job /\ MulInv'
<1> DEFINE p == job.input[1]
           bits == job.input[2]
           N == Len(bits)
<1>1. /\ p \in Points /\ bits \in Seq(Bit) /\ i \in 0 .. N /\ N \in Nat /\ job.input \in Points \X Seq(Bit)
      /\ curbase = (IF i = 0 THEN <<>> ELSE <<Times(Pow(2, i - 1), p)>>)
      /\ result = (IF i = 0 THEN <<>> ELSE <<Times(Value(Prefix(bits, i)), p)>>)
      /\ status \in {"synthesizing", "done", "AssignmentMissing"}
  BY DEF MulInv
<1>2. Bits = bits
  BY DEF Bits
<1>3. i < N => /\ MulBases = {Times(Pow(2, i), p)}
               /\ i > 0 => 0 \notin double(curbase[1]).denominators
  <2> SUFFICES ASSUME i < N PROVE MulBases = {Times(Pow(2, i), p)} /\ (i > 0 => 0 \notin double(curbase[1]).denominators)
    OBVIOUS
  <2>1. i \in 0 .. (Len(bits) - 1)
    BY <1>1
  <2>2. /\ i = 0 => p = Times(Pow(2, 0), p)
        /\ i > 0 => /\ double(Times(Pow(2, i - 1), p)).outputs = {Times(Pow(2, i), p)}
                    /\ 0 \notin double(Times(Pow(2, i - 1), p)).denominators
    BY <1>1, <2>1, MulIsExact
  <2>3. CASE i = 0
    BY <1>1, <2>2, <2>3 DEF MulBases
  <2>4. CASE i > 0
    <3>1. curbase = <<Times(Pow(2, i - 1), p)>> /\ curbase # <<>> /\ curbase[1] = Times(Pow(2, i - 1), p)
      BY <1>1, <2>4
    <3>2. QED
      BY <2>2, <2>4, <3>1 DEF MulBases
  <2>5. QED
    BY <1>1, <2>3, <2>4
<1>4. ASSUME i < N
      PROVE  LET b == conditionally_select(Times(Pow(2, i), p), bits[i + 1])
             IN  /\ i = 0 => b = Times(Value(Prefix(bits, i + 1)), p)
                 /\ i > 0 => /\ add(result[1], b).outputs = {Times(Value(Prefix(bits, i + 1)), p)}
                             /\ 0 \notin add(result[1], b).denominators
  <2>1. i \in 0 .. (Len(bits) - 1) /\ p \in Points /\ bits \in Seq(Bit)
    BY <1>1, <1>4
  <2> HIDE DEF p, bits, N
  <2>2. i = 0 => conditionally_select(Times(Pow(2, i), p), bits[i + 1]) = Times(Value(Prefix(bits, i + 1)), p)
    BY <2>1, MulIsExact
  <2>3. add(Times(Value(Prefix(bits, i)), p), conditionally_select(Times(Pow(2, i), p), bits[i + 1])).outputs
          = {Times(Value(Prefix(bits, i + 1)), p)}
    BY <2>1, MulIsExact
  <2>4. 0 \notin add(Times(Value(Prefix(bits, i)), p),
                    conditionally_select(Times(Pow(2, i), p), bits[i + 1])).denominators
    BY <2>1, MulIsExact
  <2>5. i > 0 => result[1] = Times(Value(Prefix(bits, i)), p)
    BY <1>1
  <2>6. QED
    BY <2>2, <2>3, <2>4, <2>5
<1> HIDE DEF N
<1>5. CASE MulBit
  <2>1. i < N /\ i' = i + 1 /\ job' = job /\ status' = status
    BY <1>2, <1>5 DEF MulBit, N
  <2>2. PICK b \in MulBases :
          \E r \in (IF result = <<>> THEN {conditionally_select(b, Bits[i + 1])}
                    ELSE add(result[1], conditionally_select(b, Bits[i + 1])).outputs) :
             curbase' = <<b>> /\ result' = <<r>>
    BY <1>5 DEF MulBit
  <2>3. b = Times(Pow(2, i), p)
    BY <1>3, <2>1, <2>2
  <2>4. curbase' = <<b>> /\ result' = <<Times(Value(Prefix(bits, i + 1)), p)>>
    BY <1>1, <1>2, <1>4, <2>1, <2>2, <2>3
  <2>5. i' \in 0 .. N /\ i' # 0 /\ i' - 1 = i
    BY <1>1, <2>1
  <2>6. QED
    BY <1>1, <2>1, <2>3, <2>4, <2>5 DEF MulInv, N
<1>6. CASE MulReturns
  BY <1>6 DEF MulReturns, MulInv, Return
<1>7. CASE WitnessFails
  <2>1. i \in 1 .. (N - 1) /\ \E g \in {double(curbase[1])}
                \cup {add(result[1], conditionally_select(b, Bits[i + 1])) : b \in MulBases} : 0 \in g.denominators
    BY <1>2, <1>7 DEF WitnessFails, MulGadgets, FixedBaseGadgets, HashGadgets, SmallOrderGadgets,
       MontgomeryGadgets, N
  <2>2. i < N /\ i > 0
    BY <1>1, <2>1
  <2>3. QED
    BY <1>2, <1>3, <1>4, <2>1, <2>2
<1>8. QED
  BY <1>5, <1>6, <1>7 DEF Next, Running, FixedBaseChunk, FixedBaseReturns, HashPanics,
     HashWindow,
     HashSegment, HashReturns, MontgomeryAdds, MontgomeryConverts, SmallOrderCheck, GroupHash, Unsatisfiable

\* A step of the fixed-base loop keeps it.
LEMMA FixedBaseStep ==
  ASSUME FixedBaseInv, Next, job.gadget = "fixed_base"
  PROVE  job' = job /\ FixedBaseInv'
<1> DEFINE p == job.input[1]
           bits == job.input[2]
           C == FIXED_BASE_CHUNKS_PER_GENERATOR
<1>1. job.input \in FixedInputs /\ p \in Points /\ bits \in Seq(Bit) /\ C \in Nat
      /\ status \in {"synthesizing", "done", "AssignmentMissing"}
  BY InputAssumption, ChunksAssumption DEF FixedBaseInv
<1>2. PICK j \in 0 .. C :
        i = 3 * j /\ result = IF j = 0 THEN <<>> ELSE <<Times(Value(Prefix(bits, 3 * j)), p)>>
  BY DEF FixedBaseInv
<1>3. Bits = bits
  BY DEF Bits
<1>4. CASE FixedBaseChunk
  <2> DEFINE e == lookup3_xy(Chunk(bits, 3 * j + 1), generate_circuit_generator(p)[j + 1])
  <2>1. i \div 3 = j /\ j < C /\ i' = 3 * (j + 1) /\ job' = job /\ status' = status /\ j + 1 \in 0 .. C
    <3>1. i' = i + 3 /\ job' = job /\ status' = status /\ ~(i \div 3 >= C)
      BY <1>4 DEF FixedBaseChunk, FixedBaseEnd
    <3>2. j \in Nat /\ (3 * j) \div 3 = j /\ 3 * (j + 1) = 3 * j + 3
      BY <1>1
    <3>3. i \div 3 = j
      BY <1>2, <3>2
    <3> HIDE DEF C
    <3>4. j < C /\ j + 1 \in 0 .. C
      BY <1>1, <3>1, <3>2, <3>3
    <3>5. QED
      BY <1>2, <3>1, <3>2, <3>3, <3>4
  <2>2. PICK r \in (IF result = <<>> THEN {e} ELSE add(result[1], e).outputs) : result' = <<r>>
    <3>1. FIXED_BASE_WINDOWS[p] = generate_circuit_generator(p)
      <4>1. p \in {input[1] : input \in FixedInputs}
        BY <1>1
      <4>2. QED
        BY <4>1 DEF FIXED_BASE_WINDOWS
    <3>2. FixedBaseEntry = e
      BY <1>2, <1>3, <2>1, <3>1 DEF FixedBaseEntry
    <3> HIDE DEF e
    <3>3. QED
      BY <1>4, <3>2 DEF FixedBaseChunk
  <2>3. /\ j = 0 => e = Times(Value(Prefix(bits, 3)), p)
        /\ add(Times(Value(Prefix(bits, 3 * j)), p), e).outputs = {Times(Value(Prefix(bits, 3 * j + 3)), p)}
    <3>1. j \in Nat
      BY <1>1
    <3>2. QED
      BY <1>1, <2>1, <3>1, FixedBaseIsExact
  <2>4. 3 * j + 3 = 3 * (j + 1) /\ (j = 0 => 3 = 3 * (j + 1)) /\ j + 1 # 0
    BY <1>1
  <2> HIDE DEF e, p, bits
  <2>5. result' = <<Times(Value(Prefix(bits, 3 * (j + 1))), p)>>
    <3>1. CASE j = 0
      <4>1. r = e /\ e = Times(Value(Prefix(bits, 3 * (j + 1))), p)
        BY <1>2, <2>2, <2>3, <2>4, <3>1
      <4>2. QED
        BY <2>2, <4>1
    <3>2. CASE j # 0
      <4>1. result # <<>> /\ result[1] = Times(Value(Prefix(bits, 3 * j)), p)
        BY <1>2, <3>2
      <4>2. r \in {Times(Value(Prefix(bits, 3 * (j + 1))), p)}
        BY <2>2, <2>3, <2>4, <4>1
      <4>3. QED
        BY <2>2, <4>2
    <3>3. QED
      BY <3>1, <3>2
  <2>6. QED
    BY <1>1, <2>1, <2>4, <2>5 DEF FixedBaseInv, p, bits
<1>5. CASE FixedBaseReturns
  BY <1>5 DEF FixedBaseReturns, FixedBaseInv, Return
<1>6. CASE WitnessFails
  <2> DEFINE e == lookup3_xy(Chunk(bits, 3 * j + 1), generate_circuit_generator(p)[j + 1])
  <2>1. /\ ~FixedBaseEnd /\ result # <<>> /\ 0 \in add(result[1], FixedBaseEntry).denominators
    BY <1>6 DEF WitnessFails, MulGadgets, FixedBaseGadgets, HashGadgets, SmallOrderGadgets, MontgomeryGadgets
  <2>2. j \in Nat /\ j < C /\ i \div 3 = j
    <3>1. j \in Nat /\ (3 * j) \div 3 = j
      BY <1>1
    <3>2. ~(i \div 3 >= C)
      BY <2>1 DEF FixedBaseEnd
    <3> HIDE DEF C
    <3>3. QED
      BY <1>1, <1>2, <3>1, <3>2
  <2>3. FixedBaseEntry = e
    <3>1. p \in {input[1] : input \in FixedInputs}
      BY <1>1
    <3>2. FIXED_BASE_WINDOWS[p] = generate_circuit_generator(p)
      BY <3>1 DEF FIXED_BASE_WINDOWS
    <3>3. QED
      BY <1>2, <1>3, <2>2, <3>2 DEF FixedBaseEntry
  <2>4. 0 \notin add(Times(Value(Prefix(bits, 3 * j)), p), e).denominators
    BY <1>1, <2>2, FixedBaseIsExact
  <2> HIDE DEF e, p, bits
  <2>5. result[1] = Times(Value(Prefix(bits, 3 * j)), p)
    BY <1>2, <2>1
  <2>6. QED
    BY <2>1, <2>3, <2>4, <2>5
<1>7. QED
  BY <1>4, <1>5, <1>6 DEF Next, Running, MulBit, MulReturns, HashPanics, HashWindow,
     HashSegment, HashReturns, MontgomeryAdds, MontgomeryConverts, SmallOrderCheck, GroupHash, Unsatisfiable

\* A personalization is six bits.
LEMMA PersonalizationBits ==
  ASSUME NEW person \in Personalizations
  PROVE  get_bits(person) \in Seq(Bit) /\ Len(get_bits(person)) = 6
<1>1. PERSONALIZATION_BITS = 6 /\ 6 \in Nat
  BY DEF PERSONALIZATION_BITS
<1>2. get_bits(person) \in [1 .. 6 -> Bit]
  <2>1. CASE person[1] = "NoteCommitment"
    <3>1. get_bits(person) = [n \in 1 .. 6 |-> 1]
      BY <1>1, <2>1 DEF get_bits
    <3>2. QED
      BY <3>1 DEF Bit
  <2>2. CASE person[1] # "NoteCommitment"
    <3>1. person[2] \in Nat
      BY <2>2 DEF Personalizations
    <3>2. get_bits(person) = [n \in 1 .. 6 |-> (person[2] \div (2 ^ (n - 1))) % 2]
      BY <1>1, <2>2 DEF get_bits, BitsLE
    <3>3. \A n \in 1 .. 6 : (person[2] \div (2 ^ (n - 1))) % 2 \in Bit
      <4> TAKE n \in 1 .. 6
      <4>1. n - 1 \in Nat
        OBVIOUS
      <4>2. PICK y \in Nat \ {0} : y = 2 ^ (n - 1)
        BY <4>1, PowersPositive
      <4>3. person[2] \div y \in Nat
        BY <3>1, Division
      <4>4. \A z \in Nat : z % 2 \in {0, 1}
        OBVIOUS
      <4>5. QED
        BY <4>2, <4>3, <4>4 DEF Bit
    <3>4. QED
      BY <3>2, <3>3, Zenon
  <2>3. QED
    BY <2>1, <2>2
<1>3. get_bits(person) \in Seq(Bit)
  BY <1>1, <1>2, IsASeq
<1>4. QED
  BY <1>2, <1>3

\* The bits that are hashed are bits, at least six.
LEMMA HashBitsType ==
  ASSUME NEW input \in HashInputs
  PROVE  /\ input[1] \in Personalizations /\ input[2] \in Seq(Bit)
         /\ HashBits(input) \in Seq(Bit) /\ Len(HashBits(input)) \in Nat
         /\ Len(HashBits(input)) = 6 + Len(input[2]) /\ Len(HashBits(input)) > 0
<1>1. input[1] \in Personalizations /\ input[2] \in Seq(Bit)
  BY InputAssumption
<1>2. get_bits(input[1]) \in Seq(Bit) /\ Len(get_bits(input[1])) = 6
  BY <1>1, PersonalizationBits
<1>3. HashBits(input) = get_bits(input[1]) \o input[2]
  BY DEF HashBits
<1>4. \A s, t \in Seq(Bit) : s \o t \in Seq(Bit) /\ Len(s \o t) = Len(s) + Len(t) /\ Len(s \o t) \in Nat /\ Len(t) \in Nat
  OBVIOUS
<1>5. /\ get_bits(input[1]) \o input[2] \in Seq(Bit)
      /\ Len(get_bits(input[1]) \o input[2]) = Len(get_bits(input[1])) + Len(input[2])
      /\ Len(input[2]) \in Nat
  BY <1>1, <1>2, <1>4
<1>6. QED
  BY <1>1, <1>2, <1>3, <1>5

\* What the circuit's loop knows of its place.
LEMMA HashPlace ==
  ASSUME NEW input \in HashInputs, NEW k \in Nat,
         NEW m \in 0 .. PEDERSEN_HASH_CHUNKS_PER_GENERATOR,
         HashAt(HashBits(input), k, m)
  PROVE  /\ (i < Len(HashBits(input)) /\ m = 0) => i = k * SegmentBits + 3 * m
         /\ i < Len(HashBits(input)) => k * SegmentBits < Len(HashBits(input))
         /\ m > 0 => k * SegmentBits < Len(HashBits(input)) /\ k + 1 \in Segments
         /\ (i = k * SegmentBits + 3 * m /\ m < PEDERSEN_HASH_CHUNKS_PER_GENERATOR) =>
              /\ SegmentIndex = k + 1 /\ (i % SegmentBits) \div 3 + 1 = m + 1
              /\ i % SegmentBits = 3 * m
         /\ (i = k * SegmentBits + 3 * m /\ m = PEDERSEN_HASH_CHUNKS_PER_GENERATOR) => i % SegmentBits = 0
         /\ m > 0 => i > 0
         /\ (m = 0 /\ i >= Len(HashBits(input))) => k > 0 /\ k = SegmentCount(HashBits(input))
<1> DEFINE bits == HashBits(input)
           N == Len(bits)
           b == SegmentBits
           C == PEDERSEN_HASH_CHUNKS_PER_GENERATOR
<1>1. bits \in Seq(Bit) /\ N \in Nat /\ N > 0
  BY HashBitsType
<1>2. b \in Nat \ {0} /\ C \in Nat \ {0} /\ b = 3 * C
  BY SegmentSize
<1>3. /\ m > 0 => i = k * b + 3 * m /\ k * b + 3 * (m - 1) < N /\ k + 1 \in Segments
      /\ m = 0 => /\ i = k * b \/ (i >= N /\ N <= k * b)
                  /\ k > 0 => (k - 1) * b < N
      /\ i \in Nat
  BY DEF HashAt
<1>4. ASSUME i = k * b + 3 * m, m < C
      PROVE  SegmentIndex = k + 1 /\ (i % b) \div 3 + 1 = m + 1 /\ i % b = 3 * m
  <2>1. m \in 0 .. (C - 1)
    BY <1>2, <1>4
  <2>2. /\ (k * b + 3 * m) \div b = k /\ (k * b + 3 * m) % b = 3 * m /\ (3 * m) \div 3 = m
    BY <2>1, Places, Zenon
  <2> HIDE DEF b
  <2>3. QED
    BY <1>4, <2>2 DEF SegmentIndex, b
<1>5. ASSUME i = k * b + 3 * m, m = C PROVE i % b = 0
  <2>1. (k * b + 3 * C) % b = 0
    BY FullSegment, Zenon
  <2>2. QED
    BY <1>4, <1>5, <2>1
<1>6. ASSUME m = 0, i >= N PROVE k > 0 /\ k = SegmentCount(bits)
  <2> HIDE DEF b, N, bits
  <2>1. N <= k * b
    BY <1>3, <1>6
  <2>2. k > 0
    BY <1>1, <1>2, <2>1
  <2>3. PICK l \in Nat : k = l + 1
    <3>1. k - 1 \in Nat /\ k = (k - 1) + 1
      BY <2>2
    <3>2. QED
      BY <3>1
  <2>4. k - 1 = l
    BY <2>3
  <2>5. l * b < N /\ N <= (l + 1) * b
    BY <1>3, <1>6, <2>1, <2>2, <2>3, <2>4
  <2>6. SegmentCount(bits) = l + 1
    BY <1>1, <2>5, SegmentsRead DEF b, N
  <2>7. QED
    BY <2>2, <2>3, <2>6
<1> HIDE DEF bits, N, b, C
<1>7. PICK o \in Nat : o = k * b
  <2>1. k * b \in Nat
    BY <1>2
  <2>2. QED
    BY <2>1
<1>8. m \in 0 .. C /\ m \in Nat
  BY <1>2 DEF C
<1>9. /\ (i < N /\ m = 0) => i = o + 3 * m
      /\ i < N => o < N
      /\ m > 0 => o < N /\ i > 0
  BY <1>1, <1>2, <1>3, <1>7, <1>8
<1>10. QED
  BY <1>3, <1>4, <1>5, <1>6, <1>7, <1>9 DEF bits, N, b, C

\* A step of the circuit's hash keeps it.
LEMMA HashStep ==
  ASSUME HashInv, Next, job.gadget = "pedersen_hash"
  PROVE  job' = job /\ HashInv'
<1> DEFINE bits == HashBits(job.input)
           N == Len(bits)
           b == SegmentBits
           C == PEDERSEN_HASH_CHUNKS_PER_GENERATOR
           S == SegmentCount(bits)
           Sum(k) == PointSum(k, SegmentPoints(bits))
           At(k, m) == HashAt(bits, k, m)
<1>1. job.input \in HashInputs /\ bits \in Seq(Bit) /\ N \in Nat /\ N > 0 /\ S \in Nat
  <2>1. job.input \in HashInputs
    BY DEF HashInv
  <2>2. bits \in Seq(Bit) /\ N \in Nat /\ N > 0
    BY <2>1, HashBitsType
  <2>3. 0 \in Nat
    OBVIOUS
  <2> HIDE DEF bits
  <2>4. S \in Nat
    BY <2>2, <2>3, SegmentsRead
  <2>5. QED
    BY <2>1, <2>2, <2>4
<1>2. b \in Nat \ {0} /\ C \in Nat \ {0} /\ b = 3 * C
  BY SegmentSize
<1>3. PICK k \in 0 .. S, m \in 0 .. C : At(k, m)
  BY DEF HashInv
<1>4. /\ m > 0 => /\ i = k * b + 3 * m /\ k * b + 3 * (m - 1) < N /\ k + 1 \in Segments
      /\ m = 0 => /\ i = k * b \/ (i >= N /\ N <= k * b)
                  /\ k > 0 => (k - 1) * b < N
      /\ i \in Nat /\ k <= Len(PEDERSEN_HASH_GENERATORS)
      /\ Sum(k) \in Points
      /\ result = IF k = 0 THEN <<>> ELSE <<Sum(k)>>
      /\ segment = IF m = 0 THEN <<>> ELSE <<Montgomery(SegmentPoint(bits, k, m))>>
      /\ (k > 0 \/ m > 0) => Asserted(job.input[1])
      /\ status \in {"synthesizing", "done", "panic"}
      /\ status = "done" => m = 0 /\ i >= N
      /\ status = "panic" => ~Asserted(job.input[1]) \/ S > Len(PEDERSEN_HASH_GENERATORS)
  BY <1>3 DEF HashAt
<1>5. k \in Nat /\ m \in Nat
  BY <1>1, <1>2
<1>6. /\ (i < N /\ m = 0) => i = k * b + 3 * m
      /\ i < N => k * b < N
      /\ m > 0 => k * b < N /\ k + 1 \in Segments
      /\ (i = k * b + 3 * m /\ m < C) => /\ SegmentIndex = k + 1 /\ (i % b) \div 3 + 1 = m + 1
                                         /\ i % b = 3 * m
      /\ (i = k * b + 3 * m /\ m = C) => i % b = 0
      /\ m > 0 => i > 0
      /\ (m = 0 /\ i >= N) => k > 0 /\ k = S
  BY <1>1, <1>3, <1>5, HashPlace
<1>7. Bits = bits
  BY DEF Bits, HashBits
<1>8. \A x \in 0 .. S, y \in 0 .. C : (job' = job /\ HashAt(bits, x, y)') => HashInv'
  BY <1>1 DEF HashInv
<1>9. k * b < N => k + 1 <= S
  <2> HIDE DEF bits
  <2>1. QED
    BY <1>1, <1>5, SegmentsRead
<1>10. Segments = 1 .. Len(PEDERSEN_HASH_GENERATORS) /\ Len(PEDERSEN_HASH_GENERATORS) \in Nat
  BY PedersenAssumption DEF Segments
<1> HIDE DEF bits, N, b, C, S, Sum, At
<1>11. CASE HashPanics
  <2>1. job' = job /\ i' = i /\ result' = result /\ segment' = segment /\ status' = "panic" /\ segment = <<>>
        /\ (~Asserted(job.input[1]) \/ (i < N /\ SegmentIndex \notin Segments))
    BY <1>7, <1>11 DEF HashPanics, N
  <2>2. m = 0
    BY <1>4, <2>1
  <2>3. ~Asserted(job.input[1]) \/ S > Len(PEDERSEN_HASH_GENERATORS)
    <3> SUFFICES ASSUME i < N, SegmentIndex \notin Segments PROVE S > Len(PEDERSEN_HASH_GENERATORS)
      BY <2>1
    <3>1. SegmentIndex = k + 1 /\ k * b < N
      BY <1>2, <1>6, <2>2
    <3>2. QED
      BY <1>1, <1>5, <1>9, <1>10, <3>1
  <2>4. HashAt(bits, k, m)'
    BY <1>4, <2>1, <2>2, <2>3 DEF HashAt, N, b, S, Sum, bits
  <2>5. QED
    BY <1>8, <2>1, <2>4
<1>12. CASE HashWindow
  <2>1. job' = job /\ i' = i + 3 /\ result' = result /\ status' = status /\ status = "synthesizing"
        /\ Asserted(job.input[1]) /\ i < N /\ (segment = <<>> \/ ~SegmentEnds) /\ SegmentIndex \in Segments
    BY <1>7, <1>12 DEF HashWindow, N, Running
  <2>2. m < C /\ i = k * b + 3 * m
    <3>1. CASE m = 0
      BY <1>2, <1>6, <2>1, <3>1
    <3>2. CASE m > 0
      <4>1. segment # <<>>
        BY <1>4, <3>2
      <4>2. ~(i % b = 0)
        BY <1>6, <2>1, <3>2, <4>1 DEF SegmentEnds, b
      <4>3. QED
        BY <1>2, <1>3, <1>4, <1>5, <1>6, <3>2, <4>2
    <3>3. QED
      BY <1>5, <3>1, <3>2
  <2>3. SegmentIndex = k + 1 /\ (i % b) \div 3 + 1 = m + 1 /\ k + 1 \in Segments /\ k * b < N
    BY <1>6, <2>1, <2>2
  <2>4. m \in 0 .. (C - 1) /\ m + 1 \in 0 .. C
    BY <1>2, <1>5, <2>2
  <2>5. /\ m = 0 => Window(bits, k, m) = Montgomery(SegmentPoint(bits, k, m + 1))
        /\ m > 0 => montgomery_add(Window(bits, k, m), Montgomery(SegmentPoint(bits, k, m))).outputs
                      = {Montgomery(SegmentPoint(bits, k, m + 1))}
    BY <1>1, <1>5, <2>3, <2>4, HashWindowIsExact DEF N, b, C
  <2>6. PICK s \in (IF segment = <<>> THEN {Window(bits, k, m)}
                    ELSE montgomery_add(Window(bits, k, m), segment[1]).outputs) : segment' = <<s>>
    <3>1. HashEntry = Window(bits, k, m)
      BY <1>7, <2>2, <2>3 DEF HashEntry, Window, PEDERSEN_CIRCUIT_GENERATORS, b
    <3>2. QED
      BY <1>12, <3>1 DEF HashWindow
  <2>7. segment' = <<Montgomery(SegmentPoint(bits, k, m + 1))>>
    <3>1. CASE m = 0
      BY <1>4, <2>5, <2>6, <3>1
    <3>2. CASE m > 0
      <4>1. segment # <<>> /\ segment[1] = Montgomery(SegmentPoint(bits, k, m))
        BY <1>4, <3>2
      <4>2. QED
        BY <2>5, <2>6, <3>2, <4>1
    <3>3. QED
      BY <1>5, <3>1, <3>2
  <2>8. i' = k * b + 3 * (m + 1) /\ k * b + 3 * ((m + 1) - 1) < N /\ m + 1 > 0 /\ m + 1 # 0 /\ i' \in Nat
    <3>1. PICK o \in Nat : o = k * b
      <4>1. k * b \in Nat
        BY <1>2, <1>5
      <4>2. QED
        BY <4>1
    <3>2. QED
      BY <1>5, <2>1, <2>2, <3>1
  <2>9. HashAt(bits, k, m + 1)'
    <3>1. status' = "synthesizing"
      BY <2>1
    <3>2. QED
      BY <1>4, <2>1, <2>3, <2>7, <2>8, <3>1 DEF HashAt, N, b, Sum, bits
  <2>10. QED
    BY <1>8, <2>1, <2>4, <2>9
<1>13. CASE HashSegment
  <2>1. job' = job /\ i' = i /\ status' = status /\ status = "synthesizing" /\ segment # <<>> /\ segment' = <<>>
        /\ (i >= N \/ i % b = 0)
    BY <1>7, <1>13 DEF HashSegment, N, b, Running, SegmentEnds
  <2>2. m > 0 /\ m \in 1 .. C /\ i = k * b + 3 * m /\ k * b + 3 * (m - 1) < N /\ k + 1 \in Segments /\ k * b < N
    BY <1>2, <1>4, <1>5, <1>6, <2>1
  <2>3. m = C \/ k * b + 3 * m >= N
    <3> SUFFICES ASSUME m # C PROVE i >= N
      BY <2>2
    <3>1. m < C /\ i % b # 0
      BY <1>2, <1>5, <1>6, <2>2
    <3>2. QED
      BY <2>1, <3>1
  <2>4. segment[1] = Montgomery(SegmentPoint(bits, k, m))
    BY <1>4, <2>2
  <2>5. into_edwards(segment[1]).outputs = {SegmentPoint(bits, k, m)}
    BY <1>1, <1>5, <2>2, <2>4, SegmentPointConverts DEF N, b, C
  <2>6. /\ Sum(k + 1) \in Points
        /\ k = 0 => SegmentPoint(bits, k, m) = Sum(k + 1)
        /\ add(SegmentPoint(bits, k, m), Sum(k)).outputs = {Sum(k + 1)}
    BY <1>1, <1>4, <1>5, <2>2, <2>3, HashSegmentIsExact DEF N, b, C, Sum
  <2>7. PICK e \in into_edwards(segment[1]).outputs :
          \E r \in (IF result = <<>> THEN {e} ELSE add(e, result[1]).outputs) : result' = <<r>>
    BY <1>13 DEF HashSegment
  <2>8. result' = <<Sum(k + 1)>>
    <3>1. e = SegmentPoint(bits, k, m)
      BY <2>5, <2>7
    <3>2. CASE k = 0
      BY <1>4, <2>6, <2>7, <3>1, <3>2
    <3>3. CASE k # 0
      <4>1. result # <<>> /\ result[1] = Sum(k)
        BY <1>4, <3>3
      <4>2. QED
        BY <2>6, <2>7, <3>1, <4>1
    <3>4. QED
      BY <3>2, <3>3
  <2>9. /\ i' = (k + 1) * b \/ (i' >= N /\ N <= (k + 1) * b)
        /\ ((k + 1) - 1) * b < N /\ k + 1 > 0 /\ k + 1 # 0
    <3>1. PICK o \in Nat : o = k * b
      <4>1. k * b \in Nat
        BY <1>2, <1>5
      <4>2. QED
        BY <4>1
    <3>2. (k + 1) * b = o + b /\ (k + 1) - 1 = k
      BY <1>2, <1>5, <3>1
    <3>3. QED
      BY <1>1, <1>2, <1>5, <2>1, <2>2, <2>3, <3>1, <3>2
  <2>10. k + 1 <= Len(PEDERSEN_HASH_GENERATORS) /\ k + 1 \in 0 .. S /\ 0 \in 0 .. C
    BY <1>1, <1>2, <1>5, <1>9, <1>10, <2>2
  <2>11. Asserted(job.input[1]) /\ status' = "synthesizing" /\ i' \in Nat
    BY <1>4, <2>1, <2>2
  <2>12. HashAt(bits, k + 1, 0)'
    BY <2>1, <2>6, <2>8, <2>9, <2>10, <2>11 DEF HashAt, N, b, Sum, bits
  <2>13. QED
    BY <1>8, <2>1, <2>10, <2>12
<1>14. CASE HashReturns
  <2>1. job' = job /\ i' = i /\ result' = result /\ segment' = segment /\ i >= N /\ segment = <<>>
        /\ status' = (IF result = <<>> THEN "AssignmentMissing" ELSE "done")
    BY <1>7, <1>14 DEF HashReturns, N, Return
  <2>2. m = 0
    BY <1>4, <2>1
  <2>3. status' = "done"
    BY <1>4, <1>6, <2>1, <2>2
  <2>4. HashAt(bits, k, m)'
    BY <1>4, <2>1, <2>2, <2>3 DEF HashAt, N, b, S, Sum, bits
  <2>5. QED
    BY <1>8, <2>1, <2>4
<1>15. CASE WitnessFails
  <2>1. PICK g \in HashGadgets : 0 \in g.denominators
    BY <1>15 DEF WitnessFails, MulGadgets, FixedBaseGadgets, SmallOrderGadgets, MontgomeryGadgets
  <2>2. segment # <<>>
    BY <2>1 DEF HashGadgets
  <2>3. m > 0 /\ m \in 1 .. C /\ i = k * b + 3 * m /\ k * b + 3 * (m - 1) < N /\ k + 1 \in Segments /\ k * b < N
        /\ segment[1] = Montgomery(SegmentPoint(bits, k, m))
    BY <1>2, <1>4, <1>5, <1>6, <2>2
  <2>4. CASE SegmentEnds
    <3>1. /\ into_edwards(segment[1]).outputs = {SegmentPoint(bits, k, m)}
          /\ 0 \notin into_edwards(segment[1]).denominators
      BY <1>1, <1>5, <2>3, SegmentPointConverts DEF N, b, C
    <3>2. \/ g = into_edwards(segment[1])
          \/ k # 0 /\ g = add(SegmentPoint(bits, k, m), Sum(k))
      <4>1. \/ g = into_edwards(segment[1])
            \/ \E e \in into_edwards(segment[1]).outputs : \E n \in DOMAIN result : g = add(e, result[n])
        BY <1>15, <2>1, <2>2, <2>4 DEF HashGadgets
      <4>2. ASSUME NEW n \in DOMAIN result PROVE k # 0 /\ result[n] = Sum(k)
        BY <1>4, <4>2
      <4>3. QED
        BY <3>1, <4>1, <4>2
    <3>3. m = C \/ k * b + 3 * m >= N
      <4> SUFFICES ASSUME m # C PROVE i >= N
        BY <2>3
      <4>1. m < C /\ i % b # 0
        BY <1>2, <1>5, <1>6, <2>3
      <4>2. QED
        BY <1>7, <2>4, <4>1 DEF SegmentEnds, N, b
    <3>4. 0 \notin add(SegmentPoint(bits, k, m), Sum(k)).denominators
      BY <1>1, <1>4, <1>5, <2>3, <3>3, HashSegmentIsExact DEF N, b, C, Sum
    <3>5. QED
      BY <2>1, <3>1, <3>2, <3>4
  <2>5. CASE ~SegmentEnds
    <3>1. m < C
      <4>1. i % b # 0
        BY <1>6, <2>3, <2>5 DEF SegmentEnds, b
      <4>2. QED
        BY <1>2, <1>5, <1>6, <2>3, <4>1
    <3>2. SegmentIndex = k + 1 /\ (i % b) \div 3 + 1 = m + 1
      BY <1>6, <2>3, <3>1
    <3>3. HashEntry = Window(bits, k, m)
      BY <1>7, <2>3, <3>2 DEF HashEntry, Window, PEDERSEN_CIRCUIT_GENERATORS, b
    <3>4. g = montgomery_add(Window(bits, k, m), segment[1])
      BY <2>1, <2>2, <2>5, <3>3 DEF HashGadgets
    <3>5. m \in 0 .. (C - 1)
      BY <1>2, <1>5, <3>1
    <3>6. 0 \notin montgomery_add(Window(bits, k, m), Montgomery(SegmentPoint(bits, k, m))).denominators
      BY <1>1, <1>5, <2>3, <3>5, HashWindowIsExact DEF N, b, C
    <3>7. QED
      BY <2>1, <2>3, <3>4, <3>6
  <2>6. QED
    BY <2>4, <2>5
<1>16. QED
  BY <1>11, <1>12, <1>13, <1>14, <1>15 DEF Next, Running, MulBit, MulReturns,
     FixedBaseChunk,
     FixedBaseReturns, MontgomeryAdds, MontgomeryConverts, SmallOrderCheck, GroupHash, Unsatisfiable

\* The sum of two points in Montgomery form and its conversion are determined
\* and right, and divide by nothing that is zero, for every pair of points but
\* those that ecc.rs documents.
THEOREM MontgomeryIsExact ==
  ASSUME NEW p \in Points, NEW q \in Points, p # Identity, q # Identity,
         ~Documented(p, q)
  PROVE  /\ montgomery_add(Montgomery(p), Montgomery(q)).outputs = {Montgomery(Plus(p, q))}
         /\ 0 \notin montgomery_add(Montgomery(p), Montgomery(q)).denominators
         /\ into_edwards(Montgomery(Plus(p, q))).outputs = {Plus(p, q)}
         /\ 0 \notin into_edwards(Montgomery(Plus(p, q))).denominators
<1> DEFINE s == Plus(p, q)
<1>1. p.v # q.v /\ s # [u |-> 0, v |-> Q - 1]
  BY DEF Documented
<1>2. s \in Points /\ s # Identity
  BY <1>1, PlusOnCurve, ChordAdds
<1>3. Identity \in Points /\ Plus(s, Identity) = s /\ Identity.u = 0
  <2>1. Identity \in Points /\ \A r \in Points : Plus(r, Identity) = r
    BY IdentityNeutral
  <2> HIDE DEF s
  <2>2. QED
    BY <1>2, <2>1 DEF Identity
<1> HIDE DEF s
<1>4. s.u # 0
  <2> SUFFICES ASSUME s.u = 0 PROVE FALSE
    OBVIOUS
  <2>1. s = Identity \/ Plus(s, Identity) = [u |-> 0, v |-> Q - 1]
    BY <1>2, <1>3, SameU
  <2>2. QED
    BY <1>1, <1>2, <1>3, <2>1
<1>5. /\ montgomery_add(Montgomery(p), Montgomery(q)).outputs = {Montgomery(s)}
      /\ 0 \notin montgomery_add(Montgomery(p), Montgomery(q)).denominators
  BY <1>1, <1>4, ChordAdds DEF s
<1>6. into_edwards(Montgomery(s)).outputs = {s} /\ 0 \notin into_edwards(Montgomery(s)).denominators
  BY <1>2, <1>4, ConversionIsExact
<1>7. QED
  BY <1>5, <1>6 DEF s

\* A step on Montgomery points keeps it.
LEMMA MontgomeryStep ==
  ASSUME MontgomeryInv, Next, job.gadget = "montgomery"
  PROVE  job' = job /\ MontgomeryInv'
<1> DEFINE p == job.input[1]
           q == job.input[2]
<1>1. /\ job.input \in MontgomeryInputs /\ i \in {0, 1}
      /\ i = 0 => segment = <<Montgomery(p)>> /\ status # "done"
      /\ ~Documented(p, q) =>
           /\ status \in {"synthesizing", "done"}
           /\ i = 1 => segment = <<Montgomery(Plus(p, q))>>
           /\ status = "done" => result = <<Plus(p, q)>>
  BY DEF MontgomeryInv
<1>2. p \in Points /\ q \in Points /\ p # Identity /\ q # Identity
  BY <1>1, InputAssumption
<1>3. ~Documented(p, q) =>
        /\ montgomery_add(Montgomery(p), Montgomery(q)).outputs = {Montgomery(Plus(p, q))}
        /\ 0 \notin montgomery_add(Montgomery(p), Montgomery(q)).denominators
        /\ into_edwards(Montgomery(Plus(p, q))).outputs = {Plus(p, q)}
        /\ 0 \notin into_edwards(Montgomery(Plus(p, q))).denominators
  BY <1>2, MontgomeryIsExact
<1>4. CASE MontgomeryAdds
  <2>1. i = 0 /\ i' = 1 /\ job' = job /\ status' = status /\ result' = result /\ segment[1] = Montgomery(p)
        /\ status = "synthesizing"
    BY <1>1, <1>4 DEF MontgomeryAdds, Running
  <2>2. PICK s \in montgomery_add(segment[1], Montgomery(q)).outputs : segment' = <<s>>
    BY <1>4 DEF MontgomeryAdds
  <2>3. ~Documented(p, q) => segment' = <<Montgomery(Plus(p, q))>>
    BY <1>3, <2>1, <2>2
  <2>4. QED
    BY <1>1, <2>1, <2>3 DEF MontgomeryInv
<1>5. CASE MontgomeryConverts
  <2>1. i = 1 /\ i' = i /\ job' = job /\ status' = "done" /\ segment' = segment
    BY <1>5 DEF MontgomeryConverts
  <2>2. PICK e \in into_edwards(segment[1]).outputs : result' = <<e>>
    BY <1>5 DEF MontgomeryConverts
  <2>3. ~Documented(p, q) => result' = <<Plus(p, q)>>
    BY <1>1, <1>3, <2>1, <2>2
  <2>4. QED
    BY <1>1, <2>1, <2>3 DEF MontgomeryInv
<1>6. ~Documented(p, q) => /\ NextMontgomery.outputs # {} /\ 0 \notin NextMontgomery.denominators
  <2>1. CASE i = 0
    BY <1>1, <1>3, <2>1 DEF NextMontgomery
  <2>2. CASE i = 1
    BY <1>1, <1>3, <2>2 DEF NextMontgomery
  <2>3. QED
    BY <1>1, <2>1, <2>2
<1>7. CASE Unsatisfiable
  <2>1. Documented(p, q)
    BY <1>6, <1>7 DEF Unsatisfiable
  <2>2. job' = job /\ i' = i /\ segment' = segment /\ status' = "unsatisfied"
    BY <1>7 DEF Unsatisfiable
  <2>3. QED
    BY <1>1, <2>1, <2>2 DEF MontgomeryInv
<1>8. CASE WitnessFails
  <2>1. Documented(p, q)
    BY <1>6, <1>8 DEF WitnessFails, MulGadgets, FixedBaseGadgets, HashGadgets, SmallOrderGadgets,
       MontgomeryGadgets
  <2>2. job' = job /\ i' = i /\ segment' = segment /\ status' = "DivisionByZero"
    BY <1>8 DEF WitnessFails
  <2>3. QED
    BY <1>1, <2>1, <2>2 DEF MontgomeryInv
<1>9. QED
  BY <1>4, <1>5, <1>7, <1>8 DEF Next, Running, MulBit, MulReturns, FixedBaseChunk,
     FixedBaseReturns,
     HashPanics, HashWindow, HashSegment, HashReturns, SmallOrderCheck, GroupHash

\* On the curve, the check divides by zero only at a point of small order.
LEMMA SmallOrderWitness ==
  ASSUME job.gadget = "small_order", job.input \in Points, Times(8 * R_J, job.input) = Identity,
         NEW g \in SmallOrderGadgets, 0 \in g.denominators
  PROVE  IsSmallOrder(job.input)
<1> DEFINE p == job.input
           Doubled(S) == UNION {double(q).outputs : q \in S}
<1>1. /\ p \in Points /\ Times(2, p) \in Points /\ Times(4, p) \in Points /\ Times(8, p) \in Points
      /\ Plus(p, p) = Times(2, p) /\ Plus(Times(2, p), Times(2, p)) = Times(4, p)
      /\ Plus(Times(4, p), Times(4, p)) = Times(8, p)
  BY ThreeDoublings, TimesCounts
<1> HIDE DEF p
<1>2. ASSUME NEW q \in Points PROVE Doubled({q}) = {Plus(q, q)}
  BY DoubleIsExact
<1>3. /\ Doubled({p}) = {Times(2, p)} /\ Doubled({Times(2, p)}) = {Times(4, p)}
      /\ Doubled({Times(4, p)}) = {Times(8, p)}
  BY <1>1, <1>2
<1>4. SmallOrderGadgets = {double(q) : q \in {p} \cup Doubled({p}) \cup Doubled(Doubled({p}))}
                             \cup {Gadget({}, {q.u}) : q \in Doubled(Doubled(Doubled({p})))}
  BY DEF SmallOrderGadgets, p
<1> HIDE DEF Doubled
<1>5. \/ \E q \in {p, Times(2, p), Times(4, p)} : g = double(q)
      \/ g = Gadget({}, {Times(8, p).u})
  BY <1>3, <1>4
<1>6. \A q \in Points : 0 \notin double(q).denominators
  BY DoubleIsExact
<1>7. g = Gadget({}, {Times(8, p).u})
  BY <1>1, <1>5, <1>6
<1>8. Times(8, p).u = 0
  BY <1>7, GadgetParts
<1>9. assert_not_small_order(p) <=> Times(8, p).u # 0
  BY <1>1, ThreeDoublings
<1>10. assert_not_small_order(p) <=> ~IsSmallOrder(p)
  BY <1>1, SmallOrderGadget DEF p
<1>11. QED
  BY <1>8, <1>9, <1>10 DEF p

\* The check against small order keeps it.
LEMMA SmallOrderStep ==
  ASSUME SmallOrderInv, Next, job.gadget = "small_order"
  PROVE  job' = job /\ SmallOrderInv'
<1>1. CASE SmallOrderCheck
  BY <1>1 DEF SmallOrderCheck, SmallOrderInv, Running
<1>2. CASE WitnessFails
  <2>1. \E g \in SmallOrderGadgets : 0 \in g.denominators
    BY <1>2 DEF WitnessFails, MulGadgets, FixedBaseGadgets, HashGadgets, MontgomeryGadgets
  <2>2. ~OnCurve(job.input) \/ IsSmallOrder(job.input)
    <3>1. OnCurve(job.input) => job.input \in Points /\ Times(8 * R_J, job.input) = Identity
      BY DEF SmallOrderInv, Points
    <3>2. QED
      BY <2>1, <3>1, SmallOrderWitness
  <2>3. job' = job /\ result' = result /\ status' = "DivisionByZero"
    BY <1>2 DEF WitnessFails
  <2>4. QED
    BY <2>2, <2>3 DEF SmallOrderInv
<1>3. QED
  BY <1>1, <1>2 DEF Next, Running, MulBit, MulReturns, FixedBaseChunk, FixedBaseReturns,
     HashPanics,
     HashWindow, HashSegment, HashReturns, MontgomeryAdds, MontgomeryConverts, GroupHash, Unsatisfiable

\* The hash gives a point that the check accepts.
LEMMA GroupHashStep ==
  ASSUME GroupHashInv, Next, job.gadget = "group_hash"
  PROVE  \/ job' = job /\ GroupHashInv'
         \/ job'.gadget = "small_order" /\ SmallOrderInv'
<1>1. job.input \in GroupHashInputs /\ status \in {"synthesizing", "None"}
  BY DEF GroupHashInv
<1>2. CASE GroupHash
  <2>1. result' = group_hash(job.input) /\ status = "synthesizing"
    BY <1>2 DEF GroupHash, Running
  <2>2. CASE result' = <<>>
    BY <1>1, <1>2, <2>2 DEF GroupHash, GroupHashInv
  <2>3. CASE result' # <<>>
    <3>1. status' = status /\ job' = [gadget |-> "small_order", input |-> result'[1]]
      BY <1>2, <2>3 DEF GroupHash
    <3>2. job'.gadget = "small_order" /\ job'.input = group_hash(job.input)[1]
      BY <2>1, <3>1
    <3>3. job.input # <<>>
      BY <2>1, <2>3 DEF group_hash
    <3>4. job.input[1] \in Points /\ Times(8 * R_J, job.input[1]) = Identity
      BY <1>1, <3>3, InputAssumption
    <3>5. /\ group_hash(job.input)[1] \in Points /\ Times(8 * R_J, group_hash(job.input)[1]) = Identity
          /\ ~IsSmallOrder(group_hash(job.input)[1])
      BY <2>1, <2>3, <3>3, <3>4, GroupHashIsNotSmall
    <3>6. job'.input \in [u : Field, v : Field] /\ OnCurve(job'.input) /\ ~IsSmallOrder(job'.input)
          /\ Times(8 * R_J, job'.input) = Identity
      BY <3>2, <3>5 DEF Points
    <3>7. SmallOrderInv'
      BY <2>1, <3>1, <3>2, <3>6 DEF SmallOrderInv
    <3>8. QED
      BY <3>2, <3>7
  <2>4. QED
    BY <2>2, <2>3
<1>3. CASE WitnessFails
  BY <1>3 DEF WitnessFails, MulGadgets, FixedBaseGadgets, HashGadgets, SmallOrderGadgets,
     MontgomeryGadgets
<1>4. QED
  BY <1>2, <1>3 DEF Next, Running, MulBit, MulReturns, FixedBaseChunk, FixedBaseReturns,
     HashPanics,
     HashWindow, HashSegment, HashReturns, MontgomeryAdds, MontgomeryConverts, SmallOrderCheck, Unsatisfiable

\* It holds at first ...
LEMMA InitIInv ==
  ASSUME Init
  PROVE  IInv
<1>1. /\ job \in Jobs /\ status = "synthesizing" /\ i = 0 /\ curbase = <<>> /\ result = <<>>
      /\ segment = IF job.gadget = "montgomery" THEN <<Montgomery(job.input[1])>> ELSE <<>>
  BY DEF Init
<1>2. /\ job.gadget \in {"mul", "fixed_base", "pedersen_hash", "montgomery", "small_order", "group_hash"}
      /\ job.gadget = "mul" => job.input \in MulInputs
      /\ job.gadget = "fixed_base" => job.input \in FixedInputs
      /\ job.gadget = "pedersen_hash" => job.input \in HashInputs
      /\ job.gadget = "montgomery" => job.input \in MontgomeryInputs
      /\ job.gadget = "small_order" => job.input \in WitnessInputs
      /\ job.gadget = "group_hash" => job.input \in GroupHashInputs
  BY <1>1 DEF Jobs
<1>3. MulInv
  <2> SUFFICES ASSUME job.gadget = "mul" PROVE MulInv
    BY DEF MulInv
  <2>1. job.input \in Points \X Seq(Bit)
    BY <1>2, InputAssumption
  <2>2. Len(job.input[2]) \in Nat
    BY <2>1
  <2>3. QED
    BY <1>1, <2>1, <2>2 DEF MulInv
<1>4. FixedBaseInv
  <2> SUFFICES ASSUME job.gadget = "fixed_base" PROVE FixedBaseInv
    BY DEF FixedBaseInv
  <2>1. 0 \in 0 .. FIXED_BASE_CHUNKS_PER_GENERATOR /\ 3 * 0 = 0
    BY ChunksAssumption
  <2>2. QED
    BY <1>1, <1>2, <2>1 DEF FixedBaseInv
<1>5. HashInv
  <2> SUFFICES ASSUME job.gadget = "pedersen_hash" PROVE HashInv
    BY DEF HashInv
  <2> DEFINE bits == HashBits(job.input)
  <2>1. job.input \in HashInputs /\ bits \in Seq(Bit)
    BY <1>2, HashBitsType
  <2>2. SegmentCount(bits) \in Nat /\ 0 \in Nat
    <3> HIDE DEF bits
    <3>1. 0 \in Nat
      OBVIOUS
    <3>2. QED
      BY <2>1, <3>1, SegmentsRead
  <2>3. 0 \in 0 .. SegmentCount(bits) /\ 0 \in 0 .. PEDERSEN_HASH_CHUNKS_PER_GENERATOR
    BY <2>2, SegmentSize
  <2>4. HashAt(bits, 0, 0)
    <3>1. 0 * SegmentBits = 0
      BY SegmentSize
    <3>2. PointSum(0, SegmentPoints(bits)) \in Points
      BY PointSumUnfolds, IdentityNeutral
    <3>3. 0 <= Len(PEDERSEN_HASH_GENERATORS)
      BY PedersenAssumption
    <3> HIDE DEF bits
    <3>4. QED
      BY <1>1, <3>1, <3>2, <3>3 DEF HashAt
  <2>5. QED
    BY <2>1, <2>3, <2>4 DEF HashInv
<1>6. MontgomeryInv
  BY <1>1, <1>2 DEF MontgomeryInv
<1>7. SmallOrderInv
  BY <1>1, <1>2, InputAssumption DEF SmallOrderInv
<1>8. GroupHashInv
  BY <1>1, <1>2 DEF GroupHashInv
<1>9. QED
  BY <1>2, <1>3, <1>4, <1>5, <1>6, <1>7, <1>8 DEF IInv

\* ... and every step keeps it ...
LEMMA StepIInv ==
  ASSUME IInv, [Next]_vars
  PROVE  IInv'
<1>1. CASE UNCHANGED vars
  BY <1>1 DEF vars, IInv, MulInv, FixedBaseInv, HashInv, HashAt, MontgomeryInv,
     SmallOrderInv, GroupHashInv
<1>2. CASE Next
  <2>1. \/ job' = job /\ job.gadget = "mul" /\ MulInv'
        \/ job' = job /\ job.gadget = "fixed_base" /\ FixedBaseInv'
        \/ job' = job /\ job.gadget = "pedersen_hash" /\ HashInv'
        \/ job' = job /\ job.gadget = "montgomery" /\ MontgomeryInv'
        \/ job' = job /\ job.gadget = "group_hash" /\ GroupHashInv'
        \/ job'.gadget = "small_order" /\ SmallOrderInv'
    BY <1>2, MulStep, FixedBaseStep, HashStep, MontgomeryStep, SmallOrderStep,
       GroupHashStep DEF IInv
  <2>2. QED
    BY <2>1 DEF IInv, MulInv, FixedBaseInv, HashInv, MontgomeryInv, SmallOrderInv,
       GroupHashInv
<1>3. QED
  BY <1>1, <1>2

\* ... so it always holds: where the loop of each gadget is, and what it has
\* computed so far.
THEOREM InductiveInvariant == Spec => []IInv
<1>1. Init => IInv
  BY InitIInv
<1>2. IInv /\ [Next]_vars => IInv'
  BY StepIInv
<1>3. QED
  BY <1>1, <1>2, PTL DEF Spec

-----------------------------------------------------------------------------
(* The hash of one segment tells its inputs apart                           *)

\* Digits: equal sums of chunks have equal digits, for the digits of one place
\* differ by less than the weight of the next leaves room for.
LEMMA PartialDetermines ==
  ASSUME NEW s \in Seq(Bit), NEW t \in Seq(Bit)
  PROVE  \A m \in Nat : Partial(s, m) = Partial(t, m) => \A j \in 1 .. m : Digit(s, j) = Digit(t, j)
<1> DEFINE P == {m \in Nat : Partial(s, m) = Partial(t, m) => \A j \in 1 .. m : Digit(s, j) = Digit(t, j)}
<1>1. 0 \in P
  OBVIOUS
<1>2. ASSUME NEW m \in Nat, m \in P PROVE m + 1 \in P
  <2> SUFFICES ASSUME Partial(s, m + 1) = Partial(t, m + 1)
               PROVE  \A j \in 1 .. (m + 1) : Digit(s, j) = Digit(t, j)
    OBVIOUS
  <2>1. PICK w \in Nat \ {0} : w = Pow(16, m)
    <3>1. 16 \in Nat \ {0}
      OBVIOUS
    <3>2. Pow(16, m) \in Nat \ {0}
      BY <3>1, PowInteger, Zenon
    <3>3. QED
      BY <3>2
  <2>2. PICK p \in Int : p = Partial(s, m)
    BY PartialGrows
  <2>3. PICK q \in Int : q = Partial(t, m)
    BY PartialGrows
  <2>4. m + 1 \in Nat \ {0}
    OBVIOUS
  <2>5. PICK d \in Int : d = Digit(s, m + 1) /\ (d \in 1 .. 4 \/ -d \in 1 .. 4)
    BY <2>4, DigitIsANumber
  <2>6. PICK e \in Int : e = Digit(t, m + 1) /\ (e \in 1 .. 4 \/ -e \in 1 .. 4)
    BY <2>4, DigitIsANumber
  <2>7. Partial(s, m + 1) = p + d * w /\ Partial(t, m + 1) = q + e * w
    BY <2>1, <2>2, <2>3, <2>5, <2>6, PartialGrows
  <2>8. /\ 15 * p <= 4 * (w - 1) /\ -(15 * p) <= 4 * (w - 1)
        /\ 15 * q <= 4 * (w - 1) /\ -(15 * q) <= 4 * (w - 1)
    <3>1. Bounded(p, w) /\ Bounded(q, w)
      BY <2>1, <2>2, <2>3, PartialBounded
    <3>2. QED
      BY <3>1 DEF Bounded
  <2>9. p + d * w = q + e * w
    BY <2>7
  <2>10. d = e /\ p = q
    <3>1. d \in {1, 2, 3, 4, -1, -2, -3, -4} /\ e \in {1, 2, 3, 4, -1, -2, -3, -4}
      <4>1. d \in {1, 2, 3, 4, -1, -2, -3, -4}
        BY <2>5
      <4>2. e \in {1, 2, 3, 4, -1, -2, -3, -4}
        BY <2>6
      <4>3. QED
        BY <4>1, <4>2
    <3>2. PICK c \in Int : c = d - e
      OBVIOUS
    <3>3. PICK x \in Int : x = c * w /\ x = q - p
      BY <2>9, <3>2
    <3>4. 15 * x < 15 * w /\ -(15 * x) < 15 * w
      BY <2>8, <3>3
    <3>5. c >= 1 => x >= w
      BY <3>3
    <3>6. c <= -1 => x <= -w
      BY <3>3
    <3>7. c = 0
      BY <3>4, <3>5, <3>6
    <3>8. x = 0
      BY <3>3, <3>7
    <3>9. QED
      BY <3>2, <3>3, <3>7, <3>8
  <2>11. \A j \in 1 .. m : Digit(s, j) = Digit(t, j)
    BY <1>2, <2>2, <2>3, <2>10
  <2>12. \A j \in 1 .. (m + 1) : j \in 1 .. m \/ j = m + 1
    OBVIOUS
  <2>13. QED
    BY <2>5, <2>6, <2>10, <2>11, <2>12
<1> HIDE DEF P
<1>3. \A m \in Nat : m \in P
  BY <1>1, <1>2, SetInduction
<1>4. QED
  BY <1>3 DEF P

\* The eight chunks stand for eight numbers.
LEMMA SignedDetermines ==
  ASSUME NEW c \in [1 .. 3 -> Bit], NEW d \in [1 .. 3 -> Bit], Signed(c) = Signed(d)
  PROVE  c[1] = d[1] /\ c[2] = d[2] /\ c[3] = d[3]
<1>1. /\ c[1] \in {0, 1} /\ c[2] \in {0, 1} /\ c[3] \in {0, 1}
      /\ d[1] \in {0, 1} /\ d[2] \in {0, 1} /\ d[3] \in {0, 1}
  BY DEF Bit
<1>2. QED
  BY <1>1 DEF Signed

\* The bits of a segment are what its sum says.
LEMMA BitsDetermined ==
  ASSUME NEW s \in Seq(Bit), NEW t \in Seq(Bit), Len(s) = Len(t),
         Partial(s, (Len(s) + 2) \div 3) = Partial(t, (Len(s) + 2) \div 3)
  PROVE  s = t
<1> DEFINE n == Len(s)
           N == (n + 2) \div 3
<1>1. n \in Nat /\ N \in Nat
  OBVIOUS
<1>2. \A j \in 1 .. N : Digit(s, j) = Digit(t, j)
  BY <1>1, PartialDetermines
<1>3. ASSUME NEW k \in 1 .. n PROVE s[k] = t[k]
  <2>1. PICK j \in Nat, r \in 1 .. 3 : k = 3 * j + r /\ j + 1 \in 1 .. N
    <3>1. PICK j \in Nat, r \in 0 .. 2 : k - 1 = 3 * j + r
      <4>1. (k - 1) \div 3 \in Nat /\ (k - 1) % 3 \in 0 .. 2
             /\ k - 1 = 3 * ((k - 1) \div 3) + ((k - 1) % 3)
        BY <1>1
      <4>2. QED
        BY <4>1
    <3>2. PICK l \in Nat, z \in 0 .. 2 : n + 2 = 3 * l + z /\ N = l
      <4>1. (n + 2) % 3 \in 0 .. 2 /\ n + 2 = 3 * N + ((n + 2) % 3)
        BY <1>1
      <4>2. QED
        BY <1>1, <4>1
    <3>3. r + 1 \in 1 .. 3 /\ k = 3 * j + (r + 1) /\ j + 1 \in 1 .. N
      BY <1>1, <3>1, <3>2
    <3>4. QED
      BY <3>3
  <2>2. Digit(s, j + 1) = Digit(t, j + 1) /\ 3 * (j + 1) - 2 = 3 * j + 1 /\ 3 * j \in Nat
    BY <1>2, <2>1
  <2>3. /\ Chunk(s, 3 * j + 1) \in [1 .. 3 -> Bit] /\ Chunk(t, 3 * j + 1) \in [1 .. 3 -> Bit]
        /\ Chunk(s, 3 * j + 1)[1] = BitAt(s, 3 * j + 1) /\ Chunk(t, 3 * j + 1)[1] = BitAt(t, 3 * j + 1)
        /\ Chunk(s, 3 * j + 1)[2] = BitAt(s, 3 * j + 2) /\ Chunk(t, 3 * j + 1)[2] = BitAt(t, 3 * j + 2)
        /\ Chunk(s, 3 * j + 1)[3] = BitAt(s, 3 * j + 3) /\ Chunk(t, 3 * j + 1)[3] = BitAt(t, 3 * j + 3)
    BY <2>2, ChunkBits
  <2>4. Signed(Chunk(s, 3 * j + 1)) = Signed(Chunk(t, 3 * j + 1))
    BY <2>2 DEF Digit
  <2>5. /\ Chunk(s, 3 * j + 1)[1] = Chunk(t, 3 * j + 1)[1]
        /\ Chunk(s, 3 * j + 1)[2] = Chunk(t, 3 * j + 1)[2]
        /\ Chunk(s, 3 * j + 1)[3] = Chunk(t, 3 * j + 1)[3]
    BY <2>3, <2>4, SignedDetermines
  <2>6. BitAt(s, k) = BitAt(t, k)
    <3>1. r = 1 \/ r = 2 \/ r = 3
      BY <2>1
    <3>2. QED
      BY <2>1, <2>3, <2>5, <3>1
  <2>7. QED
    BY <2>6 DEF BitAt
<1>4. \A x, y \in Seq(Bit) : (Len(x) = Len(y) /\ \A k \in 1 .. Len(x) : x[k] = y[k]) => x = y
  OBVIOUS
<1> HIDE DEF n
<1>5. QED
  BY <1>3, <1>4 DEF n

\* Six bits tell the levels up to 62 and the personalization of a note
\* commitment, 63, apart.
LEMMA PersonalizationsDiffer ==
  ASSUME NEW a \in Personalizations, NEW b \in Personalizations, Asserted(a),
         Asserted(b),
         get_bits(a) = get_bits(b)
  PROVE  a = b
<1> DEFINE number(x) == IF x[1] = "NoteCommitment" THEN 63 ELSE x[2]
<1>1. PERSONALIZATION_BITS = 6
  BY DEF PERSONALIZATION_BITS
<1>2. 2 ^ 0 = 1 /\ 2 ^ 1 = 2 /\ 2 ^ 2 = 4 /\ 2 ^ 3 = 8 /\ 2 ^ 4 = 16 /\ 2 ^ 5 = 32
  OBVIOUS
<1>3. ASSUME NEW x \in Personalizations, Asserted(x)
      PROVE  /\ number(x) \in 0 .. 63
             /\ get_bits(x)[1] = number(x) % 2
             /\ get_bits(x)[2] = (number(x) \div 2) % 2
             /\ get_bits(x)[3] = (number(x) \div 4) % 2
             /\ get_bits(x)[4] = (number(x) \div 8) % 2
             /\ get_bits(x)[5] = (number(x) \div 16) % 2
             /\ get_bits(x)[6] = (number(x) \div 32) % 2
  <2>1. CASE x[1] = "NoteCommitment"
    <3>1. get_bits(x) = [n \in 1 .. 6 |-> 1]
      BY <1>1, <2>1 DEF get_bits
    <3>2. number(x) = 63
      BY <2>1
    <3> HIDE DEF number
    <3>3. QED
      BY <3>1, <3>2
  <2>2. CASE x[1] # "NoteCommitment"
    <3>1. x[1] = "MerkleTree" /\ x[2] \in Nat
      BY <2>2 DEF Personalizations
    <3>2. x[2] < 63
      BY <1>3, <3>1 DEF Asserted
    <3>3. get_bits(x) = [n \in 1 .. 6 |-> (x[2] \div (2 ^ (n - 1))) % 2]
      BY <1>1, <2>2 DEF get_bits, BitsLE
    <3>4. PICK z \in 0 .. 63 : z = x[2] /\ z = number(x)
      BY <2>2, <3>1, <3>2
    <3> HIDE DEF number
    <3>5. get_bits(x) = [n \in 1 .. 6 |-> (z \div (2 ^ (n - 1))) % 2]
      BY <3>3, <3>4
    <3>6. z \div 1 = z
      OBVIOUS
    <3>7. \A n \in 1 .. 6 : get_bits(x)[n] = (z \div (2 ^ (n - 1))) % 2
      BY <3>5, Zenon
    <3>8. 1 - 1 = 0 /\ 2 - 1 = 1 /\ 3 - 1 = 2 /\ 4 - 1 = 3 /\ 5 - 1 = 4 /\ 6 - 1 = 5
      OBVIOUS
    <3>9. 1 \in 1 .. 6 /\ 2 \in 1 .. 6 /\ 3 \in 1 .. 6 /\ 4 \in 1 .. 6 /\ 5 \in 1 .. 6 /\ 6 \in 1 .. 6
      OBVIOUS
    <3>10. QED
      BY <1>2, <3>4, <3>6, <3>7, <3>8, <3>9
  <2>3. QED
    BY <2>1, <2>2
<1>4. ASSUME NEW x \in 0 .. 63
      PROVE  x = (x % 2) + 2 * ((x \div 2) % 2) + 4 * ((x \div 4) % 2) + 8 * ((x \div 8) % 2)
                   + 16 * ((x \div 16) % 2) + 32 * ((x \div 32) % 2)
  <2>1. /\ x = 2 * (x \div 2) + (x % 2) /\ x \div 2 = 2 * (x \div 4) + ((x \div 2) % 2)
        /\ x \div 4 = 2 * (x \div 8) + ((x \div 4) % 2) /\ x \div 8 = 2 * (x \div 16) + ((x \div 8) % 2)
        /\ x \div 16 = 2 * (x \div 32) + ((x \div 16) % 2) /\ (x \div 32) % 2 = x \div 32
    OBVIOUS
  <2>2. /\ x \div 2 \in Nat /\ x \div 4 \in Nat /\ x \div 8 \in Nat /\ x \div 16 \in Nat /\ x \div 32 \in Nat
    OBVIOUS
  <2>3. QED
    BY <2>1, <2>2
<1>5. number(a) = number(b)
  <2>1. /\ number(a) \in 0 .. 63 /\ number(b) \in 0 .. 63
        /\ number(a) % 2 = number(b) % 2
        /\ (number(a) \div 2) % 2 = (number(b) \div 2) % 2
        /\ (number(a) \div 4) % 2 = (number(b) \div 4) % 2
        /\ (number(a) \div 8) % 2 = (number(b) \div 8) % 2
        /\ (number(a) \div 16) % 2 = (number(b) \div 16) % 2
        /\ (number(a) \div 32) % 2 = (number(b) \div 32) % 2
    <3> HIDE DEF number
    <3>1. QED
      BY <1>3
  <2> HIDE DEF number
  <2>2. QED
    BY <1>4, <2>1
<1>6. QED
  <2>1. (a = <<"NoteCommitment">> \/ (a = <<"MerkleTree", a[2]>> /\ a[2] \in Nat)) /\ (b = <<"NoteCommitment">> \/ (b = <<"MerkleTree", b[2]>> /\ b[2] \in Nat))
    BY DEF Personalizations
  <2>2. (a[1] = "MerkleTree" => a[2] < 63) /\ (b[1] = "MerkleTree" => b[2] < 63)
    BY DEF Asserted
  <2>3. CASE a = <<"NoteCommitment">>
    BY <1>5, <2>1, <2>2, <2>3
  <2>4. CASE a # <<"NoteCommitment">>
    <3>1. number(a) = a[2] /\ a[2] # 63
      BY <2>1, <2>2, <2>4
    <3>2. b # <<"NoteCommitment">>
      BY <1>5, <3>1
    <3>3. number(b) = b[2]
      BY <2>1, <3>2
    <3>4. QED
      BY <1>5, <2>1, <2>4, <3>1, <3>2, <3>3
  <2>5. QED
    BY <2>3, <2>4

\* A sequence is its length and its elements.
LEMMA SequencesEqual ==
  ASSUME NEW S, NEW s \in Seq(S), NEW t \in Seq(S), Len(s) = Len(t),
         \A k \in 1 .. Len(s) : s[k] = t[k]
  PROVE  s = t
OBVIOUS

\* Two concatenations whose parts have the same lengths have the same parts.
LEMMA ConcatDetermines ==
  ASSUME NEW S, NEW s \in Seq(S), NEW t \in Seq(S), NEW x \in Seq(S), NEW y \in Seq(S),
         Len(s) = Len(x), Len(t) = Len(y), s \o t = x \o y
  PROVE  s = x /\ t = y
<1>1. \A k \in 1 .. Len(s) : (s \o t)[k] = s[k] /\ (x \o y)[k] = x[k]
  <2> TAKE k \in 1 .. Len(s)
  <2>1. (s \o t)[k] = s[k]
    OBVIOUS
  <2>2. (x \o y)[k] = x[k]
    OBVIOUS
  <2>3. QED
    BY <2>1, <2>2
<1>2. \A k \in 1 .. Len(t) : (s \o t)[Len(s) + k] = t[k] /\ (x \o y)[Len(x) + k] = y[k]
  <2> TAKE k \in 1 .. Len(t)
  <2>1. /\ Len(s) + k \in 1 .. (Len(s) + Len(t)) /\ Len(s) + k > Len(s) /\ (Len(s) + k) - Len(s) = k
        /\ Len(x) + k \in 1 .. (Len(x) + Len(y)) /\ Len(x) + k > Len(x) /\ (Len(x) + k) - Len(x) = k
    OBVIOUS
  <2>2. (s \o t)[Len(s) + k] = t[k]
    BY <2>1
  <2>3. (x \o y)[Len(x) + k] = y[k]
    BY <2>1
  <2>4. QED
    BY <2>2, <2>3
<1>3. (\A k \in 1 .. Len(s) : s[k] = x[k]) /\ (\A k \in 1 .. Len(t) : t[k] = y[k])
  BY <1>1, <1>2, Zenon
<1>4. QED
  BY <1>3, SequencesEqual

\* So the bits that are hashed tell the inputs of one length apart.
LEMMA HashBitsDiffer ==
  ASSUME NEW a \in HashInputs, NEW b \in HashInputs, Asserted(a[1]), Asserted(b[1]),
         Len(a[2]) = Len(b[2]), HashBits(a) = HashBits(b)
  PROVE  a = b
<1>1. /\ a[1] \in Personalizations /\ a[2] \in Seq(Bit) /\ a = <<a[1], a[2]>>
      /\ b[1] \in Personalizations /\ b[2] \in Seq(Bit) /\ b = <<b[1], b[2]>>
  BY InputAssumption
<1>2. /\ get_bits(a[1]) \in Seq(Bit) /\ Len(get_bits(a[1])) = 6
      /\ get_bits(b[1]) \in Seq(Bit) /\ Len(get_bits(b[1])) = 6
  BY <1>1, PersonalizationBits
<1>3. get_bits(a[1]) \o a[2] = get_bits(b[1]) \o b[2]
  BY DEF HashBits
<1>5. get_bits(a[1]) = get_bits(b[1]) /\ a[2] = b[2]
  <2> DEFINE s == get_bits(a[1])
             x == get_bits(b[1])
             t == a[2]
             y == b[2]
  <2>1. s \in Seq(Bit) /\ x \in Seq(Bit) /\ t \in Seq(Bit) /\ y \in Seq(Bit) /\ Len(s) = Len(x) /\ Len(t) = Len(y)
        /\ s \o t = x \o y
    BY <1>1, <1>2, <1>3
  <2> HIDE DEF s, x, t, y
  <2>2. s = x /\ t = y
    BY <2>1, ConcatDetermines
  <2>3. QED
    BY <2>2 DEF s, x, t, y
<1>6. a[1] = b[1]
  BY <1>1, <1>5, PersonalizationsDiffer
<1>7. QED
  BY <1>1, <1>5, <1>6

-----------------------------------------------------------------------------
(* The theorems                                                             *)

\* It says what the loops have computed ...
LEMMA IInvMultiples ==
  ASSUME IInv
  PROVE  MultiplesAreExact
<1>1. ASSUME job.gadget = "mul", i > 0
      PROVE  /\ curbase = <<Times(Pow(2, i - 1), job.input[1])>>
             /\ result = <<Times(Value(Prefix(Bits, i)), job.input[1])>>
  <2>1. Bits = job.input[2]
    BY <1>1 DEF Bits
  <2>2. QED
    BY <1>1, <2>1 DEF IInv, MulInv
<1>2. ASSUME job.gadget = "fixed_base", result # <<>>
      PROVE  result = <<Times(Value(Prefix(Bits, i)), job.input[1])>>
  <2>1. Bits = job.input[2]
    BY <1>2 DEF Bits
  <2>2. QED
    BY <1>2, <2>1 DEF IInv, FixedBaseInv
<1>3. QED
  BY <1>1, <1>2 DEF MultiplesAreExact

\* ... what the check against small order accepts ...
LEMMA IInvSmallOrder ==
  ASSUME IInv
  PROVE  SmallOrderIsExact
<1> SUFFICES ASSUME job.gadget = "small_order"
             PROVE  /\ status = "done" => ~IsSmallOrder(job.input) /\ OnCurve(job.input)
                    /\ status \in {"unsatisfied", "DivisionByZero"} =>
                         (IsSmallOrder(job.input) \/ ~OnCurve(job.input)) /\ result = <<>>
  BY DEF SmallOrderIsExact
<1> DEFINE p == job.input
<1>1. /\ p \in [u : Field, v : Field]
      /\ OnCurve(p) => Times(8 * R_J, p) = Identity
      /\ result = <<>> \/ (OnCurve(p) /\ ~IsSmallOrder(p))
      /\ status = "done" => interpret(p) /\ assert_not_small_order(p)
      /\ status = "unsatisfied" => ~(interpret(p) /\ assert_not_small_order(p))
      /\ status = "DivisionByZero" => ~OnCurve(p) \/ IsSmallOrder(p)
  BY DEF IInv, SmallOrderInv
<1> HIDE DEF p
<1>2. OnCurve(p) => p \in Points
  BY <1>1 DEF Points
<1>3. OnCurve(p) => (assert_not_small_order(p) <=> ~IsSmallOrder(p))
  BY <1>1, <1>2, SmallOrderGadget
<1>4. interpret(p) <=> OnCurve(p)
  BY InterpretIsTheCurve
<1>5. QED
  BY <1>1, <1>3, <1>4 DEF p

\* The native hash of an input, where it does not panic.
LEMMA NativeHash ==
  ASSUME NEW input
  PROVE  pedersen_hash(input[1], input[2])
           = IF ~Asserted(input[1]) \/ SegmentCount(HashBits(input)) > Len(PEDERSEN_HASH_GENERATORS) THEN <<>>
             ELSE <<PointSum(SegmentCount(HashBits(input)), SegmentPoints(HashBits(input)))>>
BY Zenon DEF pedersen_hash, HashBits, SegmentPoints

\* ... that the hash is the native one ...
LEMMA IInvHash ==
  ASSUME IInv
  PROVE  CircuitHashIsNative
<1> SUFFICES ASSUME job.gadget = "pedersen_hash"
             PROVE  /\ status = "done" => result = pedersen_hash(job.input[1], job.input[2])
                    /\ status = "panic" => pedersen_hash(job.input[1], job.input[2]) = <<>>
                    /\ status \in {"synthesizing", "done", "panic"}
  BY DEF CircuitHashIsNative
<1> DEFINE bits == HashBits(job.input)
<1>1. PICK k \in 0 .. SegmentCount(bits), m \in 0 .. PEDERSEN_HASH_CHUNKS_PER_GENERATOR :
        job.input \in HashInputs /\ HashAt(bits, k, m)
  BY DEF IInv, HashInv
<1>2. SegmentCount(bits) \in Nat /\ k \in Nat /\ k <= Len(PEDERSEN_HASH_GENERATORS)
  <2>1. bits \in Seq(Bit)
    BY <1>1, HashBitsType
  <2>2. 0 \in Nat
    OBVIOUS
  <2> HIDE DEF bits
  <2>3. SegmentCount(bits) \in Nat
    BY <2>1, <2>2, SegmentsRead
  <2>4. QED
    BY <1>1, <2>3 DEF HashAt
<1>3. status \in {"synthesizing", "done", "panic"}
  BY <1>1 DEF HashAt
<1>4. ASSUME status = "done" PROVE result = pedersen_hash(job.input[1], job.input[2])
  <2>1. m = 0 /\ i >= Len(bits)
    BY <1>1, <1>4 DEF HashAt
  <2>2. k > 0 /\ k = SegmentCount(bits)
    BY <1>1, <1>2, <2>1, HashPlace
  <2>3. result = <<PointSum(k, SegmentPoints(bits))>> /\ Asserted(job.input[1])
    <3>1. k # 0
      BY <2>2
    <3> HIDE DEF bits
    <3>2. QED
      BY <1>1, <2>2, <3>1 DEF HashAt
  <2>4. ~(SegmentCount(bits) > Len(PEDERSEN_HASH_GENERATORS))
    <3>1. Len(PEDERSEN_HASH_GENERATORS) \in Nat
      BY PedersenAssumption
    <3>2. QED
      BY <1>2, <2>2, <3>1
  <2>5. QED
    BY <2>2, <2>3, <2>4, NativeHash
<1>5. ASSUME status = "panic" PROVE pedersen_hash(job.input[1], job.input[2]) = <<>>
  <2>1. ~Asserted(job.input[1]) \/ SegmentCount(bits) > Len(PEDERSEN_HASH_GENERATORS)
    BY <1>1, <1>5 DEF HashAt
  <2>2. QED
    BY <2>1, NativeHash
<1>6. QED
  BY <1>3, <1>4, <1>5

\* ... which exceptions are met ...
LEMMA IInvExceptions ==
  ASSUME IInv
  PROVE  ExceptionsAreDocumented
<1>1. job.gadget = "mul" => status \notin {"DivisionByZero", "unsatisfied"}
  BY DEF IInv, MulInv
<1>2. job.gadget = "fixed_base" => status \notin {"DivisionByZero", "unsatisfied"}
  BY DEF IInv, FixedBaseInv
<1>3. job.gadget = "pedersen_hash" => status \notin {"DivisionByZero", "unsatisfied"}
  BY DEF IInv, HashInv, HashAt
<1>4. job.gadget = "group_hash" => status \notin {"DivisionByZero", "unsatisfied"}
  BY DEF IInv, GroupHashInv
<1>5. job.gadget = "montgomery" =>
        \/ Documented(job.input[1], job.input[2])
        \/ /\ status \notin {"DivisionByZero", "unsatisfied"}
           /\ status = "done" => result = <<Plus(job.input[1], job.input[2])>>
  BY DEF IInv, MontgomeryInv
<1>6. job.gadget \in {"mul", "fixed_base", "pedersen_hash", "montgomery", "small_order", "group_hash"}
  BY DEF IInv
<1>7. QED
  BY <1>1, <1>2, <1>3, <1>4, <1>5, <1>6 DEF ExceptionsAreDocumented, Documented

\* A message of one segment is hashed to one multiple of the first generator.
LEMMA OneSegment ==
  ASSUME NEW bits \in Seq(Bit), Len(bits) > 0, Len(bits) <= SegmentBits, 1 \in Segments
  PROVE  /\ SegmentCount(bits) = 1
         /\ (Len(bits) + 2) \div 3 \in 0 .. PEDERSEN_HASH_CHUNKS_PER_GENERATOR
         /\ PointSum(1, SegmentPoints(bits))
              = Multiple(Partial(bits, (Len(bits) + 2) \div 3), PEDERSEN_HASH_GENERATORS[1])
<1> DEFINE g == PEDERSEN_HASH_GENERATORS[1]
           N == (Len(bits) + 2) \div 3
           b == SegmentBits
           C == PEDERSEN_HASH_CHUNKS_PER_GENERATOR
<1>1. b \in Nat \ {0} /\ C \in Nat \ {0} /\ b = 3 * C /\ Len(bits) \in Nat /\ N \in Nat
  BY SegmentSize
<1>2. SegmentCount(bits) = 1
  <2>1. 0 \in Nat /\ 0 * SegmentBits = 0 /\ (0 + 1) * SegmentBits = SegmentBits /\ 0 + 1 = 1
    BY <1>1
  <2>2. 0 * SegmentBits < Len(bits) /\ Len(bits) <= (0 + 1) * SegmentBits
    BY <2>1
  <2>3. SegmentCount(bits) = 0 + 1
    BY <2>1, <2>2, SegmentsRead
  <2>4. QED
    BY <2>3
<1>3. SegmentOf(bits, 1) = bits
  <2>1. (1 - 1) * b + 1 = 1 /\ (IF 1 * b < Len(bits) THEN 1 * b ELSE Len(bits)) = Len(bits)
    BY <1>1
  <2>2. SegmentOf(bits, 1) = SubSeq(bits, 1, Len(bits))
    BY <2>1 DEF SegmentOf
  <2>3. SubSeq(bits, 1, Len(bits)) = bits
    OBVIOUS
  <2>4. QED
    BY <2>2, <2>3
<1>4. N \in 0 .. C
  <2>1. PICK z \in 0 .. 2 : Len(bits) + 2 = 3 * N + z
    <3>1. (Len(bits) + 2) % 3 \in 0 .. 2 /\ Len(bits) + 2 = 3 * N + ((Len(bits) + 2) % 3)
      BY <1>1
    <3>2. QED
      BY <3>1
  <2> HIDE DEF N
  <2>2. QED
    BY <1>1, <2>1
<1>5. SegmentScalar(bits) = Partial(bits, N) % R_J /\ Partial(bits, N) \in Int
  <2> HIDE DEF N
  <2>1. Partial(bits, N) \in Int
    BY <1>1, PartialGrows
  <2>2. SegmentScalar(bits) = Partial(bits, N) % R_J
    BY ScalarIsPartial DEF N
  <2>3. QED
    BY <2>1, <2>2
<1>6. SegmentScalar(bits) \in 0 .. (R_J - 1)
  BY <1>5, Residues
<1>7. Exponentiate(SegmentScalar(bits), 1) = Multiple(Partial(bits, N), g)
  <2>1. Exponentiate(SegmentScalar(bits), 1) = Times(SegmentScalar(bits), g)
    BY <1>6, ExponentiateIsExact
  <2>2. QED
    BY <1>5, <2>1 DEF Multiple
<1>8. SegmentPoints(bits)[1] = Multiple(Partial(bits, N), g)
  <2>1. 1 \in 1 .. SegmentCount(bits)
    BY <1>2
  <2>2. QED
    BY <1>3, <1>7, <2>1 DEF SegmentPoints
<1>9. InSubgroup(g)
  BY Generators
<1> HIDE DEF N, g
<1>10. Multiple(Partial(bits, N), g) \in Points
  BY <1>5, <1>9, MultiplesAdd
<1>11. PointSum(1, SegmentPoints(bits)) = Plus(Identity, SegmentPoints(bits)[1])
  <2>1. 0 \in Nat /\ 0 + 1 = 1
    OBVIOUS
  <2>2. PointSum(0 + 1, SegmentPoints(bits)) = Plus(PointSum(0, SegmentPoints(bits)), SegmentPoints(bits)[0 + 1])
        /\ PointSum(0, SegmentPoints(bits)) = Identity
    BY <2>1, PointSumUnfolds
  <2>3. QED
    BY <2>1, <2>2
<1>12. PointSum(1, SegmentPoints(bits)) = Multiple(Partial(bits, N), g)
  BY <1>8, <1>10, <1>11, IdentityNeutral
<1>13. QED
  BY <1>2, <1>4, <1>12 DEF N, g

\* Two of them with the same u-coordinate are the same bits.
LEMMA OneSegmentDetermines ==
  ASSUME NEW s \in Seq(Bit), NEW t \in Seq(Bit), Len(s) = Len(t), Len(s) > 0,
         Len(s) <= SegmentBits,
         1 \in Segments,
         PointSum(1, SegmentPoints(s)).u = PointSum(1, SegmentPoints(t)).u
  PROVE  s = t
<1> DEFINE N == (Len(s) + 2) \div 3
           g == PEDERSEN_HASH_GENERATORS[1]
<1>1. /\ N \in 0 .. PEDERSEN_HASH_CHUNKS_PER_GENERATOR
      /\ PointSum(1, SegmentPoints(s)) = Multiple(Partial(s, N), g)
      /\ PointSum(1, SegmentPoints(t)) = Multiple(Partial(t, N), g)
  <2>1. Len(t) > 0 /\ Len(t) <= SegmentBits /\ N = (Len(t) + 2) \div 3
    OBVIOUS
  <2>2. /\ (Len(s) + 2) \div 3 \in 0 .. PEDERSEN_HASH_CHUNKS_PER_GENERATOR
        /\ PointSum(1, SegmentPoints(s))
              = Multiple(Partial(s, (Len(s) + 2) \div 3), PEDERSEN_HASH_GENERATORS[1])
    BY OneSegment
  <2>3. PointSum(1, SegmentPoints(t))
              = Multiple(Partial(t, (Len(t) + 2) \div 3), PEDERSEN_HASH_GENERATORS[1])
    BY <2>1, OneSegment
  <2>4. QED
    BY <2>1, <2>2, <2>3
<1>2. InSubgroup(g) /\ g # Identity
  BY Generators
<1> HIDE DEF g
<1>3. N \in Nat
  BY <1>1
<1>4. PICK a \in Int : a = Partial(s, N)
  BY <1>3, PartialGrows
<1>5. PICK b \in Int : b = Partial(t, N)
  BY <1>3, PartialGrows
<1>6. PICK w \in Nat \ {0} : w = Pow(16, N) /\ R_J \in Nat /\ 8 * (w - 1) < 15 * R_J
  <2>1. Pow(16, N) \in Nat \ {0} /\ R_J \in Nat /\ 8 * (Pow(16, N) - 1) < 15 * R_J
    BY <1>1, WeightsFit
  <2>2. QED
    BY <2>1
<1>7. a - b < R_J /\ b - a < R_J
  <2>1. 15 * a <= 4 * (w - 1) /\ -(15 * a) <= 4 * (w - 1) /\ 15 * b <= 4 * (w - 1) /\ -(15 * b) <= 4 * (w - 1)
    <3>1. Bounded(a, w) /\ Bounded(b, w)
      BY <1>3, <1>4, <1>5, <1>6, PartialBounded
    <3>2. QED
      BY <3>1 DEF Bounded
  <2>2. 8 * (w - 1) < 15 * R_J /\ R_J \in Int
    BY <1>6
  <2>3. 15 * (a - b) <= 8 * (w - 1) /\ 15 * (b - a) <= 8 * (w - 1)
    BY <2>1
  <2>4. QED
    BY <2>2, <2>3
<1>8. Multiple(a, g) = Multiple(b, g)
  BY <1>1, <1>2, <1>4, <1>5, UDetermines
<1>9. a = b
  BY <1>2, <1>7, <1>8, MultiplesDiffer
<1>10. Partial(s, (Len(s) + 2) \div 3) = Partial(t, (Len(s) + 2) \div 3)
  BY <1>4, <1>5, <1>9
<1>11. QED
  BY <1>10, BitsDetermined

\* ... and that two inputs of one segment have different hashes.
LEMMA IInvInjective ==
  ASSUME IInv
  PROVE  SegmentsAreInjective
<1> SUFFICES ASSUME job.gadget = "pedersen_hash", status = "done", Len(Bits) <= SegmentBits,
                    NEW other \in HashInputs, Len(other[2]) = Len(job.input[2]), Asserted(other[1]),
                    pedersen_hash(other[1], other[2])[1].u = result[1].u
             PROVE  other = job.input
  BY DEF SegmentsAreInjective
<1> DEFINE s == HashBits(job.input)
           t == HashBits(other)
<1>1. Bits = s
  BY DEF Bits, HashBits
<1>2. job.input \in HashInputs
  BY DEF IInv, HashInv
<1>3. /\ s \in Seq(Bit) /\ t \in Seq(Bit) /\ Len(s) > 0 /\ Len(s) = Len(t) /\ Len(s) <= SegmentBits
  <2>1. /\ s \in Seq(Bit) /\ Len(s) = 6 + Len(job.input[2]) /\ Len(s) > 0
        /\ t \in Seq(Bit) /\ Len(t) = 6 + Len(other[2])
    BY <1>2, HashBitsType
  <2>2. QED
    BY <1>1, <2>1
<1>4. PICK k \in 0 .. SegmentCount(s), m \in 0 .. PEDERSEN_HASH_CHUNKS_PER_GENERATOR : HashAt(s, k, m)
  BY DEF IInv, HashInv
<1>5. SegmentCount(s) \in Nat /\ k \in Nat
  <2>1. 0 \in Nat
    OBVIOUS
  <2> HIDE DEF s
  <2>2. SegmentCount(s) \in Nat
    BY <1>3, <2>1, SegmentsRead
  <2>3. QED
    BY <1>4, <2>2
<1>6. m = 0 /\ i >= Len(s) /\ k <= Len(PEDERSEN_HASH_GENERATORS)
  BY <1>4 DEF HashAt
<1>7. k > 0
  BY <1>2, <1>4, <1>5, <1>6, HashPlace
<1>8. 1 \in Segments
  <2>1. Len(PEDERSEN_HASH_GENERATORS) \in Nat
    BY PedersenAssumption
  <2>2. QED
    BY <1>5, <1>6, <1>7, <2>1 DEF Segments
<1>9. Asserted(job.input[1])
  <2> HIDE DEF s
  <2>1. QED
    BY <1>4, <1>7 DEF HashAt
<1>10. SegmentCount(s) = 1 /\ SegmentCount(t) = 1
  <2> HIDE DEF s, t
  <2>1. SegmentCount(s) = 1
    BY <1>3, <1>8, OneSegment
  <2>2. Len(t) > 0 /\ Len(t) <= SegmentBits
    BY <1>3
  <2>3. SegmentCount(t) = 1
    BY <1>3, <1>8, <2>2, OneSegment
  <2>4. QED
    BY <2>1, <2>3
<1>11. ~(1 > Len(PEDERSEN_HASH_GENERATORS))
  BY <1>8 DEF Segments
<1>12. pedersen_hash(other[1], other[2]) = <<PointSum(1, SegmentPoints(t))>>
  BY <1>10, <1>11, NativeHash
<1>13. result = <<PointSum(1, SegmentPoints(s))>>
  <2>1. result = pedersen_hash(job.input[1], job.input[2])
    BY IInvHash DEF CircuitHashIsNative
  <2>2. QED
    BY <1>9, <1>10, <1>11, <2>1, NativeHash
<1>14. PointSum(1, SegmentPoints(s)).u = PointSum(1, SegmentPoints(t)).u
  BY <1>12, <1>13
<1> HIDE DEF s, t
<1>15. s = t
  BY <1>3, <1>8, <1>14, OneSegmentDetermines
<1>16. QED
  BY <1>2, <1>9, <1>15, HashBitsDiffer DEF s, t

\* EdwardsPoint::mul and fixed_base_multiplication compute the multiple that the
\* bits spell, for any bits and any base, and assert_not_small_order accepts the
\* points of the curve whose order is not small, and only them.
THEOREM PointGadgetsExact == Spec => []PointGadgetsAreExact
<1>1. IInv => PointGadgetsAreExact
  BY IInvMultiples, IInvSmallOrder DEF PointGadgetsAreExact
<1>2. QED
  BY <1>1, InductiveInvariant, PTL

\* The circuit's pedersen_hash is that of pedersen_hash.rs, whatever assignment
\* the constraints admit, and panics where it does.
THEOREM CircuitHashNative == Spec => []CircuitHashIsNative
<1>1. IInv => CircuitHashIsNative
  BY IInvHash
<1>2. QED
  BY <1>1, InductiveInvariant, PTL

\* No gadget divides by zero or has no assignment, except for the pairs of
\* Montgomery points that ecc.rs documents.
THEOREM ExceptionsDocumented == Spec => []ExceptionsAreDocumented
<1>1. IInv => ExceptionsAreDocumented
  BY IInvExceptions
<1>2. QED
  BY <1>1, InductiveInvariant, PTL

\* Two inputs of one segment and one length are hashed to different
\* u-coordinates.
THEOREM SegmentsInjective == Spec => []SegmentsAreInjective
<1>1. IInv => SegmentsAreInjective
  BY IInvInjective
<1>2. QED
  BY <1>1, InductiveInvariant, PTL

=============================================================================
