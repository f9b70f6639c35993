--------------------------- MODULE Jubjub_proofs ----------------------------
(***************************************************************************)
(* The group law of the curve and the gadgets of circuit/ecc.rs, proved    *)
(* for any field of prime order, any curve and any subgroup with the       *)
(* properties that CurveAssumption names.                                  *)
(*                                                                         *)
(* The coordinates are integers that stand for elements of the field.  An  *)
(* equation of the field is a polynomial with integer coefficients that    *)
(* vanishes, that is, is a multiple of Q; it is proved by writing the      *)
(* polynomial as a combination of ones that vanish.  From it the additions *)
(* are complete, the sum of two points is a point, and the addition is     *)
(* associative, so that multiples count.                                   *)
(***************************************************************************)
EXTENDS CircuitEcc, Induction, TLAPS

-----------------------------------------------------------------------------
(* The field                                                                *)

\* The integers that stand for zero in the field, and for the same element
Vanishes(a) == \E k \in Int : a = k * Q
Same(a, b) == Vanishes(a - b)

\* The field is not empty: d lies in it and is not a square.
LEMMA FieldSize == Q \in Nat /\ Q > 2 /\ 1 \in Field /\ 0 \in Field
<1>1. Q \in Nat /\ EDWARDS_D \in 1 .. (Q - 1) /\ \A x \in 0 .. (Q - 1) : (x * x) % Q # EDWARDS_D
  BY CurveAssumption
<1>2. Q # 2
  <2>1. CASE Q = 2
    <3>1. EDWARDS_D = 1 /\ 1 \in 0 .. (Q - 1) /\ (1 * 1) % Q = 1
      BY <1>1, <2>1
    <3>2. QED
      BY <1>1, <3>1
  <2>2. QED
    BY <2>1
<1>3. QED
  BY <1>1, <1>2 DEF Field

\* Division with remainder, for any integer.
LEMMA Remainder ==
  ASSUME NEW a \in Int, NEW q \in Nat \ {0}
  PROVE  a % q \in 0 .. (q - 1) /\ a \div q \in Int /\ a = (a \div q) * q + (a % q)
  OBVIOUS

\* A remainder is an element of the field and stands for the integer.
LEMMA Reduced ==
  ASSUME NEW a \in Int
  PROVE  a % Q \in Field /\ Same(a % Q, a)
<1>1. a % Q \in 0 .. (Q - 1) /\ a \div Q \in Int /\ a = (a \div Q) * Q + (a % Q)
  BY FieldSize, Remainder
<1>2. (a % Q) - a = (-(a \div Q)) * Q
  BY <1>1, FieldSize
<1>3. QED
  BY <1>1, <1>2 DEF Field, Same, Vanishes

\* What vanishes is closed under combinations, and so under multiples.
LEMMA Combination ==
  ASSUME NEW a \in Int, NEW b \in Int, NEW x \in Int, NEW y \in Int, Vanishes(a),
         Vanishes(b)
  PROVE  Vanishes(x * a + y * b)
<1>1. PICK k \in Int : a = k * Q
  BY DEF Vanishes
<1>2. PICK l \in Int : b = l * Q
  BY DEF Vanishes
<1>3. x * a + y * b = (x * k + y * l) * Q
  BY <1>1, <1>2, FieldSize
<1>4. QED
  BY <1>3 DEF Vanishes

\* A multiple of what vanishes vanishes.
LEMMA MultipleVanishes ==
  ASSUME NEW a \in Int, NEW x \in Int, Vanishes(a)
  PROVE  Vanishes(x * a)
<1>1. PICK k \in Int : a = k * Q
  BY DEF Vanishes
<1>3. x * a = (x * k) * Q
  BY <1>1, FieldSize
<1>4. QED
  BY <1>3 DEF Vanishes

\* Equality in the field respects sums, differences ...
LEMMA SameSum ==
  ASSUME NEW a \in Int, NEW b \in Int, NEW c \in Int, NEW d \in Int, Same(a, b),
         Same(c, d)
  PROVE  Same(a + c, b + d) /\ Same(a - c, b - d)
<1>1. Vanishes(a - b) /\ Vanishes(c - d) /\ a - b \in Int /\ c - d \in Int
  BY DEF Same
<1> DEFINE e == a - b
           f == c - d
<1>2. Vanishes(1 * e + 1 * f) /\ Vanishes(1 * e + (-1) * f)
  <2>1. e \in Int /\ f \in Int /\ Vanishes(e) /\ Vanishes(f) /\ 1 \in Int /\ -1 \in Int
    BY <1>1
  <2> HIDE DEF e, f
  <2>2. Vanishes(1 * e + 1 * f)
    BY <2>1, Combination
  <2>3. Vanishes(1 * e + (-1) * f)
    BY <2>1, Combination
  <2>4. QED
    BY <2>2, <2>3
<1>3. 1 * (a - b) + 1 * (c - d) = (a + c) - (b + d) /\ 1 * (a - b) + (-1) * (c - d) = (a - c) - (b - d)
  OBVIOUS
<1>4. QED
  BY <1>2, <1>3 DEF Same

\* ... and products ...
LEMMA SameProduct ==
  ASSUME NEW a \in Int, NEW b \in Int, NEW c \in Int, NEW d \in Int, Same(a, b),
         Same(c, d)
  PROVE  Same(a * c, b * d)
<1>1. Vanishes(a - b) /\ Vanishes(c - d) /\ a - b \in Int /\ c - d \in Int
  BY DEF Same
<1>2. Vanishes(c * (a - b) + b * (c - d))
  BY <1>1, Combination
<1>3. c * (a - b) + b * (c - d) = a * c - b * d
  OBVIOUS
<1>4. QED
  BY <1>2, <1>3 DEF Same

\* ... and is an equivalence.
LEMMA SameTransitive ==
  ASSUME NEW a \in Int, NEW b \in Int, NEW c \in Int, Same(a, b), Same(b, c)
  PROVE  Same(a, c) /\ Same(b, a) /\ Same(a, a)
<1>1. Vanishes(a - b) /\ Vanishes(b - c) /\ a - b \in Int /\ b - c \in Int
  BY DEF Same
<1>2. Vanishes(1 * (a - b) + 1 * (b - c)) /\ Vanishes((-1) * (a - b)) /\ Vanishes(0 * (a - b))
  BY <1>1, Combination, MultipleVanishes
<1>3. /\ 1 * (a - b) + 1 * (b - c) = a - c
      /\ (-1) * (a - b) = b - a
      /\ 0 * (a - b) = a - a
  OBVIOUS
<1>4. QED
  BY <1>2, <1>3 DEF Same

\* Zero and equality have one representative each in the field.
LEMMA FieldZero ==
  ASSUME NEW a \in Field, Vanishes(a)
  PROVE  a = 0
<1>1. PICK k \in Int : a = k * Q
  BY DEF Vanishes
<1>2. Q \in Nat /\ Q > 0 /\ a \in Int /\ a >= 0 /\ a < Q
  BY FieldSize DEF Field
<1>3. k < 1
  <2>1. CASE k >= 1
    <3>1. k * Q >= Q
      BY <1>2, <2>1
    <3>2. QED
      BY <1>1, <1>2, <3>1
  <2>2. QED
    BY <2>1
<1>4. k > -1
  <2>1. CASE k <= -1
    <3>1. k * Q <= -Q
      BY <1>2, <2>1
    <3>2. QED
      BY <1>1, <1>2, <3>1
  <2>2. QED
    BY <2>1
<1>5. k = 0
  BY <1>3, <1>4
<1>6. QED
  BY <1>1, <1>2, <1>5

\* Equal elements of the field are equal numbers.
LEMMA FieldSame ==
  ASSUME NEW a \in Field, NEW b \in Field, Same(a, b)
  PROVE  a = b
<1>1. PICK k \in Int : a - b = k * Q
  BY DEF Same, Vanishes
<1>2. Q \in Nat /\ Q > 0 /\ a \in Int /\ a >= 0 /\ a < Q /\ b \in Int /\ b >= 0 /\ b < Q
  BY FieldSize DEF Field
<1>3. k < 1
  <2>1. CASE k >= 1
    <3>1. k * Q >= Q
      BY <1>2, <2>1
    <3>2. QED
      BY <1>1, <1>2, <3>1
  <2>2. QED
    BY <2>1
<1>4. k > -1
  <2>1. CASE k <= -1
    <3>1. k * Q <= -Q
      BY <1>2, <2>1
    <3>2. QED
      BY <1>1, <1>2, <3>1
  <2>2. QED
    BY <2>1
<1>5. k = 0
  BY <1>3, <1>4
<1>6. QED
  BY <1>1, <1>2, <1>5

\* The operations of the field are those of the integers.
LEMMA FieldOperations ==
  ASSUME NEW a \in Int, NEW b \in Int
  PROVE  /\ a \oplus b \in Field /\ Same(a \oplus b, a + b)
         /\ a \ominus b \in Field /\ Same(a \ominus b, a - b)
         /\ a \odot b \in Field /\ Same(a \odot b, a * b)
  BY Reduced DEF \oplus, \ominus, \odot

\* The recursion that defines Invert.
Inverting(f, x) == IF x = 1 THEN 1 ELSE ((Q - Q \div x) * f[Q % x]) % Q

\* The remainder is smaller and, the modulus being prime, not zero.
LEMMA RemainderBelow ==
  ASSUME NEW x \in 2 .. (Q - 1)
  PROVE  /\ Q % x \in 1 .. (x - 1) /\ Q \div x \in Int
         /\ Q = (Q \div x) * x + (Q % x)
<1>1. Q \in Nat /\ Q % x # 0
  BY CurveAssumption
<1>2. Q % x \in 0 .. (x - 1) /\ Q \div x \in Int /\ Q = (Q \div x) * x + (Q % x)
  <2>1. x \in Nat \ {0} /\ Q \in Int
    BY <1>1
  <2>2. QED
    BY <2>1, Remainder
<1>3. QED
  BY <1>1, <1>2

\* Invert satisfies the equation that defines it.
LEMMA InvertUnfolds ==
  Invert = [x \in 1 .. (Q - 1) |-> Inverting(Invert, x)]
<1> DEFINE P == {n \in Nat : n <= Q - 1 => \E v : v = [x \in 1 .. n |-> Inverting(v, x)]}
<1>1. Q \in Nat /\ Q > 2
  BY FieldSize
<1>2. \A f, g : \A x \in 2 .. (Q - 1) :
         f[Q % x] = g[Q % x] => Inverting(f, x) = Inverting(g, x)
  BY DEF Inverting
<1>3. \A f, g : Inverting(f, 1) = Inverting(g, 1)
  BY DEF Inverting
<1>4. 0 \in P
  <2> DEFINE v == [x \in 1 .. 0 |-> 0]
  <2>1. v = [x \in 1 .. 0 |-> Inverting(v, x)]
    OBVIOUS
  <2>2. QED
    BY <2>1
<1>5. ASSUME NEW n \in Nat, n \in P
      PROVE  n + 1 \in P
  <2>1. CASE n + 1 > Q - 1
    BY <1>1, <2>1
  <2>2. CASE n + 1 <= Q - 1
    <3>1. PICK v : v = [x \in 1 .. n |-> Inverting(v, x)]
      BY <1>1, <1>5, <2>2
    <3> DEFINE w == [x \in 1 .. (n + 1) |-> IF x <= n THEN v[x] ELSE Inverting(v, n + 1)]
    <3>2. \A x \in 1 .. n : w[x] = v[x]
      OBVIOUS
    <3>3. \A x \in 1 .. n : v[x] = Inverting(v, x)
      BY <3>1
    <3>4. w[n + 1] = Inverting(v, n + 1)
      OBVIOUS
    <3>5. w = [x \in 1 .. (n + 1) |-> w[x]]
      OBVIOUS
    <3> HIDE DEF w
    <3>6. \A x \in 1 .. (n + 1) : w[x] = Inverting(w, x)
      <4> TAKE x \in 1 .. (n + 1)
      <4>1. Inverting(w, x) = Inverting(v, x)
        <5>1. CASE x = 1
          BY <1>3, <5>1
        <5>2. CASE x # 1
          <6>1. x \in 2 .. (Q - 1)
            BY <1>1, <2>2, <5>2
          <6>2. Q % x \in 1 .. n
            BY <6>1, RemainderBelow
          <6>3. w[Q % x] = v[Q % x]
            BY <3>2, <6>2
          <6>4. QED
            BY <1>2, <6>1, <6>3
        <5>3. QED
          BY <5>1, <5>2
      <4>2. x \in 1 .. n \/ x = n + 1
        OBVIOUS
      <4>3. QED
        BY <3>2, <3>3, <3>4, <4>1, <4>2
    <3>7. w = [x \in 1 .. (n + 1) |-> Inverting(w, x)]
      BY <3>5, <3>6
    <3>8. QED
      BY <3>7
  <2>3. QED
    BY <1>1, <2>1, <2>2
<1>6. Q - 1 \in P
  <2> HIDE DEF P
  <2>1. QED
    BY <1>1, <1>4, <1>5, SetInduction
<1>7. Invert = CHOOSE v : v = [x \in 1 .. (Q - 1) |-> Inverting(v, x)]
  BY DEF Invert, Inverting
<1>8. \E v : v = [x \in 1 .. (Q - 1) |-> Inverting(v, x)]
  BY <1>1, <1>6
<1>9. QED
  BY <1>7, <1>8, Zenon

\* Q is prime, so every element but zero has an inverse and Invert is it.
LEMMA InvertExact ==
  ASSUME NEW y \in Field, y # 0
  PROVE  Invert[y] \in Field /\ Same(y * Invert[y], 1)
<1> DEFINE Good(x) == Invert[x] \in Field /\ Same(x * Invert[x], 1)
           P == {n \in Nat : \A x \in 1 .. n : x <= Q - 1 => Good(x)}
<1>1. Q \in Nat /\ Q > 2 /\ 1 \in Field /\ \A a \in Field : a \in Int
  BY FieldSize DEF Field
<1>2. \A x \in 1 .. (Q - 1) : Invert[x] = Inverting(Invert, x)
  BY InvertUnfolds, Zenon
<1>3. Good(1)
  <2>1. Invert[1] = 1
    BY <1>1, <1>2 DEF Inverting
  <2>2. 1 * Invert[1] - 1 = 0 * Q
    BY <1>1, <2>1
  <2>3. QED
    BY <1>1, <2>1, <2>2 DEF Same, Vanishes
<1>4. ASSUME NEW x \in 2 .. (Q - 1), Good(Q % x)
      PROVE  Good(x)
  <2> DEFINE r == Q % x
             q == Q \div x
             i == Invert[r]
             p == (Q - q) * i
  <2>1. r \in 1 .. (x - 1) /\ q \in Int /\ Q = q * x + r
    BY RemainderBelow
  <2>2. i \in Int /\ Same(r * i, 1)
    BY <1>1, <1>4
  <2>3. Invert[x] = p % Q
    BY <1>1, <1>2 DEF Inverting
  <2> HIDE DEF r, q, i
  <2>4. p \in Int
    BY <1>1, <2>1, <2>2
  <2>5. p % Q \in Field /\ Same(p % Q, p)
    BY <2>4, Reduced
  <2>6. x * p - r * i = (x * i - i) * Q
    <3>1. x * p = x * Q * i - (q * x) * i
      BY <1>1, <2>1, <2>2
    <3>2. q * x = Q - r
      BY <1>1, <2>1
    <3>3. x * p = x * Q * i - (Q - r) * i
      BY <3>1, <3>2
    <3>4. QED
      BY <1>1, <2>1, <2>2, <3>3
  <2>7. Same(x * p, r * i)
    <3>1. x * i - i \in Int
      BY <2>1, <2>2
    <3>2. QED
      BY <2>6, <3>1 DEF Same, Vanishes
  <2> HIDE DEF p
  <2>8. Same(x * (p % Q), x * p)
    <3>1. x \in Int /\ p % Q \in Int /\ Same(x, x)
      <4>1. x - x = 0 * Q
        BY <1>1
      <4>2. QED
        BY <1>1, <2>5, <4>1 DEF Same, Vanishes
    <3>2. QED
      BY <2>4, <2>5, <3>1, SameProduct
  <2>9. x * (p % Q) \in Int /\ x * p \in Int /\ r * i \in Int
    BY <1>1, <2>1, <2>2, <2>4, <2>5
  <2>10. Same(x * (p % Q), 1)
    BY <2>2, <2>7, <2>8, <2>9, SameTransitive
  <2>11. QED
    BY <2>3, <2>5, <2>10
<1>5. 0 \in P
  OBVIOUS
<1>6. ASSUME NEW n \in Nat, n \in P
      PROVE  n + 1 \in P
  <2>1. ASSUME n + 1 <= Q - 1
        PROVE  Good(n + 1)
    <3>1. CASE n = 0
      BY <1>3, <3>1
    <3>2. CASE n # 0
      <4>1. n + 1 \in 2 .. (Q - 1)
        BY <1>1, <2>1, <3>2
      <4>2. Q % (n + 1) \in 1 .. n /\ Q % (n + 1) <= Q - 1
        <5>1. Q % (n + 1) \in 1 .. ((n + 1) - 1)
          BY <4>1, RemainderBelow
        <5>2. QED
          BY <1>1, <2>1, <5>1
      <4>3. Good(Q % (n + 1))
        BY <1>6, <4>2
      <4> HIDE DEF Good
      <4>4. QED
        BY <1>4, <4>1, <4>3
    <3>3. QED
      BY <3>1, <3>2
  <2> HIDE DEF Good
  <2>2. \A x \in 1 .. (n + 1) : x <= Q - 1 => Good(x)
    BY <1>6, <2>1
  <2>3. QED
    BY <2>2
<1> HIDE DEF Good
<1>7. Q - 1 \in P
  <2> HIDE DEF P
  <2>1. QED
    BY <1>1, <1>5, <1>6, SetInduction
<1>8. y \in 1 .. (Q - 1)
  BY <1>1 DEF Field
<1>9. Good(y)
  BY <1>7, <1>8
<1>10. QED
  BY <1>9 DEF Good

\* The field has no divisors of zero.
LEMMA NoZeroDivisors ==
  ASSUME NEW a \in Int, NEW b \in Int, Vanishes(a * b)
  PROVE  Vanishes(a) \/ Vanishes(b)
<1>1. SUFFICES ASSUME ~Vanishes(a) PROVE Vanishes(b)
  OBVIOUS
<1> DEFINE r == a % Q
           i == Invert[r]
<1>2. r \in Field /\ Same(r, a) /\ Q \in Nat /\ \A x \in Field : x \in Int
  BY FieldSize, Reduced DEF Field
<1>3. r # 0
  <2>1. CASE r = 0
    <3>1. PICK k \in Int : 0 - a = k * Q
      BY <1>2, <2>1 DEF Same, Vanishes
    <3>2. a = (-k) * Q
      BY <1>2, <3>1
    <3>3. QED
      BY <1>1, <3>2 DEF Vanishes
  <2>2. QED
    BY <2>1
<1>4. i \in Field /\ Same(r * i, 1)
  BY <1>2, <1>3, InvertExact
<1> HIDE DEF r, i
<1>5. PICK k \in Int : r - a = k * Q
  BY <1>2 DEF Same, Vanishes
<1>6. PICK l \in Int : r * i - 1 = l * Q
  BY <1>4 DEF Same, Vanishes
<1>7. PICK m \in Int : a * b = m * Q
  BY DEF Vanishes
<1>8. r \in Int /\ i \in Int
  BY <1>2, <1>4
<1>9. b = (m * i + k * b * i - l * b) * Q
  <2>1. b = r * i * b - l * Q * b
    <3>1. 1 = r * i - l * Q
      BY <1>2, <1>6, <1>8
    <3>2. b * 1 = b * (r * i - l * Q)
      BY <3>1
    <3>3. QED
      BY <1>2, <1>8, <3>2
  <2>2. r = a + k * Q
    BY <1>2, <1>5, <1>8
  <2>3. r * i * b = (a * b) * i + k * Q * i * b
    BY <1>2, <1>8, <2>2
  <2>4. r * i * b = (m * Q) * i + k * Q * i * b
    BY <1>7, <2>3
  <2>5. QED
    BY <1>2, <1>8, <2>1, <2>4
<1>10. m * i + k * b * i - l * b \in Int
  BY <1>8
<1>11. QED
  BY <1>9, <1>10 DEF Vanishes

\* A quotient is the only element of the field that the divisor takes to n.
LEMMA Quotient ==
  ASSUME NEW n \in Int, NEW d \in Field, d # 0
  PROVE  /\ n \oslash d \in Field /\ Same(d * (n \oslash d), n)
         /\ \A x \in Field : Same(d * x, n) => x = n \oslash d
<1> DEFINE i == Invert[d]
           x == n \oslash d
<1>1. \A y \in Field : y \in Int
  BY FieldSize DEF Field
<1>2. i \in Field /\ Same(d * i, 1)
  BY InvertExact
<1>3. x = n \odot i
  BY DEF \oslash
<1> HIDE DEF i, x
<1>4. x \in Field /\ Same(x, n * i)
  BY <1>1, <1>2, <1>3, FieldOperations
<1>5. PICK k \in Int : d * i - 1 = k * Q
  BY <1>2 DEF Same, Vanishes
<1>6. PICK l \in Int : x - n * i = l * Q
  BY <1>4 DEF Same, Vanishes
<1>7. Q \in Nat /\ d \in Int /\ i \in Int /\ x \in Int
  BY <1>1, <1>2, <1>4, FieldSize
<1>8. d * x - n = (d * l + n * k) * Q
  <2>1. x = n * i + l * Q /\ d * i = 1 + k * Q
    BY <1>5, <1>6, <1>7
  <2>2. d * x = n * (d * i) + d * l * Q
    BY <1>7, <2>1
  <2>3. d * x = n * (1 + k * Q) + d * l * Q
    BY <2>1, <2>2
  <2>4. QED
    BY <1>7, <2>3
<1>9. Same(d * x, n)
  <2>1. d * l + n * k \in Int
    BY <1>7
  <2>2. QED
    BY <1>8, <2>1 DEF Same, Vanishes
<1>10. ASSUME NEW y \in Field, Same(d * y, n)
       PROVE  y = x
  <2>1. y \in Int
    BY <1>1
  <2>2. PICK m \in Int : d * y - n = m * Q
    BY <1>10 DEF Same, Vanishes
  <2>3. d * (y - x) = (m - (d * l + n * k)) * Q
    BY <1>7, <1>8, <2>1, <2>2
  <2>4. Vanishes(d * (y - x)) /\ y - x \in Int
    BY <1>7, <2>1, <2>3 DEF Vanishes
  <2>5. Vanishes(d) \/ Vanishes(y - x)
    BY <1>7, <2>4, NoZeroDivisors
  <2>6. ~Vanishes(d)
    BY FieldZero
  <2>7. QED
    BY <1>4, <2>5, <2>6, FieldSame DEF Same
<1>11. QED
  BY <1>4, <1>9, <1>10 DEF x

-----------------------------------------------------------------------------
(* The addition law is complete                                             *)

\* r is a combination of four integers.
Combines(r, a, x, b, y, c, z, d, w) ==
  /\ a \in Int /\ b \in Int /\ c \in Int /\ d \in Int
  /\ x \in Int /\ y \in Int /\ z \in Int /\ w \in Int
  /\ r = x * a + y * b + z * c + w * d

\* A combination of four integers that vanish, for the provers an opaque whole.
LEMMA CombinationVanishes ==
  ASSUME NEW a, NEW b, NEW c, NEW d, NEW x, NEW y, NEW z, NEW w, NEW r,
         Combines(r, a, x, b, y, c, z, d, w),
         Vanishes(a), Vanishes(b), Vanishes(c), Vanishes(d)
  PROVE  Vanishes(r)
<1>1. PICK k \in Int : a = k * Q
  BY DEF Vanishes
<1>2. PICK l \in Int : b = l * Q
  BY DEF Vanishes
<1>3. PICK m \in Int : c = m * Q
  BY DEF Vanishes
<1>4. PICK n \in Int : d = n * Q
  BY DEF Vanishes
<1>5. /\ x \in Int /\ y \in Int /\ z \in Int /\ w \in Int
      /\ r = x * a + y * b + z * c + w * d
  BY DEF Combines
<1>6. r = x * (k * Q) + y * (l * Q) + z * (m * Q) + w * (n * Q)
  BY <1>1, <1>2, <1>3, <1>4, <1>5
<1>7. r = (x * k + y * l + z * m + w * n) * Q
  BY <1>5, <1>6, FieldSize
<1>8. x * k + y * l + z * m + w * n \in Int
  BY <1>5
<1>9. QED
  BY <1>7, <1>8 DEF Vanishes

\* Zero vanishes.
LEMMA ZeroVanishes == Vanishes(0)
<1>1. 0 = 0 * Q
  BY FieldSize
<1>2. QED
  BY <1>1 DEF Vanishes

\* EDWARDS_D is not a square.
LEMMA NonSquare ==
  ASSUME NEW a \in Int, NEW b \in Int, Vanishes(b * b - EDWARDS_D * (a * a))
  PROVE  Vanishes(a)
<1>1. SUFFICES ASSUME ~Vanishes(a) PROVE FALSE
  OBVIOUS
<1> DEFINE d == a % Q
           x == b \oslash d
<1>2. d \in Field /\ Same(d, a) /\ Q \in Nat /\ \A y \in Field : y \in Int
  BY FieldSize, Reduced DEF Field
<1>3. d # 0
  <2>1. CASE d = 0
    <3>1. PICK k \in Int : 0 - a = k * Q
      BY <1>2, <2>1 DEF Same, Vanishes
    <3>2. a = (-k) * Q
      BY <1>2, <3>1
    <3>3. QED
      BY <1>1, <3>2 DEF Vanishes
  <2>2. QED
    BY <2>1
<1>4. x \in Field /\ Same(d * x, b)
  BY <1>2, <1>3, Quotient
<1> HIDE DEF d, x
<1>5. d \in Int /\ x \in Int /\ EDWARDS_D \in Int /\ EDWARDS_D \in Field
  BY <1>2, <1>4, CurveAssumption DEF Field
<1>6. Vanishes(d - a) /\ Vanishes(d * x - b)
  BY <1>2, <1>4 DEF Same
<1> DEFINE A == d - a
           B == d * x - b
           C == b * b - EDWARDS_D * (a * a)
           r == a * a * (x * x - EDWARDS_D)
<1>8. Combines(r, A, -(a + d) * (x * x), B, d * x + b, C, 1, 0, 0)
  <2>1. A \in Int /\ B \in Int /\ C \in Int /\ -(a + d) * (x * x) \in Int /\ d * x + b \in Int
    BY <1>5
  <2>2. (-(a + d) * (x * x)) * A = (a * a - d * d) * (x * x)
    BY <1>5
  <2>3. (d * x + b) * B = d * d * (x * x) - b * b
    BY <1>5
  <2>4. r = (-(a + d) * (x * x)) * A + (d * x + b) * B + 1 * C + 0 * 0
    BY <1>5, <2>2, <2>3
  <2>5. QED
    BY <2>1, <2>4 DEF Combines
<1>9. Vanishes(r)
  <2>1. Vanishes(A) /\ Vanishes(B) /\ Vanishes(C) /\ Vanishes(0)
    BY <1>6, ZeroVanishes
  <2> HIDE DEF A, B, C, r
  <2>2. QED
    BY <1>8, <2>1, CombinationVanishes
<1>10. Vanishes(x * x - EDWARDS_D)
  <2>1. a * a \in Int /\ x * x - EDWARDS_D \in Int
    BY <1>5
  <2>2. Vanishes(a * a) \/ Vanishes(x * x - EDWARDS_D)
    BY <1>9, <2>1, NoZeroDivisors
  <2>3. ~Vanishes(a * a)
    BY <1>1, NoZeroDivisors
  <2>4. QED
    BY <2>2, <2>3
<1>11. (x * x) % Q = EDWARDS_D
  <2>1. (x * x) % Q \in Field /\ Same((x * x) % Q, x * x)
    BY <1>5, Reduced
  <2>2. Same(x * x, EDWARDS_D)
    BY <1>10 DEF Same
  <2>3. Same((x * x) % Q, EDWARDS_D)
    <3>1. x * x \in Int
      BY <1>5
    <3>2. (x * x) % Q \in Int
      BY <1>2, <2>1
    <3>3. QED
      BY <1>5, <2>1, <2>2, <3>1, <3>2, SameTransitive
  <2>4. QED
    BY <1>5, <2>1, <2>3, FieldSame
<1>12. QED
  BY <1>4, <1>11, CurveAssumption DEF Field

Curve(x, y) == y * y - x * x - 1 - EDWARDS_D * ((x * x) * (y * y))

\* If the denominators of a sum met zero, d would be a square: the argument
\* of Bernstein and Lange, with j the root of -1.
LEMMA SquareOfTheSum ==
  ASSUME NEW D \in Int, NEW j \in Int, NEW e \in {1, -1},
         NEW x1 \in Int, NEW y1 \in Int, NEW x2 \in Int, NEW y2 \in Int
  PROVE  (j * x1 + e * y1) * (j * x1 + e * y1)
           - D * (((x1 * y1) * (j * x2 + y2)) * ((x1 * y1) * (j * x2 + y2)))
         = (x1 * x1 - D * ((x1 * y1) * (x1 * y1)) * (x2 * x2)) * (j * j + 1)
           + 1 * (y1 * y1 - x1 * x1 - 1 - D * ((x1 * x1) * (y1 * y1)))
           + (-D * ((x1 * y1) * (x1 * y1))) * (y2 * y2 - x2 * x2 - 1 - D * ((x2 * x2) * (y2 * y2)))
           + (e + D * ((x1 * y2) * (y1 * x2)) + 2 * j * (x1 * y1)) * (e - D * ((x1 * y2) * (y1 * x2)))
  BY SMTT(30)

\* What the denominators of the addition law add to one and take from it.
Cross(x1, y1, x2, y2) == EDWARDS_D * ((x1 * y2) * (y1 * x2))

\* The characteristic is not two.
LEMMA TwoIsNotZero == ~Vanishes(2)
<1>1. Q \in Nat /\ Q > 2
  BY FieldSize
<1>2. 2 \in Field
  BY <1>1 DEF Field
<1>3. QED
  BY <1>2, FieldZero

\* The addition law is complete: its denominators never vanish on the curve.
LEMMA Completeness ==
  ASSUME NEW x1 \in Int, NEW y1 \in Int, NEW x2 \in Int, NEW y2 \in Int,
         Vanishes(Curve(x1, y1)), Vanishes(Curve(x2, y2)), NEW e \in {1, -1}
  PROVE  ~Vanishes(e - Cross(x1, y1, x2, y2))
<1> SUFFICES ASSUME Vanishes(e - Cross(x1, y1, x2, y2)) PROVE FALSE
  OBVIOUS
<1> DEFINE D == EDWARDS_D
           t == Cross(x1, y1, x2, y2)
           w == x1 * y1
           C1 == Curve(x1, y1)
           C2 == Curve(x2, y2)
<1>1. D \in Int /\ Q \in Nat /\ Q > 2
  BY CurveAssumption, FieldSize
<1>2. PICK j \in Int : Vanishes(j * j + 1)
  <2>1. PICK x \in 0 .. (Q - 1) : (x * x) % Q = Q - 1
    BY CurveAssumption
  <2>2. x \in Int /\ x * x \in Int
    BY <1>1, <2>1
  <2>3. (x * x) \div Q \in Int /\ x * x = ((x * x) \div Q) * Q + ((x * x) % Q)
    BY <1>1, <2>2, Remainder
  <2>4. x * x + 1 = ((x * x) \div Q + 1) * Q
    BY <1>1, <2>1, <2>2, <2>3
  <2>5. Vanishes(x * x + 1)
    BY <2>3, <2>4 DEF Vanishes
  <2>6. QED
    BY <2>2, <2>5
<1>3. t \in Int /\ w \in Int /\ C1 \in Int /\ C2 \in Int
  BY <1>1 DEF Cross, Curve
<1>4. ASSUME NEW i \in Int, Vanishes(i * i + 1)
      PROVE  Vanishes(w * (i * x2 + y2))
  <2> DEFINE b == i * x1 + e * y1
             a == w * (i * x2 + y2)
             r == b * b - D * (a * a)
             k1 == x1 * x1 - D * (w * w) * (x2 * x2)
             k3 == -D * (w * w)
             k4 == e + t + 2 * i * w
  <2>1. a \in Int /\ b \in Int /\ k1 \in Int /\ k3 \in Int /\ k4 \in Int
    BY <1>1, <1>3
  <2>2. r = k1 * (i * i + 1) + 1 * C1 + k3 * C2 + k4 * (e - t)
    BY <1>1, SquareOfTheSum DEF Curve, Cross
  <2>3. Combines(r, i * i + 1, k1, C1, 1, C2, k3, e - t, k4)
    <3> HIDE DEF r, k1, k3, k4, C1, C2, t
    <3>1. QED
      BY <1>3, <2>1, <2>2 DEF Combines
  <2>4. Vanishes(r)
    <3> HIDE DEF r, k1, k3, k4
    <3>1. QED
      BY <1>4, <2>3, CombinationVanishes
  <2>5. QED
    <3> HIDE DEF a, b
    <3>1. Vanishes(b * b - EDWARDS_D * (a * a))
      BY <2>4
    <3>2. Vanishes(a)
      BY <2>1, <3>1, NonSquare
    <3>3. QED
      BY <3>2 DEF a
<1>5. ~Vanishes(t)
  <2> SUFFICES ASSUME Vanishes(t) PROVE FALSE
    OBVIOUS
  <2>1. Combines(e, e - t, 1, t, 1, 0, 0, 0, 0)
    BY <1>3 DEF Combines
  <2>2. Vanishes(e)
    BY <2>1, ZeroVanishes, CombinationVanishes
  <2>3. PICK l \in Int : e = l * Q
    BY <2>2 DEF Vanishes
  <2>4. l = 0 \/ l >= 1 \/ l <= -1
    OBVIOUS
  <2>5. l >= 1 => l * Q >= Q
    BY <1>1
  <2>6. l <= -1 => l * Q <= -Q
    BY <1>1
  <2>7. QED
    BY <1>1, <2>3, <2>4, <2>5, <2>6
<1>6. ~Vanishes(w)
  <2> DEFINE k == D * (y2 * x2)
  <2>1. k \in Int /\ t = k * w
    BY <1>1 DEF Cross
  <2> HIDE DEF k, w, t
  <2>2. QED
    BY <1>3, <1>5, <2>1, MultipleVanishes
<1>7. ~Vanishes(y2)
  <2> DEFINE k == D * (x1 * (y1 * x2))
  <2>1. k \in Int /\ t = k * y2
    BY <1>1 DEF Cross
  <2> HIDE DEF k, t
  <2>2. QED
    BY <1>5, <2>1, MultipleVanishes
<1>8. Vanishes(j * x2 + y2) /\ Vanishes((-j) * x2 + y2)
  <2>1. PICK i \in Int : i = -j
    OBVIOUS
  <2>2. Vanishes(w * (j * x2 + y2)) /\ Vanishes(w * ((-j) * x2 + y2))
    <3> HIDE DEF w
    <3>1. i * i + 1 = j * j + 1
      BY <2>1
    <3>2. Vanishes(i * i + 1)
      BY <1>2, <3>1
    <3>3. Vanishes(w * (j * x2 + y2)) /\ Vanishes(w * (i * x2 + y2))
      BY <1>2, <1>4, <3>2
    <3>4. QED
      BY <2>1, <3>3
  <2> DEFINE a == j * x2 + y2
             b == (-j) * x2 + y2
  <2>3. a \in Int /\ b \in Int /\ Vanishes(w * a) /\ Vanishes(w * b)
    BY <2>2
  <2> HIDE DEF a, b, w
  <2>4. Vanishes(a) /\ Vanishes(b)
    BY <1>3, <1>6, <2>3, NoZeroDivisors
  <2>5. QED
    BY <2>4 DEF a, b
<1>9. Vanishes(2 * y2)
  <2> DEFINE a == j * x2 + y2
             b == (-j) * x2 + y2
  <2>1. Combines(2 * y2, a, 1, b, 1, 0, 0, 0, 0)
    BY DEF Combines
  <2> HIDE DEF a, b
  <2>2. QED
    BY <1>8, <2>1, ZeroVanishes, CombinationVanishes DEF a, b
<1>10. QED
  BY <1>7, <1>9, TwoIsNotZero, NoZeroDivisors

\* A field element that stands for an integer.
Stands(a, c) == a \in Field /\ c \in Int /\ Same(a, c)

\* It stands for itself.
LEMMA StandsForItself == \A a \in Field : Stands(a, a)
<1> SUFFICES ASSUME NEW a \in Field PROVE Stands(a, a)
  OBVIOUS
<1>1. a \in Int /\ a - a = 0
  BY FieldSize DEF Field
<1>2. QED
  BY <1>1, ZeroVanishes DEF Stands, Same

\* An operation of the field stands for that of the integers.
LEMMA StandsThrough ==
  ASSUME NEW a, NEW b, NEW c, NEW d, Stands(a, c), Stands(b, d)
  PROVE  /\ Stands(a \oplus b, c + d)
         /\ Stands(a \ominus b, c - d)
         /\ Stands(a \odot b, c * d)
<1>1. /\ a \in Int /\ b \in Int /\ c \in Int /\ d \in Int
      /\ Same(a, c) /\ Same(b, d)
  BY FieldSize DEF Field, Stands
<1>2. /\ a \oplus b \in Field /\ Same(a \oplus b, a + b)
      /\ a \ominus b \in Field /\ Same(a \ominus b, a - b)
      /\ a \odot b \in Field /\ Same(a \odot b, a * b)
  BY <1>1, FieldOperations
<1>3. Same(a + b, c + d) /\ Same(a - b, c - d)
  BY <1>1, SameSum
<1>4. Same(a * b, c * d)
  BY <1>1, SameProduct
<1>5. \A x, y, z : x \in Field /\ Same(x, y) /\ y \in Int /\ Same(y, z) /\ z \in Int => Stands(x, z)
  <2> SUFFICES ASSUME NEW x \in Field, NEW y \in Int, NEW z \in Int, Same(x, y), Same(y, z)
               PROVE  Stands(x, z)
    OBVIOUS
  <2>1. x \in Int
    BY FieldSize DEF Field
  <2>2. QED
    BY <2>1, SameTransitive DEF Stands
<1>6. /\ a + b \in Int /\ c + d \in Int /\ a - b \in Int /\ c - d \in Int
      /\ a * b \in Int /\ c * d \in Int
  BY <1>1
<1>7. QED
  BY <1>2, <1>3, <1>4, <1>5, <1>6

\* A quotient is the one solution of its equation.
LEMMA QuotientOfStands ==
  ASSUME NEW n, NEW d, NEW m, NEW e, Stands(n, m), Stands(d, e), ~Vanishes(e)
  PROVE  n \oslash d \in Field /\ Same(e * (n \oslash d), m) /\ d # 0
<1>1. /\ n \in Int /\ d \in Int /\ m \in Int /\ e \in Int /\ n \in Field /\ d \in Field
      /\ Same(n, m) /\ Same(d, e)
  BY FieldSize DEF Field, Stands
<1>2. d # 0
  <2>1. CASE d = 0
    <3>1. PICK k \in Int : 0 - e = k * Q
      BY <1>1, <2>1 DEF Same, Vanishes
    <3>2. e = (-k) * Q
      BY <1>1, <3>1, FieldSize
    <3>3. QED
      BY <3>2 DEF Vanishes
  <2>2. QED
    BY <2>1
<1> DEFINE x == n \oslash d
<1>3. x \in Field /\ Same(d * x, n)
  BY <1>1, <1>2, Quotient
<1> HIDE DEF x
<1>4. x \in Int
  BY <1>3, FieldSize DEF Field
<1>5. Combines(e * x - m, d - e, -x, d * x - n, 1, n - m, 1, 0, 0)
  BY <1>1, <1>4 DEF Combines
<1>6. Vanishes(d - e) /\ Vanishes(d * x - n) /\ Vanishes(n - m)
  BY <1>1, <1>3 DEF Same
<1>7. Same(e * x, m)
  BY <1>5, <1>6, ZeroVanishes, CombinationVanishes DEF Same
<1>8. QED
  BY <1>2, <1>3, <1>7 DEF x

\* A point is on the curve exactly if the curve's polynomial vanishes there.
LEMMA PointCoordinates ==
  ASSUME NEW p \in [u : Field, v : Field]
  PROVE  /\ p.u \in Int /\ p.v \in Int /\ p.u \in Field /\ p.v \in Field
         /\ OnCurve(p) <=> Vanishes(Curve(p.u, p.v))
<1>1. p.u \in Field /\ p.v \in Field /\ p.u \in Int /\ p.v \in Int /\ EDWARDS_D \in Field /\ 1 \in Field
  BY FieldSize, CurveAssumption DEF Field
<1> DEFINE U == p.u \odot p.u
           V == p.v \odot p.v
           u2 == p.u * p.u
           v2 == p.v * p.v
<1>2. Stands(U, u2) /\ Stands(V, v2)
  BY <1>1, StandsForItself, StandsThrough
<1> HIDE DEF U, V, u2, v2
<1>3. Stands(V \ominus U, v2 - u2) /\ Stands(U \odot V, u2 * v2)
  BY <1>2, StandsThrough
<1>4. Stands(EDWARDS_D \odot (U \odot V), EDWARDS_D * (u2 * v2))
  BY <1>1, <1>3, StandsForItself, StandsThrough
<1>5. Stands(1 \oplus (EDWARDS_D \odot (U \odot V)), 1 + EDWARDS_D * (u2 * v2))
  BY <1>1, <1>4, StandsForItself, StandsThrough
<1> DEFINE l == V \ominus U
           r == 1 \oplus (EDWARDS_D \odot (U \odot V))
           a == v2 - u2
           b == 1 + EDWARDS_D * (u2 * v2)
<1>6. OnCurve(p) <=> l = r
  BY DEF OnCurve, U, V
<1>7. Stands(l, a) /\ Stands(r, b)
  BY <1>3, <1>5
<1>8. a - b = Curve(p.u, p.v)
  <2>1. u2 \in Int /\ v2 \in Int /\ EDWARDS_D \in Int
    BY <1>1 DEF u2, v2, Field
  <2>2. Curve(p.u, p.v) = v2 - u2 - 1 - EDWARDS_D * (u2 * v2)
    BY DEF Curve, u2, v2
  <2>3. QED
    BY <2>1, <2>2
<1> HIDE DEF l, r, a, b
<1>9. l \in Int /\ r \in Int /\ a \in Int /\ b \in Int /\ l \in Field /\ r \in Field
  BY <1>7, FieldSize DEF Stands, Field
<1>10. l = r => Vanishes(a - b)
  <2> SUFFICES ASSUME l = r PROVE Vanishes(a - b)
    OBVIOUS
  <2>1. Combines(a - b, l - a, -1, r - b, 1, 0, 0, 0, 0)
    BY <1>9 DEF Combines
  <2>2. Vanishes(l - a) /\ Vanishes(r - b)
    BY <1>7 DEF Stands, Same
  <2>3. QED
    BY <2>1, <2>2, ZeroVanishes, CombinationVanishes
<1>11. Vanishes(a - b) => l = r
  <2> SUFFICES ASSUME Vanishes(a - b) PROVE l = r
    OBVIOUS
  <2>1. Combines(l - r, l - a, 1, a - b, 1, r - b, -1, 0, 0)
    BY <1>9 DEF Combines
  <2>2. Vanishes(l - a) /\ Vanishes(r - b)
    BY <1>7 DEF Stands, Same
  <2>3. Vanishes(l - r)
    BY <2>1, <2>2, ZeroVanishes, CombinationVanishes
  <2>4. QED
    BY <1>9, <2>3, FieldSame DEF Same
<1>12. QED
  BY <1>1, <1>6, <1>8, <1>10, <1>11

\* What the addition law computes: (u, v) is the sum of the two points.
Adds(x1, y1, x2, y2, u, v) ==
  /\ Same((1 + Cross(x1, y1, x2, y2)) * u, x1 * y2 + y1 * x2)
  /\ Same((1 - Cross(x1, y1, x2, y2)) * v, y1 * y2 + x1 * x2)

\* Plus solves them, and divides by nothing that is zero.
LEMMA PlusAdds ==
  ASSUME NEW p \in Points, NEW q \in Points
  PROVE  /\ Plus(p, q) \in [u : Field, v : Field]
         /\ Adds(p.u, p.v, q.u, q.v, Plus(p, q).u, Plus(p, q).v)
         /\ ~Vanishes(1 + Cross(p.u, p.v, q.u, q.v))
         /\ ~Vanishes(1 - Cross(p.u, p.v, q.u, q.v))
<1> DEFINE x1 == p.u
           y1 == p.v
           x2 == q.u
           y2 == q.v
           t == Cross(x1, y1, x2, y2)
<1>1. /\ x1 \in Field /\ y1 \in Field /\ x2 \in Field /\ y2 \in Field
      /\ x1 \in Int /\ y1 \in Int /\ x2 \in Int /\ y2 \in Int
      /\ Vanishes(Curve(x1, y1)) /\ Vanishes(Curve(x2, y2))
  BY PointCoordinates DEF Points
<1>2. EDWARDS_D \in Field /\ 1 \in Field /\ EDWARDS_D \in Int
  BY FieldSize, CurveAssumption DEF Field
<1>3. ~Vanishes(1 + t) /\ ~Vanishes(1 - t)
  <2>1. ~Vanishes(1 - t) /\ ~Vanishes(-1 - t)
    BY <1>1, Completeness
  <2>2. t \in Int
    BY <1>1, <1>2 DEF Cross
  <2>3. Combines(-1 - t, 1 + t, -1, 0, 0, 0, 0, 0, 0)
    BY <2>2 DEF Combines
  <2>4. QED
    BY <2>1, <2>3, ZeroVanishes, CombinationVanishes
<1> DEFINE uv == x1 \odot y2
           vu == y1 \odot x2
           c  == EDWARDS_D \odot (uv \odot vu)
           vv == y1 \odot y2
           uu == x1 \odot x2
<1>4. Plus(p, q) = [u |-> (uv \oplus vu) \oslash (1 \oplus c),
                    v |-> (vv \oplus uu) \oslash (1 \ominus c)]
  BY DEF Plus
<1>5. /\ Stands(uv, x1 * y2) /\ Stands(vu, y1 * x2)
      /\ Stands(vv, y1 * y2) /\ Stands(uu, x1 * x2)
  <2> HIDE DEF x1, y1, x2, y2
  <2>1. QED
    BY <1>1, StandsForItself, StandsThrough
<1>6. Stands(c, t)
  <2> DEFINE a == x1 * y2
             b == y1 * x2
  <2>1. Stands(uv, a) /\ Stands(vu, b) /\ t = EDWARDS_D * (a * b)
    BY <1>5 DEF Cross
  <2> HIDE DEF a, b, uv, vu, t
  <2>2. Stands(uv \odot vu, a * b)
    BY <2>1, StandsThrough
  <2>3. Stands(c, EDWARDS_D * (a * b))
    BY <1>2, <2>2, StandsForItself, StandsThrough
  <2>4. QED
    BY <2>1, <2>3
<1> HIDE DEF c, uv, vu, vv, uu, t
<1>7. Stands(1 \oplus c, 1 + t) /\ Stands(1 \ominus c, 1 - t)
  BY <1>2, <1>6, StandsForItself, StandsThrough
<1>8. Stands(uv \oplus vu, x1 * y2 + y1 * x2) /\ Stands(vv \oplus uu, y1 * y2 + x1 * x2)
  BY <1>5, StandsThrough
<1> DEFINE u == (uv \oplus vu) \oslash (1 \oplus c)
           v == (vv \oplus uu) \oslash (1 \ominus c)
<1>9. u \in Field /\ Same((1 + t) * u, x1 * y2 + y1 * x2)
  BY <1>3, <1>7, <1>8, QuotientOfStands
<1>10. v \in Field /\ Same((1 - t) * v, y1 * y2 + x1 * x2)
  BY <1>3, <1>7, <1>8, QuotientOfStands
<1> HIDE DEF u, v
<1>11. Plus(p, q) = [u |-> u, v |-> v]
  BY <1>4 DEF u, v
<1>12. Adds(x1, y1, x2, y2, u, v)
  BY <1>9, <1>10 DEF Adds, t
<1>13. QED
  BY <1>3, <1>9, <1>10, <1>11, <1>12 DEF t

-----------------------------------------------------------------------------
(* The sum of two points is a point                                         *)

\* The sum of two points is on the curve: the polynomial identity ...
LEMMA ClosureIdentity ==
  ASSUME NEW a \in Int, NEW b \in Int, NEW M \in Int, NEW N \in Int
  PROVE  (M * N) * (1 + a * b) - (1 - a * b) * (1 - a * b) - a * (N * N) - b * (M * M)
         = (-((b * b) * (a + M - 1)) + (M * N) * b + 2 * b - N * N) * (a - M + 1)
           + (-(((M - 1) * (M - 1)) * (b + N - 1)) + (M * N) * (M - 1) + 2 * (M - 1) - M * M) * (b - N + 1)
  BY SMTT(60)

\* ... the square of the product of the sum's coordinates ...
LEMMA ClosureSquares ==
  ASSUME NEW D \in Int, NEW w1 \in Int, NEW w2 \in Int, NEW S1 \in Int, NEW S2 \in Int,
         NEW M1 \in Int, NEW M2 \in Int,
         S1 * S1 = M1 * M1 + 4 * (w1 * w1), S2 * S2 = M2 * M2 + 4 * (w2 * w2)
  PROVE  D * ((w1 * S2 + w2 * S1) * (w1 * S2 + w2 * S1))
         = (D * (w1 * w1)) * (M2 * M2) + (D * (w2 * w2)) * (M1 * M1)
             + 2 * ((D * (w1 * w2)) * (S1 * S2 + 4 * (w1 * w2)))
<1>1. D * ((w1 * S2 + w2 * S1) * (w1 * S2 + w2 * S1))
        = (D * (w1 * w1)) * (S2 * S2) + (D * (w2 * w2)) * (S1 * S1) + 2 * ((D * (w1 * w2)) * (S1 * S2))
  OBVIOUS
<1>2. (D * (w1 * w1)) * (S2 * S2) = (D * (w1 * w1)) * (M2 * M2 + 4 * (w2 * w2))
  OBVIOUS
<1>3. (D * (w2 * w2)) * (S1 * S1) = (D * (w2 * w2)) * (M1 * M1 + 4 * (w1 * w1))
  OBVIOUS
<1>4. (D * (w1 * w1)) * (M2 * M2 + 4 * (w2 * w2)) + (D * (w2 * w2)) * (M1 * M1 + 4 * (w1 * w1)) + 2 * ((D * (w1 * w2)) * (S1 * S2))
       = (D * (w1 * w1)) * (M2 * M2) + (D * (w2 * w2)) * (M1 * M1)
             + 2 * ((D * (w1 * w2)) * (S1 * S2 + 4 * (w1 * w2)))
  OBVIOUS
<1>5. QED
  BY <1>1, <1>2, <1>3, <1>4

\* The combination of two curve equations that gives the one of the sum.
SumCombines(D, w1, w2, S1, S2, M1, M2, t) ==
  \E k1, k2 \in Int :
     (M1 * M2) * (1 + t * t) + 2 * (t * (S1 * S2 + 4 * (w1 * w2)))
       - (1 - t * t) * (1 - t * t)
       - D * ((w1 * S2 + w2 * S1) * (w1 * S2 + w2 * S1))
     = k1 * (D * (w1 * w1) - M1 + 1) + k2 * (D * (w2 * w2) - M2 + 1)

\* The combination exists.
LEMMA ClosureCore ==
  ASSUME NEW D \in Int, NEW w1 \in Int, NEW w2 \in Int, NEW S1 \in Int, NEW S2 \in Int,
         NEW M1 \in Int, NEW M2 \in Int, NEW t \in Int, t = D * (w1 * w2),
         S1 * S1 = M1 * M1 + 4 * (w1 * w1), S2 * S2 = M2 * M2 + 4 * (w2 * w2)
  PROVE  SumCombines(D, w1, w2, S1, S2, M1, M2, t)
<1> DEFINE a == D * (w1 * w1)
           b == D * (w2 * w2)
           G == S1 * S2 + 4 * (w1 * w2)
           H == D * ((w1 * S2 + w2 * S1) * (w1 * S2 + w2 * S1))
           k1 == -((b * b) * (a + M1 - 1)) + (M1 * M2) * b + 2 * b - M2 * M2
           k2 == -(((M1 - 1) * (M1 - 1)) * (b + M2 - 1)) + (M1 * M2) * (M1 - 1) + 2 * (M1 - 1) - M1 * M1
<1>1. a \in Int /\ b \in Int /\ G \in Int /\ H \in Int /\ t \in Int
  OBVIOUS
<1>2. k1 \in Int /\ k2 \in Int
  <2> HIDE DEF a, b
  <2>1. QED
    BY <1>1
<1>3. t * t = a * b
  OBVIOUS
<1>4. H = a * (M2 * M2) + b * (M1 * M1) + 2 * (t * G)
  <2>1. H = a * (S2 * S2) + b * (S1 * S1) + 2 * ((D * (w1 * w2)) * (S1 * S2))
    OBVIOUS
  <2>2. a * (S2 * S2) = a * (M2 * M2 + 4 * (w2 * w2)) /\ b * (S1 * S1) = b * (M1 * M1 + 4 * (w1 * w1))
    OBVIOUS
  <2>3. a * (M2 * M2 + 4 * (w2 * w2)) + b * (M1 * M1 + 4 * (w1 * w1)) + 2 * ((D * (w1 * w2)) * (S1 * S2))
          = a * (M2 * M2) + b * (M1 * M1) + 2 * ((D * (w1 * w2)) * G)
    OBVIOUS
  <2>4. H = a * (M2 * M2) + b * (M1 * M1) + 2 * ((D * (w1 * w2)) * G)
    BY <2>1, <2>2, <2>3, Zenon
  <2>5. QED
    BY <2>4, Zenon
<1>5. (M1 * M2) * (1 + a * b) - (1 - a * b) * (1 - a * b) - a * (M2 * M2) - b * (M1 * M1)
         = k1 * (a - M1 + 1) + k2 * (b - M2 + 1)
  <2> HIDE DEF a, b
  <2>1. QED
    BY <1>1, ClosureIdentity
<1> HIDE DEF a, b, G, H, k1, k2
<1>6. (M1 * M2) * (1 + t * t) + 2 * (t * G) - (1 - t * t) * (1 - t * t) - H
        = k1 * (a - M1 + 1) + k2 * (b - M2 + 1)
  <2>1. a * (M2 * M2) \in Int /\ b * (M1 * M1) \in Int /\ (M1 * M2) * (1 + a * b) \in Int
        /\ (1 - a * b) * (1 - a * b) \in Int /\ t * G \in Int
    BY <1>1
  <2> DEFINE A == a * (M2 * M2)
             B == b * (M1 * M1)
             C == (M1 * M2) * (1 + a * b)
             E == (1 - a * b) * (1 - a * b)
             T == t * G
             R == k1 * (a - M1 + 1) + k2 * (b - M2 + 1)
  <2>2. A \in Int /\ B \in Int /\ C \in Int /\ E \in Int /\ T \in Int
    BY <2>1
  <2>3. H = A + B + 2 * T /\ C - E - A - B = R
    BY <1>4, <1>5
  <2>4. (M1 * M2) * (1 + t * t) = C /\ (1 - t * t) * (1 - t * t) = E /\ t * G = T
    BY <1>3
  <2> HIDE DEF A, B, C, E, T, R
  <2>5. C + 2 * T - E - H = R
    BY <2>2, <2>3
  <2>6. QED
    BY <2>4, <2>5 DEF R
<1>7. QED
  BY <1>2, <1>6 DEF SumCombines, a, b, G, H

\* The sum's numerators in products of the points' coordinates.
LEMMA SumsOfProducts ==
  ASSUME NEW x1 \in Int, NEW y1 \in Int, NEW x2 \in Int, NEW y2 \in Int
  PROVE  /\ (y1 * y2 + x1 * x2) * (y1 * y2 + x1 * x2) - (x1 * y2 + y1 * x2) * (x1 * y2 + y1 * x2)
              = (y1 * y1 - x1 * x1) * (y2 * y2 - x2 * x2)
         /\ (y1 * y2 + x1 * x2) * (y1 * y2 + x1 * x2) + (x1 * y2 + y1 * x2) * (x1 * y2 + y1 * x2)
              = (x1 * x1 + y1 * y1) * (x2 * x2 + y2 * y2) + 4 * ((x1 * y1) * (x2 * y2))
         /\ (x1 * y2 + y1 * x2) * (y1 * y2 + x1 * x2)
              = (x1 * y1) * (x2 * x2 + y2 * y2) + (x2 * y2) * (x1 * x1 + y1 * y1)
         /\ (x1 * x1 + y1 * y1) * (x1 * x1 + y1 * y1)
              = (y1 * y1 - x1 * x1) * (y1 * y1 - x1 * x1) + 4 * ((x1 * y1) * (x1 * y1))
         /\ (x2 * x2 + y2 * y2) * (x2 * x2 + y2 * y2)
              = (y2 * y2 - x2 * x2) * (y2 * y2 - x2 * x2) + 4 * ((x2 * y2) * (x2 * y2))
  OBVIOUS

\* A point whose coordinates are fractions is on the curve if this vanishes.
CurveScales(D, t, u, v, n, m, U, V) ==
  ((1 - t * t) * (1 - t * t)) * (v * v - u * u - 1 - D * ((u * u) * (v * v)))
  = ((V + m) * ((1 + t) * (1 + t) - D * (U * U))) * (V - m)
    + (-((U + n) * ((1 - t) * (1 - t) + D * (m * m)))) * (U - n)
    + ((m * m - n * n) * (1 + t * t) + 2 * (t * (m * m + n * n))
         - (1 - t * t) * (1 - t * t) - D * ((n * m) * (n * m)))

\* A point given by quotients is on the curve if their numerators say so.
LEMMA CurveOfQuotients ==
  ASSUME NEW D \in Int, NEW t \in Int, NEW u \in Int, NEW v \in Int, NEW n \in Int,
         NEW m \in Int,
         NEW U \in Int, NEW V \in Int, U = (1 + t) * u, V = (1 - t) * v
  PROVE  CurveScales(D, t, u, v, n, m, U, V)
<1>1. ((1 - t * t) * (1 - t * t)) * (v * v - u * u - 1 - D * ((u * u) * (v * v)))
        = ((1 + t) * (1 + t)) * (V * V) - ((1 - t) * (1 - t)) * (U * U) - (1 - t * t) * (1 - t * t)
            - D * ((U * U) * (V * V))
  <2>1. ((1 - t * t) * (1 - t * t)) * (v * v) = ((1 + t) * (1 + t)) * (V * V)
    OBVIOUS
  <2>2. ((1 - t * t) * (1 - t * t)) * (u * u) = ((1 - t) * (1 - t)) * (U * U)
    OBVIOUS
  <2>3. ((1 - t * t) * (1 - t * t)) * (D * ((u * u) * (v * v))) = D * ((U * U) * (V * V))
    OBVIOUS
  <2> DEFINE k == (1 - t * t) * (1 - t * t)
             a == v * v
             b == u * u
             c == D * ((u * u) * (v * v))
  <2>4. k \in Int /\ a \in Int /\ b \in Int /\ c \in Int
    OBVIOUS
  <2> HIDE DEF k, a, b, c
  <2>5. k * (a - b - 1 - c) = k * a - k * b - k - k * c
    BY <2>4
  <2>6. QED
    BY <2>1, <2>2, <2>3, <2>5 DEF k, a, b, c
<1>2. ((V + m) * ((1 + t) * (1 + t) - D * (U * U))) * (V - m)
        = ((1 + t) * (1 + t)) * (V * V - m * m) - D * ((U * U) * (V * V - m * m))
  OBVIOUS
<1>3. (-((U + n) * ((1 - t) * (1 - t) + D * (m * m)))) * (U - n)
        = -(((1 - t) * (1 - t)) * (U * U - n * n)) - D * ((m * m) * (U * U - n * n))
  OBVIOUS
<1>4. (m * m - n * n) * (1 + t * t) + 2 * (t * (m * m + n * n))
        = ((1 + t) * (1 + t)) * (m * m) - ((1 - t) * (1 - t)) * (n * n)
  OBVIOUS
<1>5. D * ((n * m) * (n * m)) = D * ((m * m) * (n * n))
  OBVIOUS
<1>6. QED
  <2> DEFINE A == (1 + t) * (1 + t)
             B == (1 - t) * (1 - t)
             P == U * U
             R == V * V
             M == m * m
             N == n * n
             X == (1 - t * t) * (1 - t * t)
  <2>1. A \in Int /\ B \in Int /\ P \in Int /\ R \in Int /\ M \in Int /\ N \in Int /\ X \in Int
    OBVIOUS
  <2> HIDE DEF A, B, P, R, M, N, X
  <2>2. A * R - B * P - X - D * (P * R)
          = (A * (R - M) - D * (P * (R - M))) + (-(B * (P - N)) - D * (M * (P - N)))
             + ((A * M - B * N) - X - D * (M * N))
    BY <2>1
  <2> USE DEF A, B, P, R, M, N, X
  <2>3. QED
    BY <1>1, <1>2, <1>3, <1>4, <1>5, <2>2 DEF CurveScales

\* A point that the addition law yields is on the curve ...
LEMMA SumOnCurve ==
  ASSUME NEW x1 \in Int, NEW y1 \in Int, NEW x2 \in Int, NEW y2 \in Int,
         NEW u \in Int, NEW v \in Int,
         Vanishes(Curve(x1, y1)), Vanishes(Curve(x2, y2)), Adds(x1, y1, x2, y2, u, v),
         ~Vanishes(1 + Cross(x1, y1, x2, y2)), ~Vanishes(1 - Cross(x1, y1, x2, y2))
  PROVE  Vanishes(Curve(u, v))
<1> DEFINE D == EDWARDS_D
           t == Cross(x1, y1, x2, y2)
           n == x1 * y2 + y1 * x2
           m == y1 * y2 + x1 * x2
           U == (1 + t) * u
           V == (1 - t) * v
           C1 == Curve(x1, y1)
           C2 == Curve(x2, y2)
           K == (1 - t * t) * (1 - t * t)
           X == (m * m - n * n) * (1 + t * t) + 2 * (t * (m * m + n * n))
                  - (1 - t * t) * (1 - t * t) - D * ((n * m) * (n * m))
<1>1. D \in Int
  BY CurveAssumption
<1>2. t \in Int /\ C1 \in Int /\ C2 \in Int
  BY <1>1 DEF Cross, Curve
<1>3. PICK k1 \in Int, k2 \in Int : X = k1 * C1 + k2 * C2
  <2> DEFINE w1 == x1 * y1
             w2 == x2 * y2
             S1 == x1 * x1 + y1 * y1
             S2 == x2 * x2 + y2 * y2
             M1 == y1 * y1 - x1 * x1
             M2 == y2 * y2 - x2 * x2
  <2>1. /\ w1 \in Int /\ w2 \in Int /\ S1 \in Int /\ S2 \in Int /\ M1 \in Int /\ M2 \in Int
        /\ m \in Int /\ n \in Int
    OBVIOUS
  <2>2. t = D * (w1 * w2)
    BY <1>1 DEF Cross
  <2>3. /\ m * m - n * n = M1 * M2
        /\ m * m + n * n = S1 * S2 + 4 * (w1 * w2)
        /\ n * m = w1 * S2 + w2 * S1
        /\ S1 * S1 = M1 * M1 + 4 * (w1 * w1) /\ S2 * S2 = M2 * M2 + 4 * (w2 * w2)
    BY SumsOfProducts
  <2>4. C1 = -(D * (w1 * w1) - M1 + 1) /\ C2 = -(D * (w2 * w2) - M2 + 1)
    BY <1>1 DEF Curve
  <2>5. X = (M1 * M2) * (1 + t * t) + 2 * (t * (S1 * S2 + 4 * (w1 * w2)))
              - (1 - t * t) * (1 - t * t)
              - D * ((w1 * S2 + w2 * S1) * (w1 * S2 + w2 * S1))
    <3> HIDE DEF n, m, t, w1, w2, S1, S2, M1, M2
    <3>1. QED
      BY <2>3
  <2>6. PICK k1, k2 \in Int : X = k1 * (D * (w1 * w1) - M1 + 1) + k2 * (D * (w2 * w2) - M2 + 1)
    <3> HIDE DEF n, m, t, w1, w2, S1, S2, M1, M2, X
    <3>1. SumCombines(D, w1, w2, S1, S2, M1, M2, t)
      BY <1>1, <1>2, <2>1, <2>2, <2>3, ClosureCore
    <3>2. QED
      BY <2>5, <3>1 DEF SumCombines
  <2>7. X = (-k1) * C1 + (-k2) * C2
    <3> DEFINE F1 == D * (w1 * w1) - M1 + 1
               F2 == D * (w2 * w2) - M2 + 1
    <3>1. F1 \in Int /\ F2 \in Int /\ C1 = -F1 /\ C2 = -F2 /\ X = k1 * F1 + k2 * F2
      BY <1>1, <2>4, <2>6
    <3> HIDE DEF F1, F2, X, C1, C2
    <3>2. QED
      BY <3>1
  <2>8. -k1 \in Int /\ -k2 \in Int
    OBVIOUS
  <2> HIDE DEF X, C1, C2
  <2>9. QED
    BY <2>7, <2>8
<1>4. m \in Int /\ n \in Int /\ U \in Int /\ V \in Int
  BY <1>2
<1>5. Vanishes(U - n) /\ Vanishes(V - m)
  BY DEF Adds, Same
<1> DEFINE r == K * Curve(u, v)
           kv == (V + m) * ((1 + t) * (1 + t) - D * (U * U))
           ku == -((U + n) * ((1 - t) * (1 - t) + D * (m * m)))
<1>6. r = kv * (V - m) + ku * (U - n) + X
  <2> HIDE DEF t, m, n
  <2>1. r = K * (v * v - u * u - 1 - D * ((u * u) * (v * v)))
    BY DEF Curve
  <2>2. K * (v * v - u * u - 1 - D * ((u * u) * (v * v))) = kv * (V - m) + ku * (U - n) + X
    <3>3. U = (1 + t) * u /\ V = (1 - t) * v
      OBVIOUS
    <3> HIDE DEF U, V
    <3>4. CurveScales(D, t, u, v, n, m, U, V)
      BY <1>1, <1>2, <1>4, <3>3, CurveOfQuotients
    <3>5. QED
      BY <3>4 DEF CurveScales
  <2>3. QED
    BY <2>1, <2>2
<1>7. Combines(r, U - n, ku, V - m, kv, C1, k1, C2, k2)
  <2>1. kv \in Int /\ ku \in Int
    <3> HIDE DEF U, V, m, n, t
    <3>1. QED
      BY <1>1, <1>2, <1>4
  <2> HIDE DEF r, U, V, m, n, t, X, ku, kv, C1, C2
  <2>2. QED
    BY <1>2, <1>3, <1>4, <1>6, <2>1 DEF Combines
<1>8. Vanishes(r)
  <2> HIDE DEF r, U, V, m, n, ku, kv
  <2>1. QED
    BY <1>5, <1>7, CombinationVanishes
<1>9. ~Vanishes(K)
  <2> HIDE DEF t
  <2> DEFINE A == 1 - t
             B == 1 + t
  <2>1. A \in Int /\ B \in Int /\ ~Vanishes(A) /\ ~Vanishes(B)
    BY <1>2 DEF t
  <2>2. K = (A * B) * (A * B)
    BY <1>2
  <2> HIDE DEF A, B, K
  <2>3. A * B \in Int
    BY <2>1
  <2>4. ~Vanishes(A * B)
    BY <2>1, NoZeroDivisors
  <2>5. ~Vanishes((A * B) * (A * B))
    BY <2>3, <2>4, NoZeroDivisors
  <2>6. QED
    BY <2>2, <2>5
<1>10. K \in Int /\ Curve(u, v) \in Int
  <2> HIDE DEF t
  <2>1. QED
    BY <1>1, <1>2 DEF Curve
<1> HIDE DEF K
<1>11. QED
  BY <1>8, <1>9, <1>10, NoZeroDivisors DEF r

\* The sum of two points of the curve is a point of the curve.
LEMMA PlusOnCurve ==
  ASSUME NEW p \in Points, NEW q \in Points
  PROVE  Plus(p, q) \in Points
<1> DEFINE s == Plus(p, q)
<1>1. s \in [u : Field, v : Field] /\ Adds(p.u, p.v, q.u, q.v, s.u, s.v)
      /\ ~Vanishes(1 + Cross(p.u, p.v, q.u, q.v))
      /\ ~Vanishes(1 - Cross(p.u, p.v, q.u, q.v))
  BY PlusAdds
<1>2. /\ p.u \in Int /\ p.v \in Int /\ Vanishes(Curve(p.u, p.v))
      /\ q.u \in Int /\ q.v \in Int /\ Vanishes(Curve(q.u, q.v))
  BY PointCoordinates DEF Points
<1> HIDE DEF s
<1>3. s.u \in Int /\ s.v \in Int
  BY <1>1, PointCoordinates
<1>4. Vanishes(Curve(s.u, s.v))
  <2> DEFINE a == p.u
             b == p.v
             c == q.u
             d == q.v
             u == s.u
             v == s.v
  <2>1. /\ a \in Int /\ b \in Int /\ c \in Int /\ d \in Int /\ u \in Int /\ v \in Int
        /\ Vanishes(Curve(a, b)) /\ Vanishes(Curve(c, d)) /\ Adds(a, b, c, d, u, v)
        /\ ~Vanishes(1 + Cross(a, b, c, d)) /\ ~Vanishes(1 - Cross(a, b, c, d))
    BY <1>1, <1>2, <1>3
  <2> HIDE DEF a, b, c, d, u, v
  <2>2. Vanishes(Curve(u, v))
    BY <2>1, SumOnCurve
  <2>3. QED
    BY <2>2 DEF u, v
<1>5. QED
  BY <1>1, <1>4, PointCoordinates DEF Points, s

-----------------------------------------------------------------------------
(* The addition is associative                                              *)

\* The two identities behind associativity, in the coordinates of three points:
\* what the difference of the two sums' numerators reduces to, by degree.
LowTerms(s, al, be, w1, w2, w3, S1, S2, S3, M1, M2, M3) ==
  s * (w1 * S3 - w3 * S1 + w2 * (M1 - M3)) + al * ((M2 + M3) * w1 - w2 * S3 - w3 * S2)
    - be * ((M1 + M2) * w3 - w1 * S2 - w2 * S1)

\* The terms of higher degree.
HighTerms(al, be, w1, w2, w3, S1, S2, S3, M1, M2, M3) ==
  al * (M1 * (w2 * S3 + w3 * S2) - (M2 * M3) * w1) - be * (M3 * (w1 * S2 + w2 * S1) - (M1 * M2) * w3)

\* Both are zero for the coordinates of any three points.
LowVanish(x1, y1, x2, y2, x3, y3) ==
  LET a == x1 * (y2 * y3)
      b == x2 * (y1 * y3)
      c == x3 * (y1 * y2)
      e == x1 * (x2 * x3)
  IN  LowTerms(a + b + c + e, c + e - a - b, a + e - b - c, x1 * y1, x2 * y2, x3 * y3,
               x1 * x1 + y1 * y1, x2 * x2 + y2 * y2, x3 * x3 + y3 * y3,
               y1 * y1 - x1 * x1, y2 * y2 - x2 * x2, y3 * y3 - x3 * x3) = 0

\* The same of the terms of higher degree.
HighVanish(x1, y1, x2, y2, x3, y3) ==
  LET a == x1 * (y2 * y3)
      b == x2 * (y1 * y3)
      c == x3 * (y1 * y2)
      e == x1 * (x2 * x3)
  IN  HighTerms(c + e - a - b, a + e - b - c, x1 * y1, x2 * y2, x3 * y3,
               x1 * x1 + y1 * y1, x2 * x2 + y2 * y2, x3 * x3 + y3 * y3,
               y1 * y1 - x1 * x1, y2 * y2 - x2 * x2, y3 * y3 - x3 * x3) = 0

\* The identity of the terms of low degree ...
LEMMA LowIdentity ==
  ASSUME NEW x1 \in Int, NEW y1 \in Int, NEW x2 \in Int, NEW y2 \in Int, NEW x3 \in Int,
         NEW y3 \in Int
  PROVE  LowVanish(x1, y1, x2, y2, x3, y3)
<1> DEFINE a == x1 * (y2 * y3)
           b == x2 * (y1 * y3)
           c == x3 * (y1 * y2)
           e == x1 * (x2 * x3)
           w1 == x1 * y1
           w2 == x2 * y2
           w3 == x3 * y3
           S1 == x1 * x1 + y1 * y1
           S2 == x2 * x2 + y2 * y2
           S3 == x3 * x3 + y3 * y3
           M1 == y1 * y1 - x1 * x1
           M2 == y2 * y2 - x2 * x2
           M3 == y3 * y3 - x3 * x3
           X == w1 * S3 - w3 * S1 + w2 * (M1 - M3)
           Y == (M2 + M3) * w1 - w2 * S3 - w3 * S2
           Z == (M1 + M2) * w3 - w1 * S2 - w2 * S1
<1> DEFINE A == w1 * (x3 * x3) + w1 * (x2 * x2) + w3 * (x2 * x2) - w3 * (y1 * y1) + w2 * (y1 * y1) + w2 * (x3 * x3)
           B == w1 * (x3 * x3) - w1 * (y2 * y2) + w3 * (y2 * y2) - w3 * (x1 * x1) + w2 * (x3 * x3) - w2 * (x1 * x1)
           C == w1 * (y3 * y3) - w1 * (x2 * x2) - w3 * (x1 * x1) - w3 * (x2 * x2) - w2 * (x1 * x1) - w2 * (y3 * y3)
           E == w1 * (y3 * y3) + w1 * (y2 * y2) - w3 * (y1 * y1) - w3 * (y2 * y2) + w2 * (y1 * y1) - w2 * (y3 * y3)
<1>1. X - Y - Z = 2 * A
  OBVIOUS
<1>2. X - Y + Z = 2 * B
  OBVIOUS
<1>3. X + Y + Z = 2 * C
  OBVIOUS
<1>4. X + Y - Z = 2 * E
  OBVIOUS
<1>5. a * A + b * B + c * C + e * E = 0
  OBVIOUS
<1>6. /\ a \in Int /\ b \in Int /\ c \in Int /\ e \in Int
      /\ X \in Int /\ Y \in Int /\ Z \in Int
      /\ A \in Int /\ B \in Int /\ C \in Int /\ E \in Int
  OBVIOUS
<1>7. (a + b + c + e) * X + (c + e - a - b) * Y - (a + e - b - c) * Z = 0
  <2> HIDE DEF a, b, c, e, X, Y, Z, A, B, C, E
  <2>1. (a + b + c + e) * X + (c + e - a - b) * Y - (a + e - b - c) * Z
          = a * (X - Y - Z) + b * (X - Y + Z) + c * (X + Y + Z) + e * (X + Y - Z)
    BY <1>6
  <2>2. a * (2 * A) + b * (2 * B) + c * (2 * C) + e * (2 * E) = 0
    BY <1>5, <1>6
  <2>3. QED
    BY <1>1, <1>2, <1>3, <1>4, <2>1, <2>2
<1>8. QED
  BY <1>7 DEF LowVanish, LowTerms

\* ... and that of the terms of higher degree.
LEMMA HighIdentity ==
  ASSUME NEW x1 \in Int, NEW y1 \in Int, NEW x2 \in Int, NEW y2 \in Int, NEW x3 \in Int,
         NEW y3 \in Int
  PROVE  HighVanish(x1, y1, x2, y2, x3, y3)
<1> DEFINE a == x1 * (y2 * y3)
           b == x2 * (y1 * y3)
           c == x3 * (y1 * y2)
           e == x1 * (x2 * x3)
           w1 == x1 * y1
           w2 == x2 * y2
           w3 == x3 * y3
           S1 == x1 * x1 + y1 * y1
           S2 == x2 * x2 + y2 * y2
           S3 == x3 * x3 + y3 * y3
           M1 == y1 * y1 - x1 * x1
           M2 == y2 * y2 - x2 * x2
           M3 == y3 * y3 - x3 * x3
           Y == M1 * (w2 * S3 + w3 * S2) - (M2 * M3) * w1
           Z == M3 * (w1 * S2 + w2 * S1) - (M1 * M2) * w3
           m == y1 * y3 - x1 * x3
           n == x3 * y1 - x1 * y3
           O == x2 * (x1 * y3 + x3 * y1) + y2 * (y1 * y3 + x1 * x3)
<1>1. Y + Z = 2 * (x2 * (m * O))
  <2>1. S2 - M2 = 2 * (x2 * x2) /\ S2 \in Int /\ M2 \in Int
    OBVIOUS
  <2>2. M3 * w1 + M1 * w3 = m * (x1 * y3 + x3 * y1)
    OBVIOUS
  <2>3. M1 * S3 + M3 * S1 = 2 * (m * (y1 * y3 + x1 * x3))
    OBVIOUS
  <2>4. Y + Z = (M3 * w1 + M1 * w3) * (S2 - M2) + w2 * (M1 * S3 + M3 * S1)
    <3>1. w1 \in Int /\ w2 \in Int /\ w3 \in Int /\ S1 \in Int /\ S3 \in Int /\ M1 \in Int /\ M3 \in Int
      OBVIOUS
    <3> HIDE DEF w1, w2, w3, S1, S2, S3, M1, M2, M3
    <3>2. QED
      BY <2>1, <3>1
  <2>5. (m * (x1 * y3 + x3 * y1)) * (2 * (x2 * x2)) + w2 * (2 * (m * (y1 * y3 + x1 * x3))) = 2 * (x2 * (m * O))
    <3>1. m \in Int
      OBVIOUS
    <3> HIDE DEF m
    <3>2. QED
      BY <3>1
  <2> HIDE DEF Y, Z, m, O, w1, w2, w3, S1, S2, S3, M1, M2, M3
  <2>6. QED
    BY <2>1, <2>2, <2>3, <2>4, <2>5
<1>2. Y - Z = 2 * (y2 * (n * O))
  <2>1. S2 + M2 = 2 * (y2 * y2) /\ S2 \in Int /\ M2 \in Int
    OBVIOUS
  <2>2. M1 * w3 - M3 * w1 = n * (y1 * y3 + x1 * x3)
    OBVIOUS
  <2>3. M1 * S3 - M3 * S1 = 2 * (n * (x1 * y3 + x3 * y1))
    OBVIOUS
  <2>4. Y - Z = (M1 * w3 - M3 * w1) * (S2 + M2) + w2 * (M1 * S3 - M3 * S1)
    <3>1. w1 \in Int /\ w2 \in Int /\ w3 \in Int /\ S1 \in Int /\ S3 \in Int /\ M1 \in Int /\ M3 \in Int
      OBVIOUS
    <3> HIDE DEF w1, w2, w3, S1, S2, S3, M1, M2, M3
    <3>2. QED
      BY <2>1, <3>1
  <2>5. (n * (y1 * y3 + x1 * x3)) * (2 * (y2 * y2)) + w2 * (2 * (n * (x1 * y3 + x3 * y1))) = 2 * (y2 * (n * O))
    <3>1. n \in Int
      OBVIOUS
    <3> HIDE DEF n
    <3>2. QED
      BY <3>1
  <2> HIDE DEF Y, Z, n, O, w1, w2, w3, S1, S2, S3, M1, M2, M3
  <2>6. QED
    BY <2>1, <2>2, <2>3, <2>4, <2>5
<1>3. c - a = y2 * n /\ e - b = -(x2 * m)
  OBVIOUS
<1>4. (c + e - a - b) * Y - (a + e - b - c) * Z = 0
  <2>1. /\ a \in Int /\ b \in Int /\ c \in Int /\ e \in Int
        /\ Y \in Int /\ Z \in Int /\ m \in Int /\ n \in Int /\ O \in Int
    OBVIOUS
  <2> HIDE DEF a, b, c, e, Y, Z, m, n, O
  <2>2. (c + e - a - b) * Y - (a + e - b - c) * Z = (c - a) * (Y + Z) + (e - b) * (Y - Z)
    BY <2>1
  <2>3. (y2 * n) * (2 * (x2 * (m * O))) + (-(x2 * m)) * (2 * (y2 * (n * O))) = 0
    BY <2>1
  <2>4. QED
    BY <1>1, <1>2, <1>3, <2>2, <2>3
<1>5. QED
  BY <1>4 DEF HighVanish, HighTerms

\* The numerator and the denominator of one coordinate of a sum of three
\* points, in one order and in the other, and their cross products.
CrossProducts(D, s, al, be, w1, w2, w3, S1, S2, S3) ==
  (s + (D * (w1 * w2)) * al) * (1 - (D * (w2 * w2)) * (D * (w3 * w3)) + (D * w1) * (w2 * S3 + w3 * S2))
    - (s + (D * (w2 * w3)) * be) * (1 - (D * (w1 * w1)) * (D * (w2 * w2)) + (D * w3) * (w1 * S2 + w2 * S1))

\* On the curve the difference of the cross products vanishes.
LEMMA CrossProductsVanish ==
  ASSUME NEW s \in Int, NEW al \in Int, NEW be \in Int,
         NEW w1 \in Int, NEW w2 \in Int, NEW w3 \in Int,
         NEW S1 \in Int, NEW S2 \in Int, NEW S3 \in Int,
         NEW M1 \in Int, NEW M2 \in Int, NEW M3 \in Int,
         LowTerms(s, al, be, w1, w2, w3, S1, S2, S3, M1, M2, M3) = 0,
         HighTerms(al, be, w1, w2, w3, S1, S2, S3, M1, M2, M3) = 0,
         Vanishes(EDWARDS_D * (w1 * w1) - M1 + 1),
         Vanishes(EDWARDS_D * (w2 * w2) - M2 + 1),
         Vanishes(EDWARDS_D * (w3 * w3) - M3 + 1)
  PROVE  Vanishes(CrossProducts(EDWARDS_D, s, al, be, w1, w2, w3, S1, S2, S3))
<1> DEFINE D == EDWARDS_D
           p1 == D * (w1 * w1)
           p2 == D * (w2 * w2)
           p3 == D * (w3 * w3)
           E1 == p1 - M1 + 1
           E2 == p2 - M2 + 1
           E3 == p3 - M3 + 1
           F == w2 * S3 + w3 * S2
           G == w1 * S2 + w2 * S1
           H == s * (w2 * (p1 - p3) + w1 * S3 - w3 * S1)
                  + al * (w1 - w1 * (p2 * p3) + p1 * F) - be * (w3 - w3 * (p1 * p2) + p3 * G)
           k1 == s * w2 + al * F + be * (w3 * p2)
           k2 == be * (w3 * (M1 - 1)) - al * (w1 * p3)
           k3 == -(s * w2) - al * (w1 * (M2 - 1)) - be * G
           X == CrossProducts(D, s, al, be, w1, w2, w3, S1, S2, S3)
<1>1. D \in Int
  BY CurveAssumption
<1>2. p1 \in Int /\ p2 \in Int /\ p3 \in Int /\ F \in Int /\ G \in Int
  BY <1>1
<1>3. X = (D * w2) * H
  <2>1. X = (s + (D * (w1 * w2)) * al) * (1 - p2 * p3 + (D * w1) * F)
              - (s + (D * (w2 * w3)) * be) * (1 - p1 * p2 + (D * w3) * G)
    BY DEF CrossProducts
  <2>2. (s + (D * (w1 * w2)) * al) * (1 - p2 * p3 + (D * w1) * F)
           = s * (1 - p2 * p3 + (D * w1) * F) + (D * w2) * (al * (w1 - w1 * (p2 * p3) + p1 * F))
    <3>1. (D * (w1 * w2)) * (1 - p2 * p3 + (D * w1) * F) = (D * w2) * (w1 - w1 * (p2 * p3) + p1 * F)
      <4> HIDE DEF F, p2, p3
      <4>1. QED
        BY <1>1, <1>2
    <3> DEFINE a == D * (w1 * w2)
               b == 1 - p2 * p3 + (D * w1) * F
               c == w1 - w1 * (p2 * p3) + p1 * F
               d == D * w2
    <3>2. a \in Int /\ b \in Int /\ c \in Int /\ d \in Int /\ a * b = d * c
      <4>1. a \in Int /\ d \in Int
        BY <1>1
      <4>2. b \in Int /\ c \in Int
        <5> HIDE DEF F, p1, p2, p3
        <5>1. QED
          BY <1>1, <1>2
      <4>3. QED
        BY <3>1, <4>1, <4>2
    <3> HIDE DEF a, b, c, d
    <3>3. (s + a * al) * b = s * b + al * (a * b)
      BY <3>2
    <3>4. al * (d * c) = d * (al * c)
      BY <3>2
    <3>5. (s + a * al) * b = s * b + d * (al * c)
      BY <3>2, <3>3, <3>4
    <3>6. QED
      BY <3>5 DEF a, b, c, d
  <2>3. (s + (D * (w2 * w3)) * be) * (1 - p1 * p2 + (D * w3) * G)
           = s * (1 - p1 * p2 + (D * w3) * G) + (D * w2) * (be * (w3 - w3 * (p1 * p2) + p3 * G))
    <3>1. (D * (w2 * w3)) * (1 - p1 * p2 + (D * w3) * G) = (D * w2) * (w3 - w3 * (p1 * p2) + p3 * G)
      <4> HIDE DEF G, p1, p2
      <4>1. QED
        BY <1>1, <1>2
    <3> DEFINE a == D * (w2 * w3)
               b == 1 - p1 * p2 + (D * w3) * G
               c == w3 - w3 * (p1 * p2) + p3 * G
               d == D * w2
    <3>2. a \in Int /\ b \in Int /\ c \in Int /\ d \in Int /\ a * b = d * c
      <4>1. a \in Int /\ d \in Int
        BY <1>1
      <4>2. b \in Int /\ c \in Int
        <5> HIDE DEF G, p1, p2, p3
        <5>1. QED
          BY <1>1, <1>2
      <4>3. QED
        BY <3>1, <4>1, <4>2
    <3> HIDE DEF a, b, c, d
    <3>3. (s + a * be) * b = s * b + be * (a * b)
      BY <3>2
    <3>4. be * (d * c) = d * (be * c)
      BY <3>2
    <3>5. (s + a * be) * b = s * b + d * (be * c)
      BY <3>2, <3>3, <3>4
    <3>6. QED
      BY <3>5 DEF a, b, c, d
  <2>4. (1 - p2 * p3 + (D * w1) * F) - (1 - p1 * p2 + (D * w3) * G)
          = (D * w2) * (w2 * (p1 - p3) + w1 * S3 - w3 * S1)
    <3>1. (D * w1) * F - (D * w3) * G = (D * w2) * (w1 * S3 - w3 * S1)
      BY <1>1
    <3>2. p1 * p2 - p2 * p3 = (D * w2) * (w2 * (p1 - p3))
      <4> HIDE DEF p1, p3
      <4>1. QED
        BY <1>1, <1>2
    <3> DEFINE a == (D * w1) * F
               b == (D * w3) * G
               c == p1 * p2
               d == p2 * p3
               f == D * w2
               g == w2 * (p1 - p3)
               h == w1 * S3 - w3 * S1
    <3>3. a \in Int /\ b \in Int /\ c \in Int /\ d \in Int /\ f \in Int /\ g \in Int /\ h \in Int
      <4> HIDE DEF F, G, p1, p2, p3
      <4>1. QED
        BY <1>1, <1>2
    <3>4. a - b = f * h /\ c - d = f * g
      BY <3>1, <3>2
    <3>5. g + w1 * S3 - w3 * S1 = g + h
      <4> HIDE DEF g
      <4>1. QED
        BY <3>3
    <3> HIDE DEF a, b, c, d, f, g, h
    <3>6. (1 - d + a) - (1 - c + b) = f * (g + h)
      BY <3>3, <3>4
    <3>7. QED
      BY <3>5, <3>6 DEF a, b, c, d, f, g
  <2> DEFINE B == 1 - p2 * p3 + (D * w1) * F
             C == 1 - p1 * p2 + (D * w3) * G
             P == al * (w1 - w1 * (p2 * p3) + p1 * F)
             R == be * (w3 - w3 * (p1 * p2) + p3 * G)
             T == w2 * (p1 - p3) + w1 * S3 - w3 * S1
             d == D * w2
  <2>5. B \in Int /\ C \in Int /\ P \in Int /\ R \in Int /\ T \in Int /\ d \in Int
    <3> HIDE DEF F, G, p1, p2, p3
    <3>1. QED
      BY <1>1, <1>2
  <2>6. X = (s * B + d * P) - (s * C + d * R) /\ B - C = d * T /\ H = s * T + P - R
    <3> HIDE DEF F, G, p1, p2, p3
    <3>1. QED
      BY <2>1, <2>2, <2>3, <2>4
  <2> HIDE DEF B, C, P, R, T, d, X, H
  <2>7. s * B - s * C = d * (s * T)
    BY <2>5, <2>6
  <2>8. X = d * H
    BY <2>5, <2>6, <2>7
  <2>9. QED
    BY <2>8 DEF d
<1>4. H = k1 * E1 + k2 * E2 + k3 * E3
  <2> DEFINE L == s * (w1 * S3 - w3 * S1 + w2 * (M1 - M3)) + al * ((M2 + M3) * w1 - F) - be * ((M1 + M2) * w3 - G)
             K == al * (M1 * F - (M2 * M3) * w1) - be * (M3 * G - (M1 * M2) * w3)
             T == w1 * S3 - w3 * S1
  <2>1. L = 0
    <3> DEFINE a == M2 + M3
               b == M1 + M2
    <3>1. a * w1 - w2 * S3 - w3 * S2 = a * w1 - F /\ b * w3 - w1 * S2 - w2 * S1 = b * w3 - G
      OBVIOUS
    <3>2. LowTerms(s, al, be, w1, w2, w3, S1, S2, S3, M1, M2, M3) = L
      BY <3>1, Zenon DEF LowTerms
    <3>3. QED
      BY <3>2, Zenon
  <2>2. K = 0
    BY Zenon DEF HighTerms
  <2>3. T \in Int
    OBVIOUS
  <2>4. H = s * (w2 * (p1 - p3) + T) + al * (w1 - w1 * (p2 * p3) + p1 * F) - be * (w3 - w3 * (p1 * p2) + p3 * G)
    <3> DEFINE a == w2 * (p1 - p3)
    <3>1. a \in Int
      <4> HIDE DEF p1, p3
      <4>1. QED
        BY <1>2
    <3>2. a + w1 * S3 - w3 * S1 = a + T
      <4> HIDE DEF a
      <4>1. QED
        BY <3>1
    <3>3. QED
      BY <3>2, Zenon
  <2>5. L = s * (T + w2 * (M1 - M3)) + al * ((M2 + M3) * w1 - F) - be * ((M1 + M2) * w3 - G)
    BY Zenon
  <2>6. E1 \in Int /\ E2 \in Int /\ E3 \in Int
    BY <1>2
  <2>7. p1 = E1 + M1 - 1 /\ p2 = E2 + M2 - 1 /\ p3 = E3 + M3 - 1
    <3> HIDE DEF p1, p2, p3
    <3>1. QED
      BY <1>2
  <2> HIDE DEF p1, p2, p3, F, G, T, H, L, E1, E2, E3
  <2>8. s * (w2 * (p1 - p3) + T) = s * (T + w2 * (M1 - M3)) + (s * w2) * E1 - (s * w2) * E3
    BY <1>2, <2>3, <2>6, <2>7
  <2>9. p2 * p3 = E2 * p3 + (M2 - 1) * E3 + (M2 - 1) * (M3 - 1)
    BY <1>2, <2>6, <2>7
  <2>10. p1 * p2 = E1 * p2 + (M1 - 1) * E2 + (M1 - 1) * (M2 - 1)
    BY <1>2, <2>6, <2>7
  <2>11. w1 - w1 * (p2 * p3) + p1 * F
           = ((M2 + M3) * w1 - F) + (M1 * F - (M2 * M3) * w1)
               + F * E1 - (w1 * p3) * E2 - (w1 * (M2 - 1)) * E3
    <3>1. p1 * F = F * E1 + (M1 - 1) * F
      BY <1>2, <2>6, <2>7
    <3>2. w1 * (p2 * p3) = (w1 * p3) * E2 + (w1 * (M2 - 1)) * E3 + w1 * ((M2 - 1) * (M3 - 1))
      BY <1>2, <2>6, <2>9
    <3>3. QED
      BY <1>2, <2>6, <3>1, <3>2
  <2>12. w3 - w3 * (p1 * p2) + p3 * G
           = ((M1 + M2) * w3 - G) + (M3 * G - (M1 * M2) * w3)
               - (w3 * p2) * E1 - (w3 * (M1 - 1)) * E2 + G * E3
    <3>1. p3 * G = G * E3 + (M3 - 1) * G
      BY <1>2, <2>6, <2>7
    <3>2. w3 * (p1 * p2) = (w3 * p2) * E1 + (w3 * (M1 - 1)) * E2 + w3 * ((M1 - 1) * (M2 - 1))
      BY <1>2, <2>6, <2>10
    <3>3. QED
      BY <1>2, <2>6, <3>1, <3>2
  <2> DEFINE l1 == (M2 + M3) * w1 - F
             h1 == M1 * F - (M2 * M3) * w1
             l2 == (M1 + M2) * w3 - G
             h2 == M3 * G - (M1 * M2) * w3
             t == T + w2 * (M1 - M3)
             a1 == s * w2
             b2 == w1 * p3
             b3 == w1 * (M2 - 1)
             c1 == w3 * p2
             c2 == w3 * (M1 - 1)
  <2>13. /\ l1 \in Int /\ h1 \in Int /\ l2 \in Int /\ h2 \in Int /\ t \in Int
         /\ a1 \in Int /\ b2 \in Int /\ b3 \in Int /\ c1 \in Int /\ c2 \in Int
    BY <1>2, <2>3
  <2>14. s * t + al * l1 - be * l2 = 0 /\ al * h1 - be * h2 = 0
    BY <2>1, <2>2, <2>5
  <2>15. H = (s * t + a1 * E1 - a1 * E3) + al * (l1 + h1 + F * E1 - b2 * E2 - b3 * E3)
               - be * (l2 + h2 - c1 * E1 - c2 * E2 + G * E3)
    BY <2>4, <2>8, <2>11, <2>12
  <2>16. k1 = a1 + al * F + be * c1 /\ k2 = be * c2 - al * b2 /\ k3 = -a1 - al * b3 - be * G
    BY Zenon
  <2> HIDE DEF l1, h1, l2, h2, t, a1, b2, b3, c1, c2, k1, k2, k3
  <2>17. QED
    BY <1>2, <2>6, <2>13, <2>14, <2>15, <2>16
<1>5. Vanishes(X)
  <2> DEFINE d == D * w2
  <2>1. d \in Int /\ E1 \in Int /\ E2 \in Int /\ E3 \in Int
    BY <1>1, <1>2
  <2>2. k1 \in Int /\ k2 \in Int /\ k3 \in Int
    <3> HIDE DEF p2, p3, F, G
    <3>1. QED
      BY <1>2
  <2>3. Vanishes(E1) /\ Vanishes(E2) /\ Vanishes(E3)
    OBVIOUS
  <2>4. X = d * H
    BY <1>3, Zenon
  <2> HIDE DEF d, E1, E2, E3, k1, k2, k3, X, H
  <2>5. Combines(H, E1, k1, E2, k2, E3, k3, 0, 0)
    BY <1>4, <2>1, <2>2 DEF Combines
  <2>6. Vanishes(H)
    BY <2>3, <2>5, ZeroVanishes, CombinationVanishes
  <2>7. H \in Int
    BY <1>4, <2>1, <2>2
  <2>8. QED
    BY <2>1, <2>4, <2>6, <2>7, MultipleVanishes
<1>6. QED
  BY <1>5

\* A coordinate of the sum of three points over the products of denominators,
\* t, n and m being those of the sum of two.
Numerator(t, n, m, a, b) == (1 - t) * (n * a) + (1 + t) * (m * b)
\* Its denominator.
Denominator(e, t, g, n, m) == 1 - t * t + (e * EDWARDS_D) * (g * (n * m))

\* A coordinate of the sum of a sum and a third point is such a fraction.
LEMMA ThirdPoint ==
  ASSUME NEW t \in Int, NEW u \in Int, NEW v \in Int, NEW n \in Int, NEW m \in Int,
         NEW g \in Int, NEW a \in Int, NEW b \in Int, NEW e \in {1, -1}, NEW L \in Int,
         NEW c \in Int, c = EDWARDS_D * (g * (u * v)),
         Same((1 + t) * u, n), Same((1 - t) * v, m), Same((1 + e * c) * L, u * a + v * b),
         ~Vanishes(1 + t), ~Vanishes(1 - t), ~Vanishes(1 + e * c)
  PROVE  /\ Same(Denominator(e, t, g, n, m) * L, Numerator(t, n, m, a, b))
         /\ ~Vanishes(Denominator(e, t, g, n, m))
<1> DEFINE D == e * EDWARDS_D
           U == (1 + t) * u
           V == (1 - t) * v
           K == (1 + t) * (1 - t)
           A == Numerator(t, n, m, a, b)
           B == Denominator(e, t, g, n, m)
           C == (1 + e * c) * L - (u * a + v * b)
           f == e * c
<1>1. D \in Int /\ U \in Int /\ V \in Int /\ K \in Int /\ C \in Int /\ e \in Int /\ EDWARDS_D \in Int /\ f \in Int
  BY CurveAssumption
<1>2. A \in Int /\ B \in Int
  <2> HIDE DEF D
  <2>1. A \in Int
    BY DEF Numerator
  <2>2. B = 1 - t * t + D * (g * (n * m))
    BY DEF Denominator, D
  <2>3. QED
    BY <1>1, <2>1, <2>2
<1>3. Vanishes(U - n) /\ Vanishes(V - m) /\ Vanishes(C)
  BY DEF Same
<1>4. K * f = D * (g * (U * V))
  <2>1. f = D * (g * (u * v))
    BY <1>1
  <2>2. K * (D * (g * (u * v))) = D * (g * (U * V))
    <3> HIDE DEF D
    <3>1. QED
      BY <1>1
  <2>3. QED
    BY <2>1, <2>2
<1>5. B = K + D * (g * (n * m))
  <2>1. B = 1 - t * t + D * (g * (n * m))
    BY DEF Denominator
  <2>2. K = 1 - t * t
    OBVIOUS
  <2>3. QED
    BY <2>1, <2>2, Zenon
<1> DEFINE ku == -(D * g) * V
           kv == -(D * g) * n
           lu == ku * L + (1 - t) * a
           lv == kv * L + (1 + t) * b
<1>6. ku \in Int /\ kv \in Int
  <2> HIDE DEF D, V
  <2>1. QED
    BY <1>1
<1>7. lu \in Int /\ lv \in Int
  <2> HIDE DEF ku, kv
  <2>1. QED
    BY <1>6
<1>8. B = (1 + f) * K + ku * (U - n) + kv * (V - m)
  <2> HIDE DEF B, D, U, V, K, f
  <2>1. ku * (U - n) + kv * (V - m) = D * (g * (n * m)) - D * (g * (U * V))
    BY <1>1
  <2>2. (1 + f) * K = K + D * (g * (U * V))
    BY <1>1, <1>4
  <2>3. D * (g * (n * m)) \in Int /\ D * (g * (U * V)) \in Int
    BY <1>1
  <2> DEFINE X == D * (g * (n * m))
             Y == D * (g * (U * V))
             Z == ku * (U - n) + kv * (V - m)
  <2>4. X \in Int /\ Y \in Int /\ Z = X - Y /\ B = K + X /\ (1 + f) * K = K + Y
    BY <1>5, <2>1, <2>2, <2>3
  <2>5. (1 + f) * K + Z = B
    <3> DEFINE W == (1 + f) * K
    <3>1. W = K + Y
      BY <2>4
    <3> HIDE DEF X, Y, Z, W
    <3>2. W + Z = B
      BY <1>1, <2>4, <3>1
    <3>3. QED
      BY <3>2 DEF W
  <2>6. ku * (U - n) \in Int /\ kv * (V - m) \in Int /\ (1 + f) * K \in Int
    BY <1>1, <1>6
  <2> DEFINE P == ku * (U - n)
             R == kv * (V - m)
             W == (1 + f) * K
  <2>7. W + (P + R) = B /\ P \in Int /\ R \in Int /\ W \in Int
    BY <2>5, <2>6
  <2> HIDE DEF P, R, W, ku, kv
  <2>8. W + P + R = B
    BY <2>7
  <2>9. QED
    BY <2>8 DEF P, R, W
<1>9. B * L - A = K * C + lu * (U - n) + lv * (V - m)
  <2>1. K * (u * a + v * b) = (1 - t) * (U * a) + (1 + t) * (V * b)
    OBVIOUS
  <2>2. A = (1 - t) * (n * a) + (1 + t) * (m * b)
    BY DEF Numerator
  <2>3. K * C = K * ((1 + f) * L) - ((1 - t) * (U * a) + (1 + t) * (V * b))
    <3> DEFINE X == (1 + f) * L
               Y == u * a + v * b
    <3>1. X \in Int /\ Y \in Int /\ C = X - Y
      BY <1>1
    <3> HIDE DEF X, Y, K, C
    <3>2. K * C = K * X - K * Y
      BY <1>1, <3>1
    <3>3. QED
      BY <2>1, <3>2 DEF X, Y
  <2> DEFINE X == ku * (U - n)
             Y == kv * (V - m)
             W == (1 + f) * K
  <2>4. X \in Int /\ Y \in Int /\ W \in Int /\ B = W + X + Y
    <3>1. X \in Int /\ Y \in Int /\ W \in Int
      <4> HIDE DEF ku, kv, U, V, K, f
      <4>1. QED
        BY <1>1, <1>6
    <3>2. QED
      BY <1>8, <3>1
  <2>5. lu * (U - n) + lv * (V - m) = X * L + Y * L + (1 - t) * ((U - n) * a) + (1 + t) * ((V - m) * b)
    <3> HIDE DEF ku, kv, U, V
    <3>1. QED
      BY <1>1, <1>6
  <2>6. K * ((1 + f) * L) = W * L
    <3> HIDE DEF K, f
    <3>1. QED
      BY <1>1
  <2> DEFINE S == (1 - t) * (U * a) + (1 + t) * (V * b)
             T == (1 - t) * ((U - n) * a) + (1 + t) * ((V - m) * b)
             Z == lu * (U - n) + lv * (V - m)
  <2>7. S \in Int /\ T \in Int /\ S = A + T
    <3> HIDE DEF U, V
    <3>1. S = (1 - t) * (n * a) + (1 + t) * (m * b) + T
      BY <1>1
    <3>2. QED
      BY <1>1, <2>2, <3>1
  <2>8. Z = X * L + Y * L + T /\ K * C = W * L - S
    <3>1. (1 - t) * ((U - n) * a) \in Int /\ (1 + t) * ((V - m) * b) \in Int
      <4> HIDE DEF U, V
      <4>1. QED
        BY <1>1
    <3> DEFINE i == (1 - t) * ((U - n) * a)
               j == (1 + t) * ((V - m) * b)
    <3>2. Z = X * L + Y * L + i + j /\ i \in Int /\ j \in Int
      BY <2>5, <3>1
    <3>3. X * L + Y * L + i + j = X * L + Y * L + (i + j)
      <4> HIDE DEF X, Y, i, j
      <4>1. QED
        BY <2>4, <3>1 DEF i, j
    <3>4. QED
      BY <2>3, <2>6, <3>2, <3>3, Zenon
  <2> DEFINE k == K * C
  <2>9. lu * (U - n) \in Int /\ lv * (V - m) \in Int /\ k \in Int
    <3> HIDE DEF lu, lv, U, V, K, C
    <3>1. QED
      BY <1>1, <1>7
  <2> DEFINE P == lu * (U - n)
             R == lv * (V - m)
  <2>10. P \in Int /\ R \in Int /\ P + R = X * L + Y * L + T /\ k = W * L - S
    BY <2>8, <2>9
  <2> HIDE DEF P, R, k, X, Y, W, S, T, B, A
  <2>11. B * L = W * L + X * L + Y * L
    BY <2>4
  <2>12. B * L - A = k + P + R
    BY <1>2, <2>4, <2>7, <2>9, <2>10, <2>11
  <2>13. QED
    BY <2>12 DEF k, P, R
<1>10. Same(B * L, A)
  <2> DEFINE r == B * L - A
  <2>1. r \in Int
    BY <1>2
  <2> HIDE DEF r, A, B, C, K, U, V, lu, lv
  <2>2. Combines(r, C, K, U - n, lu, V - m, lv, 0, 0)
    <3>1. r = K * C + lu * (U - n) + lv * (V - m)
      BY <1>9 DEF r
    <3>2. K * C \in Int /\ lu * (U - n) \in Int /\ lv * (V - m) \in Int
      BY <1>1, <1>7
    <3>3. r = K * C + lu * (U - n) + lv * (V - m) + 0 * 0
      BY <3>1, <3>2
    <3>4. QED
      BY <1>1, <1>7, <3>3 DEF Combines
  <2>3. Vanishes(r)
    BY <1>3, <2>2, ZeroVanishes, CombinationVanishes
  <2>4. QED
    BY <2>3 DEF Same, r
<1>11. ~Vanishes(B)
  <2> SUFFICES ASSUME Vanishes(B) PROVE FALSE
    OBVIOUS
  <2> DEFINE r == (1 + f) * K
  <2>1. r \in Int
    <3> HIDE DEF f, K
    <3>1. QED
      BY <1>1
  <2>2. Combines(r, B, 1, U - n, -ku, V - m, -kv, 0, 0)
    <3> HIDE DEF r, B, U, V, ku, kv
    <3>1. B = r + ku * (U - n) + kv * (V - m)
      BY <1>8 DEF r
    <3>2. r = 1 * B + (-ku) * (U - n) + (-kv) * (V - m) + 0 * 0
      BY <1>1, <1>2, <1>6, <2>1, <3>1
    <3>3. QED
      BY <1>1, <1>2, <1>6, <3>2 DEF Combines
  <2>3. Vanishes(r)
    <3> HIDE DEF r, B, U, V, ku, kv
    <3>1. QED
      BY <1>3, <2>2, ZeroVanishes, CombinationVanishes
  <2>4. 1 + f \in Int /\ ~Vanishes(1 + f)
    BY <1>1
  <2>5. 1 + t \in Int /\ 1 - t \in Int
    OBVIOUS
  <2>6. ~Vanishes(K)
    BY <2>5, NoZeroDivisors
  <2> HIDE DEF K, f
  <2>7. QED
    BY <1>1, <2>3, <2>4, <2>6, NoZeroDivisors DEF r
<1>12. QED
  BY <1>10, <1>11

\* Quotients whose cross products agree are equal.
LEMMA QuotientsAgree ==
  ASSUME NEW A \in Int, NEW B \in Int, NEW C \in Int, NEW E \in Int, NEW L \in Int,
         NEW R \in Int,
         Same(B * L, A), Same(E * R, C), Vanishes(A * E - C * B), ~Vanishes(B), ~Vanishes(E)
  PROVE  Same(L, R)
<1> DEFINE F == B * L - A
           G == E * R - C
           H == A * E - C * B
           r == (B * E) * (L - R)
<1>1. Combines(r, F, E, G, -B, H, 1, 0, 0)
  BY DEF Combines
<1>2. Vanishes(F) /\ Vanishes(G) /\ Vanishes(H)
  BY DEF Same
<1>3. Vanishes(r)
  <2> HIDE DEF r, F, G, H
  <2>1. QED
    BY <1>1, <1>2, ZeroVanishes, CombinationVanishes
<1>4. B * E \in Int /\ L - R \in Int /\ ~Vanishes(B * E)
  BY NoZeroDivisors
<1>5. QED
  BY <1>3, <1>4, NoZeroDivisors DEF Same

\* The cross products of a coordinate vanish: the u-coordinate by the identities
\* as they stand, the v-coordinate by them with u and v exchanged.
LEMMA CoordinatesCross ==
  ASSUME NEW x1 \in Int, NEW y1 \in Int, NEW x2 \in Int, NEW y2 \in Int, NEW x3 \in Int,
         NEW y3 \in Int,
         Vanishes(Curve(x1, y1)), Vanishes(Curve(x2, y2)), Vanishes(Curve(x3, y3))
  PROVE  /\ Vanishes(CrossProducts(EDWARDS_D,
                x1 * (y2 * y3) + x2 * (y1 * y3) + x3 * (y1 * y2) + x1 * (x2 * x3),
                x3 * (y1 * y2) + x1 * (x2 * x3) - x1 * (y2 * y3) - x2 * (y1 * y3),
                x1 * (y2 * y3) + x1 * (x2 * x3) - x2 * (y1 * y3) - x3 * (y1 * y2),
                x1 * y1, x2 * y2, x3 * y3,
                x1 * x1 + y1 * y1, x2 * x2 + y2 * y2, x3 * x3 + y3 * y3))
         /\ Vanishes(CrossProducts(EDWARDS_D,
                y1 * (x2 * x3) + y2 * (x1 * x3) + y3 * (x1 * x2) + y1 * (y2 * y3),
                y3 * (x1 * x2) + y1 * (y2 * y3) - y1 * (x2 * x3) - y2 * (x1 * x3),
                y1 * (x2 * x3) + y1 * (y2 * y3) - y2 * (x1 * x3) - y3 * (x1 * x2),
                x1 * y1, x2 * y2, x3 * y3,
                -(x1 * x1 + y1 * y1), -(x2 * x2 + y2 * y2), -(x3 * x3 + y3 * y3)))
<1> DEFINE w1 == x1 * y1
           w2 == x2 * y2
           w3 == x3 * y3
           S1 == x1 * x1 + y1 * y1
           S2 == x2 * x2 + y2 * y2
           S3 == x3 * x3 + y3 * y3
           M1 == y1 * y1 - x1 * x1
           M2 == y2 * y2 - x2 * x2
           M3 == y3 * y3 - x3 * x3
           D == EDWARDS_D
<1>1. D \in Int
  BY CurveAssumption
<1>2. /\ w1 \in Int /\ w2 \in Int /\ w3 \in Int /\ S1 \in Int /\ S2 \in Int /\ S3 \in Int
      /\ M1 \in Int /\ M2 \in Int /\ M3 \in Int
  OBVIOUS
<1>3. Vanishes(D * (w1 * w1) - M1 + 1) /\ Vanishes(D * (w2 * w2) - M2 + 1) /\ Vanishes(D * (w3 * w3) - M3 + 1)
  <2>1. ASSUME NEW x \in Int, NEW y \in Int, Vanishes(Curve(x, y))
        PROVE  Vanishes(D * ((x * y) * (x * y)) - (y * y - x * x) + 1)
    <3> DEFINE c == Curve(x, y)
               r == D * ((x * y) * (x * y)) - (y * y - x * x) + 1
    <3>1. c \in Int /\ r = (-1) * c
      BY <1>1 DEF Curve
    <3> HIDE DEF c, r
    <3>2. Vanishes(r)
      BY <2>1, <3>1, MultipleVanishes DEF c
    <3>3. QED
      BY <3>2 DEF r
  <2>2. QED
    BY <2>1
<1>4. ASSUME NEW s \in Int, NEW al \in Int, NEW be \in Int,
             LowTerms(s, al, be, w1, w2, w3, S1, S2, S3, M1, M2, M3) = 0,
             HighTerms(al, be, w1, w2, w3, S1, S2, S3, M1, M2, M3) = 0
      PROVE  Vanishes(CrossProducts(D, s, al, be, w1, w2, w3, S1, S2, S3))
  <2> HIDE DEF w1, w2, w3, S1, S2, S3, M1, M2, M3
  <2>1. QED
    BY <1>2, <1>3, <1>4, CrossProductsVanish
<1>5. ASSUME NEW s \in Int, NEW al \in Int, NEW be \in Int,
             LowTerms(s, al, be, w1, w2, w3, -S1, -S2, -S3, M1, M2, M3) = 0,
             HighTerms(al, be, w1, w2, w3, -S1, -S2, -S3, M1, M2, M3) = 0
      PROVE  Vanishes(CrossProducts(D, s, al, be, w1, w2, w3, -S1, -S2, -S3))
  <2>1. -S1 \in Int /\ -S2 \in Int /\ -S3 \in Int
    BY <1>2
  <2> HIDE DEF w1, w2, w3, S1, S2, S3, M1, M2, M3
  <2>2. QED
    BY <1>2, <1>3, <1>5, <2>1, CrossProductsVanish
<1>6. Vanishes(CrossProducts(D,
                x1 * (y2 * y3) + x2 * (y1 * y3) + x3 * (y1 * y2) + x1 * (x2 * x3),
                x3 * (y1 * y2) + x1 * (x2 * x3) - x1 * (y2 * y3) - x2 * (y1 * y3),
                x1 * (y2 * y3) + x1 * (x2 * x3) - x2 * (y1 * y3) - x3 * (y1 * y2),
                w1, w2, w3, S1, S2, S3))
  <2> DEFINE a == x1 * (y2 * y3)
             b == x2 * (y1 * y3)
             c == x3 * (y1 * y2)
             e == x1 * (x2 * x3)
  <2>1. LowTerms(a + b + c + e, c + e - a - b, a + e - b - c, w1, w2, w3, S1, S2, S3, M1, M2, M3) = 0
    <3>1. LowVanish(x1, y1, x2, y2, x3, y3)
      BY LowIdentity
    <3>2. QED
      BY <3>1, Zenon DEF LowVanish
  <2>2. HighTerms(c + e - a - b, a + e - b - c, w1, w2, w3, S1, S2, S3, M1, M2, M3) = 0
    <3>1. HighVanish(x1, y1, x2, y2, x3, y3)
      BY HighIdentity
    <3>2. QED
      BY <3>1, Zenon DEF HighVanish
  <2>3. a + b + c + e \in Int /\ c + e - a - b \in Int /\ a + e - b - c \in Int
    OBVIOUS
  <2> HIDE DEF a, b, c, e, w1, w2, w3, S1, S2, S3, M1, M2, M3
  <2>4. Vanishes(CrossProducts(D, a + b + c + e, c + e - a - b, a + e - b - c, w1, w2, w3, S1, S2, S3))
    BY <1>4, <2>1, <2>2, <2>3
  <2>5. QED
    BY <2>4, Zenon DEF a, b, c, e
<1>7. Vanishes(CrossProducts(D,
                y1 * (x2 * x3) + y2 * (x1 * x3) + y3 * (x1 * x2) + y1 * (y2 * y3),
                y3 * (x1 * x2) + y1 * (y2 * y3) - y1 * (x2 * x3) - y2 * (x1 * x3),
                y1 * (x2 * x3) + y1 * (y2 * y3) - y2 * (x1 * x3) - y3 * (x1 * x2),
                w1, w2, w3, -S1, -S2, -S3))
  <2> DEFINE a == y1 * (x2 * x3)
             b == y2 * (x1 * x3)
             c == y3 * (x1 * x2)
             e == y1 * (y2 * y3)
             N1 == x1 * x1 - y1 * y1
             N2 == x2 * x2 - y2 * y2
             N3 == x3 * x3 - y3 * y3
             T1 == y1 * y1 + x1 * x1
             T2 == y2 * y2 + x2 * x2
             T3 == y3 * y3 + x3 * x3
             v1 == y1 * x1
             v2 == y2 * x2
             v3 == y3 * x3
             s == a + b + c + e
             al == c + e - a - b
             be == a + e - b - c
  <2>1. LowTerms(s, al, be, v1, v2, v3, T1, T2, T3, N1, N2, N3) = 0
    <3>1. LowVanish(y1, x1, y2, x2, y3, x3)
      BY LowIdentity
    <3>2. QED
      BY <3>1, Zenon DEF LowVanish
  <2>2. HighTerms(al, be, v1, v2, v3, T1, T2, T3, N1, N2, N3) = 0
    <3>1. HighVanish(y1, x1, y2, x2, y3, x3)
      BY HighIdentity
    <3>2. QED
      BY <3>1, Zenon DEF HighVanish
  <2>3. s \in Int /\ al \in Int /\ be \in Int
    OBVIOUS
  <2>4. /\ v1 = w1 /\ v2 = w2 /\ v3 = w3 /\ T1 = S1 /\ T2 = S2 /\ T3 = S3
        /\ N1 = -M1 /\ N2 = -M2 /\ N3 = -M3
    OBVIOUS
  <2> HIDE DEF a, b, c, e, s, al, be, v1, v2, v3, T1, T2, T3, N1, N2, N3, w1, w2, w3, S1, S2, S3, M1, M2, M3
  <2>5. LowTerms(s, al, be, w1, w2, w3, S1, S2, S3, -M1, -M2, -M3) = 0
        /\ HighTerms(al, be, w1, w2, w3, S1, S2, S3, -M1, -M2, -M3) = 0
    BY <2>1, <2>2, <2>4
  <2>6. LowTerms(s, al, be, w1, w2, w3, -S1, -S2, -S3, M1, M2, M3)
           = -LowTerms(s, al, be, w1, w2, w3, S1, S2, S3, -M1, -M2, -M3)
    BY <1>2, <2>3 DEF LowTerms
  <2>7. HighTerms(al, be, w1, w2, w3, -S1, -S2, -S3, M1, M2, M3)
           = HighTerms(al, be, w1, w2, w3, S1, S2, S3, -M1, -M2, -M3)
    BY <1>2, <2>3 DEF HighTerms
  <2>8. Vanishes(CrossProducts(D, s, al, be, w1, w2, w3, -S1, -S2, -S3))
    BY <1>5, <2>3, <2>5, <2>6, <2>7
  <2>9. QED
    BY <2>8, Zenon DEF s, al, be, a, b, c, e
<1>8. QED
  BY <1>6, <1>7, Zenon

\* The two ways to add three points lead to the same coordinates ...
LEMMA AdditionIsAssociative ==
  ASSUME NEW x1 \in Int, NEW y1 \in Int, NEW x2 \in Int, NEW y2 \in Int, NEW x3 \in Int,
         NEW y3 \in Int,
         NEW u \in Int, NEW v \in Int, NEW z \in Int, NEW w \in Int,
         NEW L \in Int, NEW M \in Int, NEW R \in Int, NEW S \in Int,
         Vanishes(Curve(x1, y1)), Vanishes(Curve(x2, y2)), Vanishes(Curve(x3, y3)),
         Vanishes(Curve(u, v)), Vanishes(Curve(z, w)),
         Adds(x1, y1, x2, y2, u, v), Adds(x2, y2, x3, y3, z, w),
         Adds(u, v, x3, y3, L, M), Adds(x1, y1, z, w, R, S)
  PROVE  Same(L, R) /\ Same(M, S)
<1> DEFINE D == EDWARDS_D
           t == Cross(x1, y1, x2, y2)
           n == x1 * y2 + y1 * x2
           m == y1 * y2 + x1 * x2
           tt == Cross(x2, y2, x3, y3)
           nn == x2 * y3 + y2 * x3
           mm == y2 * y3 + x2 * x3
           g == x3 * y3
           gg == x1 * y1
           c == Cross(u, v, x3, y3)
           cc == Cross(x1, y1, z, w)
<1>1. D \in Int
  BY CurveAssumption
<1>2. /\ t \in Int /\ n \in Int /\ m \in Int /\ tt \in Int /\ nn \in Int /\ mm \in Int
      /\ g \in Int /\ gg \in Int /\ c \in Int /\ cc \in Int
  BY <1>1 DEF Cross
<1>3. c = EDWARDS_D * (g * (u * v)) /\ cc = EDWARDS_D * (gg * (z * w))
  BY <1>1 DEF Cross
<1>4. ASSUME NEW a1 \in Int, NEW b1 \in Int, NEW a2 \in Int, NEW b2 \in Int,
             Vanishes(Curve(a1, b1)), Vanishes(Curve(a2, b2))
      PROVE  ~Vanishes(1 + Cross(a1, b1, a2, b2)) /\ ~Vanishes(1 - Cross(a1, b1, a2, b2))
  <2> DEFINE k == Cross(a1, b1, a2, b2)
  <2>1. ~Vanishes(1 - k) /\ ~Vanishes(-1 - k)
    BY <1>4, Completeness
  <2>2. k \in Int
    BY <1>1 DEF Cross
  <2> HIDE DEF k
  <2>3. Combines(-1 - k, 1 + k, -1, 0, 0, 0, 0, 0, 0)
    BY <2>2 DEF Combines
  <2>4. QED
    BY <2>1, <2>3, ZeroVanishes, CombinationVanishes DEF k
<1>5. /\ ~Vanishes(1 + t) /\ ~Vanishes(1 - t) /\ ~Vanishes(1 + tt) /\ ~Vanishes(1 - tt)
      /\ ~Vanishes(1 + c) /\ ~Vanishes(1 - c) /\ ~Vanishes(1 + cc) /\ ~Vanishes(1 - cc)
  <2> HIDE DEF t, tt, c, cc
  <2>1. ~Vanishes(1 + t) /\ ~Vanishes(1 - t)
    BY <1>4 DEF t
  <2>2. ~Vanishes(1 + tt) /\ ~Vanishes(1 - tt)
    BY <1>4 DEF tt
  <2>3. ~Vanishes(1 + c) /\ ~Vanishes(1 - c)
    BY <1>4 DEF c
  <2>4. ~Vanishes(1 + cc) /\ ~Vanishes(1 - cc)
    BY <1>4 DEF cc
  <2>5. QED
    BY <2>1, <2>2, <2>3, <2>4
<1>6. /\ Same((1 + t) * u, n) /\ Same((1 - t) * v, m)
      /\ Same((1 + tt) * z, nn) /\ Same((1 - tt) * w, mm)
  BY DEF Adds
<1>7. /\ Same((1 + 1 * c) * L, u * y3 + v * x3) /\ Same((1 + 1 * cc) * R, z * y1 + w * x1)
      /\ Same((1 + (-1) * c) * M, u * x3 + v * y3) /\ Same((1 + (-1) * cc) * S, z * x1 + w * y1)
      /\ 1 + 1 * c = 1 + c /\ 1 + (-1) * c = 1 - c /\ 1 + 1 * cc = 1 + cc /\ 1 + (-1) * cc = 1 - cc
  <2>1. /\ Same((1 + c) * L, u * y3 + v * x3) /\ Same((1 + cc) * R, x1 * w + y1 * z)
        /\ Same((1 - c) * M, v * y3 + u * x3) /\ Same((1 - cc) * S, y1 * w + x1 * z)
    BY DEF Adds
  <2>2. /\ x1 * w + y1 * z = z * y1 + w * x1 /\ v * y3 + u * x3 = u * x3 + v * y3
        /\ y1 * w + x1 * z = z * x1 + w * y1
    OBVIOUS
  <2>3. 1 + 1 * c = 1 + c /\ 1 + (-1) * c = 1 - c /\ 1 + 1 * cc = 1 + cc /\ 1 + (-1) * cc = 1 - cc
    <3> HIDE DEF c, cc
    <3>1. QED
      BY <1>2
  <2> HIDE DEF c, cc
  <2>4. QED
    BY <2>1, <2>2, <2>3
<1> DEFINE A(a, b) == Numerator(t, n, m, a, b)
           B(e) == Denominator(e, t, g, n, m)
           C(a, b) == Numerator(tt, nn, mm, a, b)
           E(e) == Denominator(e, tt, gg, nn, mm)
           w1 == x1 * y1
           w2 == x2 * y2
           w3 == x3 * y3
           S1 == x1 * x1 + y1 * y1
           S2 == x2 * x2 + y2 * y2
           S3 == x3 * x3 + y3 * y3
<1>8. n * m = w1 * S2 + w2 * S1 /\ nn * mm = w2 * S3 + w3 * S2
  OBVIOUS
<1>9. /\ t = D * (w1 * w2) /\ tt = D * (w2 * w3)
      /\ t * t = (D * (w1 * w1)) * (D * (w2 * w2)) /\ tt * tt = (D * (w2 * w2)) * (D * (w3 * w3))
  <2>1. t = D * (w1 * w2) /\ tt = D * (w2 * w3)
    BY <1>1 DEF Cross
  <2>2. w1 \in Int /\ w2 \in Int /\ w3 \in Int
    OBVIOUS
  <2> HIDE DEF t, tt, w1, w2, w3
  <2>3. QED
    BY <1>1, <2>1, <2>2
<1>10. /\ B(1) = 1 - (D * (w1 * w1)) * (D * (w2 * w2)) + (D * w3) * (w1 * S2 + w2 * S1)
       /\ B(-1) = 1 - (D * (w1 * w1)) * (D * (w2 * w2)) + (D * w3) * (w1 * (-S2) + w2 * (-S1))
       /\ E(1) = 1 - (D * (w2 * w2)) * (D * (w3 * w3)) + (D * w1) * (w2 * S3 + w3 * S2)
       /\ E(-1) = 1 - (D * (w2 * w2)) * (D * (w3 * w3)) + (D * w1) * (w2 * (-S3) + w3 * (-S2))
  <2>1. \A e \in {1, -1} :
           /\ B(e) = 1 - t * t + (e * D) * (w3 * (w1 * S2 + w2 * S1))
           /\ E(e) = 1 - tt * tt + (e * D) * (w1 * (w2 * S3 + w3 * S2))
    BY <1>8 DEF Denominator
  <2>2. w1 \in Int /\ w2 \in Int /\ w3 \in Int /\ S1 \in Int /\ S2 \in Int /\ S3 \in Int
    OBVIOUS
  <2> HIDE DEF B, E, t, tt, w1, w2, w3, S1, S2, S3
  <2> DEFINE T == (D * (w1 * w1)) * (D * (w2 * w2))
             TT == (D * (w2 * w2)) * (D * (w3 * w3))
  <2>3. T \in Int /\ TT \in Int /\ t * t = T /\ tt * tt = TT
    BY <1>1, <1>9, <2>2
  <2> HIDE DEF T, TT
  <2>4. /\ B(1) = 1 - T + (1 * D) * (w3 * (w1 * S2 + w2 * S1))
        /\ B(-1) = 1 - T + ((-1) * D) * (w3 * (w1 * S2 + w2 * S1))
        /\ E(1) = 1 - TT + (1 * D) * (w1 * (w2 * S3 + w3 * S2))
        /\ E(-1) = 1 - TT + ((-1) * D) * (w1 * (w2 * S3 + w3 * S2))
    BY <2>1, <2>3
  <2>5. /\ (1 * D) * (w3 * (w1 * S2 + w2 * S1)) = (D * w3) * (w1 * S2 + w2 * S1)
        /\ ((-1) * D) * (w3 * (w1 * S2 + w2 * S1)) = (D * w3) * (w1 * (-S2) + w2 * (-S1))
        /\ (1 * D) * (w1 * (w2 * S3 + w3 * S2)) = (D * w1) * (w2 * S3 + w3 * S2)
        /\ ((-1) * D) * (w1 * (w2 * S3 + w3 * S2)) = (D * w1) * (w2 * (-S3) + w3 * (-S2))
    BY <1>1, <2>2
  <2>6. QED
    BY <2>4, <2>5, Zenon DEF T, TT
<1>11. ASSUME NEW a \in Int, NEW b \in Int
       PROVE  /\ A(a, b) = (n * a + m * b) + (D * (w1 * w2)) * (m * b - n * a)
              /\ C(a, b) = (nn * a + mm * b) + (D * (w2 * w3)) * (mm * b - nn * a)
  <2>1. \A i, j, k \in Int : Numerator(i, j, k, a, b) = (j * a + k * b) + i * (k * b - j * a)
    BY DEF Numerator
  <2> HIDE DEF t, tt, n, m, nn, mm, w1, w2, w3
  <2>2. A(a, b) = (n * a + m * b) + t * (m * b - n * a)
    BY <1>2, <2>1
  <2>3. C(a, b) = (nn * a + mm * b) + tt * (mm * b - nn * a)
    BY <1>2, <2>1
  <2>4. QED
    BY <1>9, <2>2, <2>3
<1>12. \A a, b \in Int : A(a, b) \in Int /\ C(a, b) \in Int
  <2> HIDE DEF t, tt, n, m, nn, mm
  <2>1. QED
    BY <1>2 DEF Numerator
<1>13. \A e \in {1, -1} : B(e) \in Int /\ E(e) \in Int
  <2> HIDE DEF t, tt, n, m, nn, mm, g, gg
  <2>1. \A i, j, k, l \in Int, e \in {1, -1} : Denominator(e, i, j, k, l) \in Int
    <3> SUFFICES ASSUME NEW i \in Int, NEW j \in Int, NEW k \in Int, NEW l \in Int, NEW e \in {1, -1}
                 PROVE  Denominator(e, i, j, k, l) \in Int
      OBVIOUS
    <3>1. e * EDWARDS_D \in Int
      BY <1>1
    <3>2. QED
      BY <3>1 DEF Denominator
  <2>2. QED
    BY <1>2, <2>1
<1>14. Vanishes(A(y3, x3) * E(1) - C(y1, x1) * B(1))
  <2> DEFINE s == x1 * (y2 * y3) + x2 * (y1 * y3) + x3 * (y1 * y2) + x1 * (x2 * x3)
             al == x3 * (y1 * y2) + x1 * (x2 * x3) - x1 * (y2 * y3) - x2 * (y1 * y3)
             be == x1 * (y2 * y3) + x1 * (x2 * x3) - x2 * (y1 * y3) - x3 * (y1 * y2)
  <2>1. Vanishes(CrossProducts(D, s, al, be, w1, w2, w3, S1, S2, S3))
    BY CoordinatesCross
  <2>2. n * y3 + m * x3 = s /\ m * x3 - n * y3 = al /\ nn * y1 + mm * x1 = s /\ mm * x1 - nn * y1 = be
    OBVIOUS
  <2>3. A(y3, x3) = s + (D * (w1 * w2)) * al /\ C(y1, x1) = s + (D * (w2 * w3)) * be
    <3> HIDE DEF A, C, n, m, nn, mm, s, al, be, w1, w2, w3
    <3>1. QED
      BY <1>11, <2>2
  <2>4. A(y3, x3) * E(1) - C(y1, x1) * B(1) = CrossProducts(D, s, al, be, w1, w2, w3, S1, S2, S3)
    <3> HIDE DEF A, B, C, E, s, al, be, w1, w2, w3, S1, S2, S3
    <3>1. QED
      BY <1>10, <2>3, Zenon DEF CrossProducts
  <2> HIDE DEF A, B, C, E, s, al, be, w1, w2, w3, S1, S2, S3
  <2>5. QED
    BY <2>1, <2>4
<1>15. Vanishes(A(x3, y3) * E(-1) - C(x1, y1) * B(-1))
  <2> DEFINE s == y1 * (x2 * x3) + y2 * (x1 * x3) + y3 * (x1 * x2) + y1 * (y2 * y3)
             al == y3 * (x1 * x2) + y1 * (y2 * y3) - y1 * (x2 * x3) - y2 * (x1 * x3)
             be == y1 * (x2 * x3) + y1 * (y2 * y3) - y2 * (x1 * x3) - y3 * (x1 * x2)
  <2>1. Vanishes(CrossProducts(D, s, al, be, w1, w2, w3, -S1, -S2, -S3))
    BY CoordinatesCross
  <2>2. n * x3 + m * y3 = s /\ m * y3 - n * x3 = al /\ nn * x1 + mm * y1 = s /\ mm * y1 - nn * x1 = be
    OBVIOUS
  <2>3. A(x3, y3) = s + (D * (w1 * w2)) * al /\ C(x1, y1) = s + (D * (w2 * w3)) * be
    <3> HIDE DEF A, C, n, m, nn, mm, s, al, be, w1, w2, w3
    <3>1. QED
      BY <1>11, <2>2
  <2>4. A(x3, y3) * E(-1) - C(x1, y1) * B(-1) = CrossProducts(D, s, al, be, w1, w2, w3, -S1, -S2, -S3)
    <3> HIDE DEF A, B, C, E, s, al, be, w1, w2, w3, S1, S2, S3
    <3>1. QED
      BY <1>10, <2>3, Zenon DEF CrossProducts
  <2> HIDE DEF A, B, C, E, s, al, be, w1, w2, w3, S1, S2, S3
  <2>5. QED
    BY <2>1, <2>4
<1>16. Same(B(1) * L, A(y3, x3)) /\ ~Vanishes(B(1))
  <2> HIDE DEF t, n, m, g, c
  <2>1. ~Vanishes(1 + 1 * c)
    BY <1>5, <1>7
  <2>2. QED
    BY <1>2, <1>3, <1>5, <1>6, <1>7, <2>1, ThirdPoint
<1>17. Same(E(1) * R, C(y1, x1)) /\ ~Vanishes(E(1))
  <2> HIDE DEF tt, nn, mm, gg, cc
  <2>1. ~Vanishes(1 + 1 * cc)
    BY <1>5, <1>7
  <2>2. QED
    BY <1>2, <1>3, <1>5, <1>6, <1>7, <2>1, ThirdPoint
<1>18. Same(B(-1) * M, A(x3, y3)) /\ ~Vanishes(B(-1))
  <2> HIDE DEF t, n, m, g, c
  <2>1. ~Vanishes(1 + (-1) * c)
    BY <1>5, <1>7
  <2>2. QED
    BY <1>2, <1>3, <1>5, <1>6, <1>7, <2>1, ThirdPoint
<1>19. Same(E(-1) * S, C(x1, y1)) /\ ~Vanishes(E(-1))
  <2> HIDE DEF tt, nn, mm, gg, cc
  <2>1. ~Vanishes(1 + (-1) * cc)
    BY <1>5, <1>7
  <2>2. QED
    BY <1>2, <1>3, <1>5, <1>6, <1>7, <2>1, ThirdPoint
<1> HIDE DEF A, B, C, E
<1>20. Same(L, R)
  BY <1>12, <1>13, <1>14, <1>16, <1>17, QuotientsAgree
<1>21. Same(M, S)
  BY <1>12, <1>13, <1>15, <1>18, <1>19, QuotientsAgree
<1>22. QED
  BY <1>20, <1>21

\* ... so the addition of the curve is associative.
LEMMA PlusAssociative ==
  ASSUME NEW p \in Points, NEW q \in Points, NEW r \in Points
  PROVE  Plus(Plus(p, q), r) = Plus(p, Plus(q, r))
<1> DEFINE a == Plus(p, q)
           b == Plus(q, r)
           l == Plus(a, r)
           h == Plus(p, b)
<1>1. a \in Points /\ b \in Points
  BY PlusOnCurve
<1>2. Adds(p.u, p.v, q.u, q.v, a.u, a.v) /\ Adds(q.u, q.v, r.u, r.v, b.u, b.v)
  BY PlusAdds
<1> HIDE DEF a, b
<1>3. l \in Points /\ h \in Points
  BY <1>1, PlusOnCurve
<1>4. Adds(a.u, a.v, r.u, r.v, l.u, l.v) /\ Adds(p.u, p.v, b.u, b.v, h.u, h.v)
  BY <1>1, PlusAdds
<1> HIDE DEF l, h
<1>5. \A x \in Points : x \in [u : Field, v : Field] /\ x.u \in Int /\ x.v \in Int /\ x.u \in Field /\ x.v \in Field
                          /\ Vanishes(Curve(x.u, x.v))
  BY PointCoordinates DEF Points
<1>6. Same(l.u, h.u) /\ Same(l.v, h.v)
  BY <1>1, <1>2, <1>3, <1>4, <1>5, AdditionIsAssociative
<1>7. l.u = h.u /\ l.v = h.v
  BY <1>3, <1>5, <1>6, FieldSame
<1>8. l = h
  BY <1>3, <1>5, <1>7
<1>9. QED
  BY <1>8 DEF a, b, l, h

-----------------------------------------------------------------------------
(* The points are a group                                                   *)

\* The coordinates of a point of the curve.
LEMMA Coordinates ==
  ASSUME NEW p \in Points
  PROVE  /\ p \in [u : Field, v : Field] /\ p = [u |-> p.u, v |-> p.v]
         /\ p.u \in Field /\ p.v \in Field /\ p.u \in Int /\ p.v \in Int
         /\ Vanishes(Curve(p.u, p.v))
<1>1. p \in [u : Field, v : Field] /\ OnCurve(p)
  BY DEF Points
<1>2. QED
  BY <1>1, PointCoordinates

\* Coordinates for which the curve's polynomial vanishes are a point.
LEMMA PointFromCoordinates ==
  ASSUME NEW x \in Field, NEW y \in Field, Vanishes(Curve(x, y))
  PROVE  [u |-> x, v |-> y] \in Points
<1> DEFINE p == [u |-> x, v |-> y]
<1>1. p \in [u : Field, v : Field] /\ p.u = x /\ p.v = y
  OBVIOUS
<1> HIDE DEF p
<1>2. OnCurve(p)
  BY <1>1, PointCoordinates
<1>3. QED
  BY <1>1, <1>2 DEF Points, p

\* An element times a factor that is not zero determines the element.
LEMMA FactorCancels ==
  ASSUME NEW d \in Int, NEW n \in Int, NEW x \in Field, NEW y \in Field,
         Same(d * x, n), Same(d * y, n), ~Vanishes(d)
  PROVE  x = y
<1>1. x \in Int /\ y \in Int
  BY FieldSize DEF Field
<1> DEFINE a == d * x - n
           b == d * y - n
           r == d * (x - y)
<1>2. Combines(r, a, 1, b, -1, 0, 0, 0, 0)
  BY <1>1 DEF Combines
<1>3. Vanishes(a) /\ Vanishes(b)
  BY DEF Same
<1>4. Vanishes(r)
  <2> HIDE DEF a, b, r
  <2>1. QED
    BY <1>2, <1>3, ZeroVanishes, CombinationVanishes
<1>5. x - y \in Int
  BY <1>1
<1>6. Vanishes(x - y)
  BY <1>4, <1>5, NoZeroDivisors
<1>7. QED
  BY <1>6, FieldSame DEF Same

\* Whoever satisfies the equations of the addition law is the sum.
LEMMA PlusIsTheSum ==
  ASSUME NEW p \in Points, NEW q \in Points, NEW x \in Field, NEW y \in Field,
         Adds(p.u, p.v, q.u, q.v, x, y)
  PROVE  Plus(p, q) = [u |-> x, v |-> y]
<1> DEFINE s == Plus(p, q)
           t == Cross(p.u, p.v, q.u, q.v)
<1>1. /\ s \in [u : Field, v : Field] /\ Adds(p.u, p.v, q.u, q.v, s.u, s.v)
      /\ ~Vanishes(1 + t) /\ ~Vanishes(1 - t)
  BY PlusAdds
<1>2. p.u \in Int /\ p.v \in Int /\ q.u \in Int /\ q.v \in Int /\ EDWARDS_D \in Int
  BY Coordinates, CurveAssumption
<1>3. t \in Int /\ p.u * q.v + p.v * q.u \in Int /\ p.v * q.v + p.u * q.u \in Int
  BY <1>2 DEF Cross
<1> HIDE DEF s
<1>4. s.u \in Field /\ s.v \in Field /\ s = [u |-> s.u, v |-> s.v]
  BY <1>1
<1>5. /\ Same((1 + t) * x, p.u * q.v + p.v * q.u) /\ Same((1 + t) * s.u, p.u * q.v + p.v * q.u)
      /\ Same((1 - t) * y, p.v * q.v + p.u * q.u) /\ Same((1 - t) * s.v, p.v * q.v + p.u * q.u)
  BY <1>1 DEF Adds
<1>6. 1 + t \in Int /\ 1 - t \in Int
  BY <1>3
<1> HIDE DEF t
<1>7. x = s.u
  BY <1>1, <1>3, <1>4, <1>5, <1>6, FactorCancels
<1>8. y = s.v
  BY <1>1, <1>3, <1>4, <1>5, <1>6, FactorCancels
<1>9. QED
  BY <1>4, <1>7, <1>8 DEF s

\* The addition is commutative ...
LEMMA PlusCommutes ==
  ASSUME NEW p \in Points, NEW q \in Points
  PROVE  Plus(p, q) = Plus(q, p)
<1> DEFINE s == Plus(q, p)
<1>1. Adds(q.u, q.v, p.u, p.v, s.u, s.v) /\ s \in [u : Field, v : Field]
  BY PlusAdds
<1>2. p.u \in Int /\ p.v \in Int /\ q.u \in Int /\ q.v \in Int /\ EDWARDS_D \in Int
  BY Coordinates, CurveAssumption
<1>3. Cross(p.u, p.v, q.u, q.v) = Cross(q.u, q.v, p.u, p.v)
  <2>1. \A a, b, c, d \in Int : EDWARDS_D * ((a * d) * (b * c)) = EDWARDS_D * ((c * b) * (d * a))
    BY <1>2
  <2>2. QED
    BY <1>2, <2>1 DEF Cross
<1>4. p.u * q.v + p.v * q.u = q.u * p.v + q.v * p.u /\ p.v * q.v + p.u * q.u = q.v * p.v + q.u * p.u
  BY <1>2
<1> HIDE DEF s
<1>5. Adds(p.u, p.v, q.u, q.v, s.u, s.v)
  BY <1>1, <1>3, <1>4 DEF Adds
<1>6. Plus(p, q) = [u |-> s.u, v |-> s.v]
  BY <1>1, <1>5, PlusIsTheSum
<1>7. QED
  BY <1>1, <1>6 DEF s

\* ... has a neutral element ...
LEMMA IdentityNeutral ==
  /\ Identity \in Points
  /\ \A p \in Points : Plus(p, Identity) = p /\ Plus(Identity, p) = p
<1>1. EDWARDS_D \in Int /\ 0 \in Field /\ 1 \in Field
  BY FieldSize, CurveAssumption
<1>2. Identity \in Points
  <2>1. Curve(0, 1) = 0
    BY <1>1 DEF Curve
  <2>2. QED
    BY <1>1, <2>1, ZeroVanishes, PointFromCoordinates DEF Identity
<1>3. ASSUME NEW p \in Points
      PROVE  Plus(p, Identity) = p
  <2>1. p.u \in Field /\ p.v \in Field /\ p.u \in Int /\ p.v \in Int /\ p = [u |-> p.u, v |-> p.v]
    BY Coordinates
  <2>2. Identity.u = 0 /\ Identity.v = 1
    BY DEF Identity
  <2>3. Adds(p.u, p.v, 0, 1, p.u, p.v)
    <3>1. \A a, b \in Int : EDWARDS_D * ((a * 1) * (b * 0)) = 0 /\ (1 + 0) * a - (a * 1 + b * 0) = 0
                              /\ (1 - 0) * b - (b * 1 + a * 0) = 0
      BY <1>1
    <3>2. QED
      BY <2>1, <3>1, ZeroVanishes DEF Adds, Same, Cross
  <2>4. Plus(p, Identity) = [u |-> p.u, v |-> p.v]
    BY <1>2, <2>1, <2>2, <2>3, PlusIsTheSum
  <2>5. QED
    BY <2>1, <2>4
<1>4. QED
  BY <1>2, <1>3, PlusCommutes

\* ... and inverses ...
LEMMA NegateInverts ==
  ASSUME NEW p \in Points
  PROVE  Negate(p) \in Points /\ Plus(p, Negate(p)) = Identity
<1> DEFINE x == p.u
           y == p.v
           z == 0 \ominus x
<1>1. x \in Field /\ y \in Field /\ x \in Int /\ y \in Int /\ p = [u |-> x, v |-> y] /\ Vanishes(Curve(x, y))
  BY Coordinates
<1>2. 0 \in Field /\ 1 \in Field /\ EDWARDS_D \in Int
  BY FieldSize, CurveAssumption
<1>3. Negate(p) = [u |-> z, v |-> y]
  BY <1>1 DEF Negate
<1> HIDE DEF x, y
<1>4. z \in Field /\ z \in Int /\ Vanishes(z - (0 - x))
  BY <1>1, <1>2, FieldOperations, FieldSize DEF Same, Field
<1> HIDE DEF z
<1> DEFINE C == Curve(x, y)
           a == z - (0 - x)
           D == EDWARDS_D
<1>5. C \in Int
  BY <1>1, <1>2 DEF Curve
<1>6. Vanishes(Curve(z, y))
  <2> DEFINE r == Curve(z, y)
             k == -(z - x) * (1 + D * (y * y))
  <2>1. r = 1 * C + k * a
    BY <1>1, <1>2, <1>4 DEF Curve
  <2>2. k \in Int /\ a \in Int
    BY <1>1, <1>2, <1>4
  <2> HIDE DEF r, k, C, a
  <2>3. Combines(r, C, 1, a, k, 0, 0, 0, 0)
    BY <1>5, <2>1, <2>2 DEF Combines
  <2>4. QED
    BY <1>1, <1>4, <2>3, ZeroVanishes, CombinationVanishes DEF r, C, a
<1>7. Negate(p) \in Points
  BY <1>1, <1>3, <1>4, <1>6, PointFromCoordinates
<1>8. Adds(x, y, z, y, 0, 1)
  <2>1. Same((1 + Cross(x, y, z, y)) * 0, x * y + y * z)
    <3> DEFINE t == 1 + Cross(x, y, z, y)
               r == t * 0 - (x * y + y * z)
    <3>1. t \in Int
      BY <1>1, <1>2, <1>4 DEF Cross
    <3> HIDE DEF t
    <3>2. r = (-y) * a
      BY <1>1, <1>4, <3>1
    <3>3. a \in Int /\ -y \in Int
      BY <1>1, <1>4
    <3> HIDE DEF r, a
    <3>4. Vanishes(r)
      BY <1>4, <3>2, <3>3, MultipleVanishes DEF a
    <3>5. QED
      BY <3>4 DEF r, t, Same
  <2>2. Same((1 - Cross(x, y, z, y)) * 1, y * y + x * z)
    <3> DEFINE r == (1 - Cross(x, y, z, y)) * 1 - (y * y + x * z)
               k == -(D * ((x * y) * y)) - x
    <3>1. r = (-1) * C + k * a
      BY <1>1, <1>2, <1>4 DEF Curve, Cross
    <3>2. k \in Int /\ a \in Int
      BY <1>1, <1>2, <1>4
    <3> HIDE DEF r, k, C, a
    <3>3. Combines(r, C, -1, a, k, 0, 0, 0, 0)
      BY <1>5, <3>1, <3>2 DEF Combines
    <3>4. Vanishes(r)
      BY <1>1, <1>4, <3>3, ZeroVanishes, CombinationVanishes DEF C, a
    <3>5. QED
      BY <3>4 DEF r, Same
  <2>3. QED
    BY <2>1, <2>2 DEF Adds
<1>9. Plus(p, Negate(p)) = [u |-> 0, v |-> 1]
  <2> DEFINE q == Negate(p)
  <2>1. q \in Points /\ q.u = z /\ q.v = y
    BY <1>3, <1>7
  <2> HIDE DEF q
  <2>2. Plus(p, q) = [u |-> 0, v |-> 1]
    BY <1>2, <1>8, <2>1, PlusIsTheSum DEF x, y
  <2>3. QED
    BY <2>2 DEF q
<1>10. QED
  BY <1>7, <1>9 DEF Identity

\* ... so it cancels: the points are an abelian group.
LEMMA PlusCancels ==
  ASSUME NEW p \in Points, NEW q \in Points, NEW r \in Points, Plus(p, q) = Plus(p, r)
  PROVE  q = r
<1> DEFINE n == Negate(p)
<1>1. n \in Points /\ Plus(p, n) = Identity
  BY NegateInverts
<1> HIDE DEF n
<1>2. Plus(n, p) = Identity
  BY <1>1, PlusCommutes
<1>3. ASSUME NEW x \in Points PROVE Plus(n, Plus(p, x)) = x
  <2>1. Plus(Plus(n, p), x) = Plus(n, Plus(p, x))
    BY <1>1, PlusAssociative
  <2>2. QED
    BY <1>2, <2>1, IdentityNeutral
<1>4. QED
  BY <1>3

\* The points of the curve are an abelian group under jubjub's addition law.
THEOREM PointsAreAGroup ==
  /\ Identity \in Points
  /\ \A p \in Points : Negate(p) \in Points
  /\ \A p, q \in Points : Plus(p, q) \in Points
  /\ \A p, q, r \in Points : Plus(Plus(p, q), r) = Plus(p, Plus(q, r))
  /\ \A p, q \in Points : Plus(p, q) = Plus(q, p)
  /\ \A p \in Points : Plus(p, Identity) = p
  /\ \A p \in Points : Plus(p, Negate(p)) = Identity
BY PlusOnCurve, PlusAssociative, PlusCommutes, IdentityNeutral, NegateInverts

-----------------------------------------------------------------------------
(* Multiples of a point                                                     *)

\* The point added to itself once, twice, ... k times.
Iterates(p, f, k) ==
  /\ f \in [0 .. k -> Points]
  /\ f[0] = Identity
  /\ \A n \in 1 .. k : f[n] = Plus(f[n - 1], p)

\* There is such a function, of any length.
LEMMA IteratesExist ==
  ASSUME NEW p \in Points
  PROVE  \A k \in Nat : \E f : Iterates(p, f, k)
<1> DEFINE P == {k \in Nat : \E f : Iterates(p, f, k)}
<1>1. 0 \in P
  <2> DEFINE f == [n \in 0 .. 0 |-> Identity]
  <2>1. f \in [0 .. 0 -> Points] /\ f[0] = Identity
    BY IdentityNeutral
  <2> HIDE DEF f
  <2>2. Iterates(p, f, 0)
    BY <2>1 DEF Iterates
  <2>3. QED
    BY <2>2
<1>2. ASSUME NEW k \in Nat, k \in P
      PROVE  k + 1 \in P
  <2>1. PICK f : Iterates(p, f, k)
    BY <1>2
  <2> DEFINE g == [n \in 0 .. (k + 1) |-> IF n <= k THEN f[n] ELSE Plus(f[k], p)]
  <2>2. f \in [0 .. k -> Points] /\ f[0] = Identity /\ \A n \in 1 .. k : f[n] = Plus(f[n - 1], p)
    BY <2>1 DEF Iterates
  <2>3. Plus(f[k], p) \in Points
    BY <2>2, PlusOnCurve
  <2>4. g \in [0 .. (k + 1) -> Points]
    BY <2>2, <2>3
  <2>5. \A n \in 0 .. k : g[n] = f[n]
    OBVIOUS
  <2>6. g[k + 1] = Plus(f[k], p)
    OBVIOUS
  <2> HIDE DEF g
  <2>7. ASSUME NEW n \in 1 .. (k + 1)
        PROVE  g[n] = Plus(g[n - 1], p)
    <3>1. CASE n = k + 1
      BY <2>5, <2>6, <3>1
    <3>2. CASE n # k + 1
      <4>1. n \in 1 .. k /\ n - 1 \in 0 .. k /\ n \in 0 .. k
        BY <3>2
      <4>2. QED
        BY <2>2, <2>5, <4>1
    <3>3. QED
      BY <3>1, <3>2
  <2>8. Iterates(p, g, k + 1)
    BY <2>2, <2>4, <2>5, <2>7 DEF Iterates
  <2>9. QED
    BY <2>8
<1> HIDE DEF P
<1>3. \A k \in Nat : k \in P
  BY <1>1, <1>2, SetInduction
<1>4. QED
  BY <1>3 DEF P

\* Its values add up as their indices do.
LEMMA IteratesAdd ==
  ASSUME NEW p \in Points, NEW k \in Nat, NEW f, Iterates(p, f, k)
  PROVE  \A b \in Nat : \A a \in Nat : a + b <= k => f[a + b] = Plus(f[a], f[b])
<1> DEFINE P == {b \in Nat : \A a \in Nat : a + b <= k => f[a + b] = Plus(f[a], f[b])}
<1>1. f \in [0 .. k -> Points] /\ f[0] = Identity /\ \A n \in 1 .. k : f[n] = Plus(f[n - 1], p)
  BY DEF Iterates
<1>2. 0 \in P
  <2> SUFFICES ASSUME NEW a \in Nat, a + 0 <= k PROVE f[a + 0] = Plus(f[a], f[0])
    OBVIOUS
  <2>1. a + 0 = a /\ f[a] \in Points
    BY <1>1
  <2>2. QED
    BY <1>1, <2>1, IdentityNeutral
<1>3. ASSUME NEW b \in Nat, b \in P
      PROVE  b + 1 \in P
  <2> SUFFICES ASSUME NEW a \in Nat, a + (b + 1) <= k PROVE f[a + (b + 1)] = Plus(f[a], f[b + 1])
    OBVIOUS
  <2>1. a + (b + 1) \in 1 .. k /\ (a + (b + 1)) - 1 = a + b /\ b + 1 \in 1 .. k /\ (b + 1) - 1 = b
    OBVIOUS
  <2>2. f[a + (b + 1)] = Plus(f[a + b], p) /\ f[b + 1] = Plus(f[b], p)
    BY <1>1, <2>1
  <2>3. f[a + b] = Plus(f[a], f[b])
    BY <1>3
  <2>4. f[a] \in Points /\ f[b] \in Points
    BY <1>1
  <2>5. QED
    BY <2>2, <2>3, <2>4, PlusAssociative
<1> HIDE DEF P
<1>4. \A b \in Nat : b \in P
  BY <1>2, <1>3, SetInduction
<1>5. QED
  BY <1>4 DEF P

\* The recursion that defines Times.
DoubleAndAdd(m, n, p) ==
  IF n = 0 THEN Identity
  ELSE IF n % 2 = 0 THEN Plus(m[n \div 2], m[n \div 2])
       ELSE Plus(Plus(m[n \div 2], m[n \div 2]), p)

\* Doubling and adding computes it.
LEMMA TimesIterates ==
  ASSUME NEW p \in Points, NEW k \in Nat, NEW f, Iterates(p, f, k)
  PROVE  Times(k, p) = f[k]
<1>1. f \in [0 .. k -> Points] /\ f[0] = Identity /\ \A n \in 1 .. k : f[n] = Plus(f[n - 1], p)
  BY DEF Iterates
<1>2. ASSUME NEW n \in 1 .. k
      PROVE  /\ n \div 2 \in 0 .. k /\ n \div 2 < n
             /\ f[n] = DoubleAndAdd(f, n, p)
  <2> DEFINE h == n \div 2
  <2>1. h \in Nat /\ n % 2 \in {0, 1} /\ n = 2 * h + (n % 2)
    OBVIOUS
  <2> HIDE DEF h
  <2>2. h < n /\ h \in 0 .. k /\ h + h <= k
    BY <2>1
  <2>3. f[h + h] = Plus(f[h], f[h])
    BY <2>1, <2>2, IteratesAdd
  <2>4. CASE n % 2 = 0
    <3>1. n = h + h
      BY <2>1, <2>4
    <3>2. QED
      BY <2>2, <2>3, <2>4, <3>1 DEF DoubleAndAdd, h
  <2>5. CASE n % 2 = 1
    <3>1. n - 1 = h + h
      BY <2>1, <2>5
    <3>2. f[n] = Plus(Plus(f[h], f[h]), p)
      BY <1>1, <2>3, <3>1
    <3>3. QED
      BY <2>2, <2>5, <3>2 DEF DoubleAndAdd, h
  <2>6. QED
    BY <2>1, <2>4, <2>5
<1>3. f = [n \in 0 .. k |-> DoubleAndAdd(f, n, p)]
  <2>1. f = [n \in 0 .. k |-> f[n]]
    BY <1>1
  <2>2. \A n \in 0 .. k : f[n] = DoubleAndAdd(f, n, p)
    <3>1. f[0] = DoubleAndAdd(f, 0, p)
      BY <1>1 DEF DoubleAndAdd
    <3>2. QED
      BY <1>2, <3>1
  <2>3. QED
    BY <2>1, <2>2
<1>4. ASSUME NEW g, g = [n \in 0 .. k |-> DoubleAndAdd(g, n, p)]
      PROVE  g[k] = f[k]
  <2> DEFINE Wrong == {n \in 0 .. k : g[n] # f[n]}
  <2>1. Wrong = {}
    <3> SUFFICES ASSUME Wrong # {} PROVE FALSE
      OBVIOUS
    <3>1. PICK n \in Wrong : \A j \in Wrong : n <= j
      <4>1. Wrong \in SUBSET Nat
        OBVIOUS
      <4>2. QED
        BY <4>1, LeastExists
    <3>2. n \in 0 .. k /\ g[n] # f[n]
      OBVIOUS
    <3>3. g[n] = DoubleAndAdd(g, n, p)
      BY <1>4, <3>2
    <3>4. CASE n = 0
      BY <1>1, <3>2, <3>3, <3>4 DEF DoubleAndAdd
    <3>5. CASE n # 0
      <4>1. n \in 1 .. k
        BY <3>2, <3>5
      <4>2. n \div 2 \in 0 .. k /\ n \div 2 < n /\ f[n] = DoubleAndAdd(f, n, p)
        BY <1>2, <4>1
      <4>3. n \div 2 \notin Wrong
        BY <3>1, <3>2, <4>2
      <4>4. g[n \div 2] = f[n \div 2]
        BY <4>2, <4>3
      <4>5. DoubleAndAdd(g, n, p) = DoubleAndAdd(f, n, p)
        BY <4>4 DEF DoubleAndAdd
      <4>6. QED
        BY <3>2, <3>3, <4>2, <4>5
    <3>6. QED
      BY <3>4, <3>5
  <2>2. QED
    BY <2>1
<1>5. Times(k, p) = (CHOOSE g : g = [n \in 0 .. k |-> DoubleAndAdd(g, n, p)])[k]
  BY DEF Times, DoubleAndAdd
<1> DEFINE G == CHOOSE g : g = [n \in 0 .. k |-> DoubleAndAdd(g, n, p)]
<1>6. G = [n \in 0 .. k |-> DoubleAndAdd(G, n, p)]
  BY <1>3, Zenon
<1>7. G[k] = f[k]
  <2> HIDE DEF G
  <2>1. QED
    BY <1>4, <1>6
<1>8. QED
  BY <1>5, <1>7, Zenon

\* What Times computes.
LEMMA TimesCounts ==
  ASSUME NEW p \in Points
  PROVE  /\ Times(0, p) = Identity /\ Times(1, p) = p
         /\ \A k \in Nat : Times(k, p) \in Points
         /\ \A a, b \in Nat : Times(a + b, p) = Plus(Times(a, p), Times(b, p))
<1>1. ASSUME NEW k \in Nat, NEW f, Iterates(p, f, k), NEW n \in 0 .. k
      PROVE  Times(n, p) = f[n]
  <2> DEFINE g == [j \in 0 .. n |-> f[j]]
  <2>1. Iterates(p, g, n)
    <3>1. f \in [0 .. k -> Points] /\ f[0] = Identity /\ \A j \in 1 .. k : f[j] = Plus(f[j - 1], p)
      BY <1>1 DEF Iterates
    <3>2. g \in [0 .. n -> Points] /\ g[0] = Identity
      BY <3>1
    <3>3. \A j \in 1 .. n : g[j] = Plus(g[j - 1], p)
      BY <3>1
    <3>4. QED
      BY <3>2, <3>3 DEF Iterates
  <2>2. g[n] = f[n] /\ n \in Nat
    OBVIOUS
  <2> HIDE DEF g
  <2>3. QED
    BY <2>1, <2>2, TimesIterates
<1>2. ASSUME NEW a \in Nat, NEW b \in Nat
      PROVE  Times(a + b, p) = Plus(Times(a, p), Times(b, p)) /\ Times(a, p) \in Points
  <2>1. a + b \in Nat
    OBVIOUS
  <2>2. PICK f : Iterates(p, f, a + b)
    BY <2>1, IteratesExist
  <2>3. a \in 0 .. (a + b) /\ b \in 0 .. (a + b) /\ a + b \in 0 .. (a + b) /\ a + b <= a + b
    OBVIOUS
  <2>4. Times(a, p) = f[a] /\ Times(b, p) = f[b] /\ Times(a + b, p) = f[a + b]
    BY <1>1, <2>1, <2>2, <2>3
  <2>5. f[a + b] = Plus(f[a], f[b])
    BY <2>1, <2>2, <2>3, IteratesAdd
  <2>6. f[a] \in Points
    BY <2>2, <2>3 DEF Iterates
  <2>7. QED
    BY <2>4, <2>5, <2>6
<1>3. Times(0, p) = Identity /\ Times(1, p) = p
  <2>1. PICK f : Iterates(p, f, 1)
    BY IteratesExist
  <2>2. f[0] = Identity /\ f[1] = Plus(f[0], p)
    <3>1. 1 \in 1 .. 1 /\ 1 - 1 = 0
      OBVIOUS
    <3>2. QED
      BY <2>1, <3>1 DEF Iterates
  <2>3. Times(0, p) = f[0] /\ Times(1, p) = f[1]
    BY <1>1, <2>1
  <2>4. QED
    BY <2>2, <2>3, IdentityNeutral
<1>4. QED
  BY <1>2, <1>3

\* A multiple of a multiple is the multiple by the product ...
LEMMA TimesTimes ==
  ASSUME NEW p \in Points, NEW b \in Nat
  PROVE  \A a \in Nat : Times(a, Times(b, p)) = Times(a * b, p)
<1> DEFINE P == {a \in Nat : Times(a, Times(b, p)) = Times(a * b, p)}
           q == Times(b, p)
<1>1. q \in Points
  BY TimesCounts
<1>2. 0 \in P
  <2>1. 0 * b = 0
    OBVIOUS
  <2> HIDE DEF q
  <2>2. Times(0, q) = Times(0 * b, p)
    BY <1>1, <2>1, TimesCounts
  <2>3. QED
    BY <2>2 DEF q
<1>3. ASSUME NEW a \in Nat, a \in P
      PROVE  a + 1 \in P
  <2>1. (a + 1) * b = a * b + b /\ a * b \in Nat
    OBVIOUS
  <2>2. Times(a * b + b, p) = Plus(Times(a * b, p), q)
    BY <2>1, TimesCounts
  <2>3. Times(a, q) = Times(a * b, p)
    BY <1>3
  <2> HIDE DEF q
  <2>4. Times(a + 1, q) = Plus(Times(a, q), q)
    BY <1>1, TimesCounts
  <2>5. Times(a + 1, q) = Times((a + 1) * b, p)
    BY <2>1, <2>2, <2>3, <2>4
  <2>6. QED
    BY <2>5 DEF q
<1> HIDE DEF P
<1>4. \A a \in Nat : a \in P
  BY <1>2, <1>3, SetInduction
<1>5. QED
  BY <1>4 DEF P

\* ... the neutral element has no other multiple ...
LEMMA TimesIdentity ==
  \A k \in Nat : Times(k, Identity) = Identity
<1>1. Identity \in Points /\ Times(0, Identity) = Identity
  BY IdentityNeutral, TimesCounts
<1>2. ASSUME NEW k \in Nat PROVE Times(k, Identity) = Identity
  <2>1. Times(k, Times(0, Identity)) = Times(k * 0, Identity) /\ k * 0 = 0
    BY <1>1, TimesTimes
  <2>2. QED
    BY <1>1, <2>1
<1>3. QED
  BY <1>2

\* ... and a multiple of a sum is the sum of the multiples.
LEMMA TimesOfSum ==
  ASSUME NEW p \in Points, NEW q \in Points
  PROVE  \A k \in Nat : Times(k, Plus(p, q)) = Plus(Times(k, p), Times(k, q))
<1> DEFINE s == Plus(p, q)
           P == {k \in Nat : Times(k, s) = Plus(Times(k, p), Times(k, q))}
<1>1. s \in Points
  BY PlusOnCurve
<1>2. 0 \in P
  <2> HIDE DEF s
  <2>1. Times(0, s) = Identity /\ Times(0, p) = Identity /\ Times(0, q) = Identity
    BY <1>1, TimesCounts
  <2>2. QED
    BY <2>1, IdentityNeutral
<1>3. ASSUME NEW k \in Nat, k \in P
      PROVE  k + 1 \in P
  <2> DEFINE a == Times(k, p)
             b == Times(k, q)
  <2>1. a \in Points /\ b \in Points
    BY TimesCounts
  <2>2. Times(k + 1, p) = Plus(a, p) /\ Times(k + 1, q) = Plus(b, q)
    BY TimesCounts
  <2>3. Times(k, s) = Plus(a, b)
    BY <1>3
  <2>4. Times(k + 1, s) = Plus(Times(k, s), s)
    <3> HIDE DEF s
    <3>1. QED
      BY <1>1, TimesCounts
  <2> HIDE DEF a, b
  <2>5. Plus(Plus(a, b), Plus(p, q)) = Plus(Plus(a, p), Plus(b, q))
    <3>1. Plus(Plus(a, b), Plus(p, q)) = Plus(a, Plus(b, Plus(p, q)))
      BY <1>1, <2>1, PlusAssociative
    <3>2. Plus(b, Plus(p, q)) = Plus(Plus(b, p), q)
      BY <2>1, PlusAssociative
    <3>3. Plus(b, p) = Plus(p, b)
      BY <2>1, PlusCommutes
    <3>4. Plus(Plus(p, b), q) = Plus(p, Plus(b, q))
      BY <2>1, PlusAssociative
    <3>5. Plus(a, Plus(p, Plus(b, q))) = Plus(Plus(a, p), Plus(b, q))
      <4>1. Plus(b, q) \in Points
        BY <2>1, PlusOnCurve
      <4>2. QED
        BY <2>1, <4>1, PlusAssociative
    <3>6. QED
      BY <3>1, <3>2, <3>3, <3>4, <3>5
  <2>6. QED
    BY <2>2, <2>3, <2>4, <2>5
<1> HIDE DEF P
<1>4. \A k \in Nat : k \in P
  BY <1>2, <1>3, SetInduction
<1>5. QED
  BY <1>4 DEF P

-----------------------------------------------------------------------------
(* The gadgets that add, double and select                                  *)

\* A constraint whose coefficient is not zero determines its variable.
LEMMA SolveDetermined ==
  ASSUME NEW d, NEW n, NEW e, NEW m, Stands(d, e), Stands(n, m), ~Vanishes(e)
  PROVE  \E x \in Field : Solve(d, n) = {x} /\ Same(e * x, m) /\ d # 0
<1>1. n \oslash d \in Field /\ Same(e * (n \oslash d), m) /\ d # 0
  BY QuotientOfStands
<1>2. Solve(d, n) = {n \oslash d}
  BY <1>1 DEF Solve
<1>3. QED
  BY <1>1, <1>2

\* The parts of a gadget.
LEMMA GadgetParts ==
  \A o, d : Gadget(o, d).outputs = o /\ Gadget(o, d).denominators = d
BY DEF Gadget

\* Two determined coordinates are one point.
LEMMA OneRecord ==
  ASSUME NEW a, NEW b
  PROVE  [u : {a}, v : {b}] = {[u |-> a, v |-> b]}
<1>1. ASSUME NEW r \in [u : {a}, v : {b}]
      PROVE  r \in {[u |-> a, v |-> b]}
  <2>1. r = [u |-> r.u, v |-> r.v] /\ r.u = a /\ r.v = b
    OBVIOUS
  <2>2. QED
    BY <2>1, Zenon
<1>2. [u |-> a, v |-> b] \in [u : {a}, v : {b}]
  OBVIOUS
<1>3. QED
  BY <1>1, <1>2

\* What doubling constrains is the sum of the point with itself.
LEMMA DoubleIsExact ==
  ASSUME NEW p \in Points
  PROVE  double(p).outputs = {Plus(p, p)} /\ 0 \notin double(p).denominators
<1> DEFINE x == p.u
           y == p.v
           A == x \odot y
           C == EDWARDS_D \odot (A \odot A)
           T == (x \oplus y) \odot (x \oplus y)
           t == Cross(x, y, x, y)
<1>1. /\ x \in Field /\ y \in Field /\ x \in Int /\ y \in Int
      /\ EDWARDS_D \in Field /\ EDWARDS_D \in Int /\ 1 \in Field /\ 2 \in Field
  <2>1. 2 \in Field /\ EDWARDS_D \in Field /\ EDWARDS_D \in Int
    BY FieldSize, CurveAssumption DEF Field
  <2>2. QED
    BY <2>1, Coordinates, FieldSize
<1>2. ~Vanishes(1 + t) /\ ~Vanishes(1 - t)
  BY PlusAdds
<1> HIDE DEF x, y
<1>3. Stands(A, x * y) /\ Stands(x \oplus y, x + y)
  BY <1>1, StandsForItself, StandsThrough
<1>4. Stands(T, (x + y) * (x + y)) /\ Stands(2 \odot A, 2 * (x * y)) /\ Stands(A \odot A, (x * y) * (x * y))
  <2>1. Stands(T, (x + y) * (x + y))
    BY <1>3, StandsThrough
  <2> HIDE DEF A, T
  <2>2. Stands(A \odot A, (x * y) * (x * y))
    BY <1>3, StandsThrough
  <2>3. Stands(2, 2)
    BY <1>1, StandsForItself
  <2>4. Stands(2 \odot A, 2 * (x * y))
    BY <1>3, <2>3, StandsThrough
  <2>5. QED
    BY <2>1, <2>2, <2>4 DEF A
<1>5. Stands(C, t)
  <2>1. t = EDWARDS_D * ((x * y) * (x * y))
    BY <1>1 DEF Cross
  <2>2. Stands(EDWARDS_D, EDWARDS_D)
    BY <1>1, StandsForItself
  <2> HIDE DEF A, t
  <2>3. Stands(C, EDWARDS_D * ((x * y) * (x * y)))
    BY <1>4, <2>2, StandsThrough DEF A
  <2>4. QED
    BY <2>1, <2>3
<1> HIDE DEF C, A, T, t
<1>6. Stands(1 \oplus C, 1 + t) /\ Stands(1 \ominus C, 1 - t)
  <2>1. Stands(1, 1)
    BY <1>1, StandsForItself
  <2>2. QED
    BY <1>5, <2>1, StandsThrough
<1>7. Stands(T \ominus (2 \odot A), (x + y) * (x + y) - 2 * (x * y))
  BY <1>4, StandsThrough DEF A
<1>8. PICK a \in Field : Solve(1 \oplus C, 2 \odot A) = {a} /\ Same((1 + t) * a, 2 * (x * y)) /\ 1 \oplus C # 0
  BY <1>2, <1>4, <1>6, SolveDetermined DEF A, t
<1>9. PICK b \in Field : /\ Solve(1 \ominus C, T \ominus (2 \odot A)) = {b}
                         /\ Same((1 - t) * b, (x + y) * (x + y) - 2 * (x * y)) /\ 1 \ominus C # 0
  BY <1>2, <1>6, <1>7, SolveDetermined DEF t
<1>10. Plus(p, p) = [u |-> a, v |-> b]
  <2>1. 2 * (x * y) = x * y + y * x /\ (x + y) * (x + y) - 2 * (x * y) = y * y + x * x
    BY <1>1
  <2>2. Adds(x, y, x, y, a, b)
    BY <1>8, <1>9, <2>1 DEF Adds, t
  <2>3. QED
    BY <2>2, PlusIsTheSum DEF x, y
<1>11. double(p) = Gadget([u : Solve(1 \oplus C, 2 \odot A), v : Solve(1 \ominus C, T \ominus (2 \odot A))],
                          {1 \oplus C, 1 \ominus C})
  BY DEF double, x, y, A, C, T
<1>12. double(p).outputs = [u : {a}, v : {b}] /\ double(p).denominators = {1 \oplus C, 1 \ominus C}
  <2> DEFINE O == [u : {a}, v : {b}]
             F == {1 \oplus C, 1 \ominus C}
  <2>1. double(p) = Gadget(O, F)
    BY <1>8, <1>9, <1>11
  <2> HIDE DEF O, F
  <2>2. double(p).outputs = O /\ double(p).denominators = F
    BY <2>1, GadgetParts
  <2>3. QED
    BY <2>2 DEF O, F
<1>13. [u : {a}, v : {b}] = {[u |-> a, v |-> b]}
  BY OneRecord
<1>14. QED
  BY <1>8, <1>9, <1>10, <1>12, <1>13

\* So does the addition gadget: any assignment of it is the sum.
LEMMA AddIsExact ==
  ASSUME NEW p \in Points, NEW q \in Points
  PROVE  add(p, q).outputs = {Plus(p, q)} /\ 0 \notin add(p, q).denominators
<1> DEFINE x == p.u
           y == p.v
           z == q.u
           w == q.v
           A == w \odot x
           B == z \odot y
           C == EDWARDS_D \odot (A \odot B)
           U == (x \oplus y) \odot (z \oplus w)
           t == Cross(x, y, z, w)
<1>1. /\ x \in Field /\ y \in Field /\ x \in Int /\ y \in Int
      /\ z \in Field /\ w \in Field /\ z \in Int /\ w \in Int
      /\ EDWARDS_D \in Field /\ EDWARDS_D \in Int /\ 1 \in Field
  <2>1. EDWARDS_D \in Field /\ EDWARDS_D \in Int
    BY FieldSize, CurveAssumption DEF Field
  <2>2. QED
    BY <2>1, Coordinates, FieldSize
<1>2. ~Vanishes(1 + t) /\ ~Vanishes(1 - t)
  BY PlusAdds
<1> HIDE DEF x, y, z, w
<1>3. Stands(A, w * x) /\ Stands(B, z * y) /\ Stands(x \oplus y, x + y) /\ Stands(z \oplus w, z + w)
  BY <1>1, StandsForItself, StandsThrough
<1> HIDE DEF A, B
<1>4. Stands(U, (x + y) * (z + w)) /\ Stands(A \odot B, (w * x) * (z * y)) /\ Stands(A \oplus B, w * x + z * y)
  BY <1>3, StandsThrough
<1> HIDE DEF U
<1>5. Stands(C, t)
  <2>1. t = EDWARDS_D * ((w * x) * (z * y))
    BY <1>1 DEF Cross
  <2>2. Stands(EDWARDS_D, EDWARDS_D)
    BY <1>1, StandsForItself
  <2> HIDE DEF t
  <2>3. Stands(C, EDWARDS_D * ((w * x) * (z * y)))
    BY <1>4, <2>2, StandsThrough
  <2>4. QED
    BY <2>1, <2>3
<1> HIDE DEF C, t
<1>6. Stands(1 \oplus C, 1 + t) /\ Stands(1 \ominus C, 1 - t)
  <2>1. Stands(1, 1)
    BY <1>1, StandsForItself
  <2>2. QED
    BY <1>5, <2>1, StandsThrough
<1>7. Stands((U \ominus A) \ominus B, (x + y) * (z + w) - w * x - z * y)
  <2>1. Stands(U \ominus A, (x + y) * (z + w) - w * x)
    BY <1>3, <1>4, StandsThrough
  <2>2. QED
    BY <1>3, <2>1, StandsThrough
<1>8. PICK a \in Field : Solve(1 \oplus C, A \oplus B) = {a} /\ Same((1 + t) * a, w * x + z * y) /\ 1 \oplus C # 0
  BY <1>2, <1>4, <1>6, SolveDetermined DEF t
<1>9. PICK b \in Field : /\ Solve(1 \ominus C, (U \ominus A) \ominus B) = {b}
                         /\ Same((1 - t) * b, (x + y) * (z + w) - w * x - z * y) /\ 1 \ominus C # 0
  BY <1>2, <1>6, <1>7, SolveDetermined DEF t
<1>10. Plus(p, q) = [u |-> a, v |-> b]
  <2>1. w * x + z * y = x * w + y * z /\ (x + y) * (z + w) - w * x - z * y = y * w + x * z
    BY <1>1
  <2>2. Adds(x, y, z, w, a, b)
    BY <1>8, <1>9, <2>1 DEF Adds, t
  <2>3. QED
    BY <2>2, PlusIsTheSum DEF x, y, z, w
<1>11. add(p, q) = Gadget([u : Solve(1 \oplus C, A \oplus B), v : Solve(1 \ominus C, (U \ominus A) \ominus B)],
                          {1 \oplus C, 1 \ominus C})
  BY DEF add, x, y, z, w, A, B, C, U
<1>12. add(p, q).outputs = [u : {a}, v : {b}] /\ add(p, q).denominators = {1 \oplus C, 1 \ominus C}
  <2> DEFINE O == [u : {a}, v : {b}]
             F == {1 \oplus C, 1 \ominus C}
  <2>1. add(p, q) = Gadget(O, F)
    BY <1>8, <1>9, <1>11
  <2> HIDE DEF O, F
  <2>2. add(p, q).outputs = O /\ add(p, q).denominators = F
    BY <2>1, GadgetParts
  <2>3. QED
    BY <2>2 DEF O, F
<1>13. [u : {a}, v : {b}] = {[u |-> a, v |-> b]}
  BY OneRecord
<1>14. QED
  BY <1>8, <1>9, <1>10, <1>12, <1>13

\* Selecting keeps the point or gives the neutral element.
LEMMA SelectIsExact ==
  ASSUME NEW p \in Points
  PROVE  conditionally_select(p, 1) = p /\ conditionally_select(p, 0) = Identity
<1>1. p.u \in Field /\ p.v \in Field /\ p = [u |-> p.u, v |-> p.v]
  BY Coordinates
<1>2. \A x \in Field : 1 \odot x = x /\ x \oplus 0 = x /\ 0 \odot x = 0 /\ 0 \oplus 1 = 1
  <2> SUFFICES ASSUME NEW x \in Field
               PROVE  1 \odot x = x /\ x \oplus 0 = x /\ 0 \odot x = 0 /\ 0 \oplus 1 = 1
    OBVIOUS
  <2>1. x \in Int /\ x >= 0 /\ x < Q /\ Q \in Nat /\ Q > 2
    BY FieldSize DEF Field
  <2>2. x % Q = x /\ 0 % Q = 0 /\ 1 % Q = 1
    BY <2>1
  <2>3. 1 * x = x /\ x + 0 = x /\ 0 * x = 0 /\ 0 + 1 = 1
    BY <2>1
  <2>4. QED
    BY <2>2, <2>3 DEF \oplus, \odot
<1>3. 1 - 1 = 0 /\ 1 - 0 = 1 /\ 0 \in Field
  BY FieldSize
<1>4. QED
  BY <1>1, <1>2, <1>3 DEF conditionally_select, Identity

-----------------------------------------------------------------------------
(* Powers, sums of points and the values of bits                            *)

\* The recursion that defines Pow.
Raised(b, f, k) == IF k = 0 THEN 1 ELSE b * f[k - 1]

\* A power satisfies the equation that defines it.
LEMMA PowUnfolds ==
  ASSUME NEW b
  PROVE  Pow(b, 0) = 1 /\ \A n \in Nat : Pow(b, n + 1) = b * Pow(b, n)
<1> DEFINE Is(f, n) == f = [k \in 0 .. n |-> Raised(b, f, k)]
           P == {n \in Nat : \E f : Is(f, n)}
           U == {k \in Nat : \A f, g : \A m, n \in Nat : (Is(f, m) /\ Is(g, n) /\ k <= m /\ k <= n) => f[k] = g[k]}
<1>1. \A f, g, k : f[k - 1] = g[k - 1] => Raised(b, f, k) = Raised(b, g, k)
  BY DEF Raised
<1>2. 0 \in P
  <2> DEFINE f == [k \in 0 .. 0 |-> 1]
  <2>1. \A k \in 0 .. 0 : Raised(b, f, k) = 1
    BY DEF Raised
  <2>2. Is(f, 0)
    BY <2>1
  <2>3. QED
    BY <2>2
<1>3. ASSUME NEW n \in Nat, n \in P
      PROVE  n + 1 \in P
  <2>1. PICK f : Is(f, n)
    BY <1>3
  <2> DEFINE g == [k \in 0 .. (n + 1) |-> IF k <= n THEN f[k] ELSE Raised(b, f, k)]
  <2>2. \A k \in 0 .. n : g[k] = f[k]
    OBVIOUS
  <2>3. \A k \in 0 .. n : f[k] = Raised(b, f, k)
    BY <2>1
  <2>4. g[n + 1] = Raised(b, f, n + 1) /\ g = [k \in 0 .. (n + 1) |-> g[k]]
    OBVIOUS
  <2> HIDE DEF g
  <2>5. \A k \in 0 .. (n + 1) : g[k] = Raised(b, g, k)
    <3> TAKE k \in 0 .. (n + 1)
    <3>1. Raised(b, g, k) = Raised(b, f, k)
      <4>1. CASE k = 0
        BY <4>1 DEF Raised
      <4>2. CASE k # 0
        <5>1. k - 1 \in 0 .. n
          BY <4>2
        <5>2. QED
          BY <1>1, <2>2, <5>1
      <4>3. QED
        BY <4>1, <4>2
    <3>2. k \in 0 .. n \/ k = n + 1
      OBVIOUS
    <3>3. QED
      BY <2>2, <2>3, <2>4, <3>1, <3>2
  <2>6. Is(g, n + 1)
    BY <2>4, <2>5
  <2>7. QED
    BY <2>6
<1>4. \A n \in Nat : \E f : Is(f, n)
  <2> HIDE DEF P
  <2>1. \A n \in Nat : n \in P
    BY <1>2, <1>3, SetInduction
  <2>2. QED
    BY <2>1 DEF P
<1>5. \A f : \A n \in Nat : \A k \in 0 .. n : Is(f, n) => f[k] = Raised(b, f, k)
  OBVIOUS
<1> HIDE DEF Is
<1>6. 0 \in U
  <2>1. \A f : \A n \in Nat : Is(f, n) => f[0] = 1
    BY <1>5 DEF Raised
  <2>2. QED
    BY <2>1
<1>7. ASSUME NEW k \in Nat, k \in U
      PROVE  k + 1 \in U
  <2> SUFFICES ASSUME NEW f, NEW g, NEW m \in Nat, NEW n \in Nat, Is(f, m), Is(g, n), k + 1 <= m, k + 1 <= n
               PROVE  f[k + 1] = g[k + 1]
    OBVIOUS
  <2>1. k <= m /\ k <= n /\ k + 1 \in 0 .. m /\ k + 1 \in 0 .. n /\ (k + 1) - 1 = k
    OBVIOUS
  <2>2. f[k] = g[k]
    BY <1>7, <2>1
  <2>3. f[k + 1] = Raised(b, f, k + 1) /\ g[k + 1] = Raised(b, g, k + 1)
    BY <1>5, <2>1
  <2>4. QED
    BY <1>1, <2>1, <2>2, <2>3
<1>8. \A f, g : \A m, n \in Nat, k \in Nat : (Is(f, m) /\ Is(g, n) /\ k <= m /\ k <= n) => f[k] = g[k]
  <2> HIDE DEF U
  <2>1. \A k \in Nat : k \in U
    BY <1>6, <1>7, SetInduction
  <2>2. QED
    BY <2>1 DEF U
<1>9. ASSUME NEW n \in Nat
      PROVE  \E f : Is(f, n) /\ Pow(b, n) = f[n]
  <2> DEFINE F == CHOOSE f : f = [k \in 0 .. n |-> Raised(b, f, k)]
  <2>1. \E f : f = [k \in 0 .. n |-> Raised(b, f, k)]
    BY <1>4 DEF Is
  <2>2. F = [k \in 0 .. n |-> Raised(b, F, k)]
    BY <2>1, Zenon
  <2>3. Pow(b, n) = F[n]
    BY DEF Pow, Raised
  <2>4. Is(F, n)
    BY <2>2 DEF Is
  <2> HIDE DEF F
  <2>5. QED
    BY <2>3, <2>4
<1>10. Pow(b, 0) = 1
  <2>1. PICK f : Is(f, 0) /\ Pow(b, 0) = f[0]
    BY <1>9
  <2>2. f[0] = Raised(b, f, 0)
    BY <1>5, <2>1
  <2>3. QED
    BY <2>1, <2>2 DEF Raised
<1>11. ASSUME NEW n \in Nat PROVE Pow(b, n + 1) = b * Pow(b, n)
  <2>1. PICK f : Is(f, n) /\ Pow(b, n) = f[n]
    BY <1>9
  <2>2. PICK g : Is(g, n + 1) /\ Pow(b, n + 1) = g[n + 1]
    <3>1. n + 1 \in Nat
      OBVIOUS
    <3>2. QED
      BY <1>9, <3>1
  <2>3. g[n + 1] = Raised(b, g, n + 1)
    <3>1. n + 1 \in Nat /\ n + 1 \in 0 .. (n + 1)
      OBVIOUS
    <3>2. QED
      BY <1>5, <2>2, <3>1
  <2>4. g[n] = f[n]
    <3>1. n + 1 \in Nat /\ n <= n + 1 /\ n <= n
      OBVIOUS
    <3>2. QED
      BY <1>8, <2>1, <2>2, <3>1
  <2>5. (n + 1) - 1 = n /\ n + 1 # 0
    OBVIOUS
  <2>6. QED
    BY <2>1, <2>2, <2>3, <2>4, <2>5 DEF Raised
<1>12. QED
  BY <1>10, <1>11

\* The recursion that defines PointSum.
Added(t, f, k) == IF k = 0 THEN Identity ELSE Plus(f[k - 1], t[k])

\* A sum of points satisfies the equation that defines it.
LEMMA PointSumUnfolds ==
  ASSUME NEW t
  PROVE  PointSum(0, t) = Identity /\ \A n \in Nat : PointSum(n + 1, t) = Plus(PointSum(n, t), t[n + 1])
<1> DEFINE Is(f, n) == f = [k \in 0 .. n |-> Added(t, f, k)]
           P == {n \in Nat : \E f : Is(f, n)}
           U == {k \in Nat : \A f, g : \A m, n \in Nat : (Is(f, m) /\ Is(g, n) /\ k <= m /\ k <= n) => f[k] = g[k]}
<1>1. \A f, g, k : f[k - 1] = g[k - 1] => Added(t, f, k) = Added(t, g, k)
  BY DEF Added
<1>2. 0 \in P
  <2> DEFINE f == [k \in 0 .. 0 |-> Identity]
  <2>1. \A k \in 0 .. 0 : Added(t, f, k) = Identity
    BY DEF Added
  <2>2. Is(f, 0)
    BY <2>1
  <2>3. QED
    BY <2>2
<1>3. ASSUME NEW n \in Nat, n \in P
      PROVE  n + 1 \in P
  <2>1. PICK f : Is(f, n)
    BY <1>3
  <2> DEFINE g == [k \in 0 .. (n + 1) |-> IF k <= n THEN f[k] ELSE Added(t, f, k)]
  <2>2. \A k \in 0 .. n : g[k] = f[k]
    OBVIOUS
  <2>3. \A k \in 0 .. n : f[k] = Added(t, f, k)
    BY <2>1
  <2>4. g[n + 1] = Added(t, f, n + 1) /\ g = [k \in 0 .. (n + 1) |-> g[k]]
    OBVIOUS
  <2> HIDE DEF g
  <2>5. \A k \in 0 .. (n + 1) : g[k] = Added(t, g, k)
    <3> TAKE k \in 0 .. (n + 1)
    <3>1. Added(t, g, k) = Added(t, f, k)
      <4>1. CASE k = 0
        BY <4>1 DEF Added
      <4>2. CASE k # 0
        <5>1. k - 1 \in 0 .. n
          BY <4>2
        <5>2. QED
          BY <1>1, <2>2, <5>1
      <4>3. QED
        BY <4>1, <4>2
    <3>2. k \in 0 .. n \/ k = n + 1
      OBVIOUS
    <3>3. QED
      BY <2>2, <2>3, <2>4, <3>1, <3>2
  <2>6. Is(g, n + 1)
    BY <2>4, <2>5
  <2>7. QED
    BY <2>6
<1>4. \A n \in Nat : \E f : Is(f, n)
  <2> HIDE DEF P
  <2>1. \A n \in Nat : n \in P
    BY <1>2, <1>3, SetInduction
  <2>2. QED
    BY <2>1 DEF P
<1>5. \A f : \A n \in Nat : \A k \in 0 .. n : Is(f, n) => f[k] = Added(t, f, k)
  OBVIOUS
<1> HIDE DEF Is
<1>6. 0 \in U
  <2>1. \A f : \A n \in Nat : Is(f, n) => f[0] = Identity
    BY <1>5 DEF Added
  <2>2. QED
    BY <2>1
<1>7. ASSUME NEW k \in Nat, k \in U
      PROVE  k + 1 \in U
  <2> SUFFICES ASSUME NEW f, NEW g, NEW m \in Nat, NEW n \in Nat, Is(f, m), Is(g, n), k + 1 <= m, k + 1 <= n
               PROVE  f[k + 1] = g[k + 1]
    OBVIOUS
  <2>1. k <= m /\ k <= n /\ k + 1 \in 0 .. m /\ k + 1 \in 0 .. n /\ (k + 1) - 1 = k
    OBVIOUS
  <2>2. f[k] = g[k]
    BY <1>7, <2>1
  <2>3. f[k + 1] = Added(t, f, k + 1) /\ g[k + 1] = Added(t, g, k + 1)
    BY <1>5, <2>1
  <2>4. QED
    BY <1>1, <2>1, <2>2, <2>3
<1>8. \A f, g : \A m, n \in Nat, k \in Nat : (Is(f, m) /\ Is(g, n) /\ k <= m /\ k <= n) => f[k] = g[k]
  <2> HIDE DEF U
  <2>1. \A k \in Nat : k \in U
    BY <1>6, <1>7, SetInduction
  <2>2. QED
    BY <2>1 DEF U
<1>9. ASSUME NEW n \in Nat
      PROVE  \E f : Is(f, n) /\ PointSum(n, t) = f[n]
  <2> DEFINE F == CHOOSE f : f = [k \in 0 .. n |-> Added(t, f, k)]
  <2>1. \E f : f = [k \in 0 .. n |-> Added(t, f, k)]
    BY <1>4 DEF Is
  <2>2. F = [k \in 0 .. n |-> Added(t, F, k)]
    BY <2>1, Zenon
  <2>3. PointSum(n, t) = F[n]
    BY DEF PointSum, Added
  <2>4. Is(F, n)
    BY <2>2 DEF Is
  <2> HIDE DEF F
  <2>5. QED
    BY <2>3, <2>4
<1>10. PointSum(0, t) = Identity
  <2>1. PICK f : Is(f, 0) /\ PointSum(0, t) = f[0]
    BY <1>9
  <2>2. f[0] = Added(t, f, 0)
    BY <1>5, <2>1
  <2>3. QED
    BY <2>1, <2>2 DEF Added
<1>11. ASSUME NEW n \in Nat PROVE PointSum(n + 1, t) = Plus(PointSum(n, t), t[n + 1])
  <2>1. PICK f : Is(f, n) /\ PointSum(n, t) = f[n]
    BY <1>9
  <2>2. PICK g : Is(g, n + 1) /\ PointSum(n + 1, t) = g[n + 1]
    <3>1. n + 1 \in Nat
      OBVIOUS
    <3>2. QED
      BY <1>9, <3>1
  <2>3. g[n + 1] = Added(t, g, n + 1)
    <3>1. n + 1 \in Nat /\ n + 1 \in 0 .. (n + 1)
      OBVIOUS
    <3>2. QED
      BY <1>5, <2>2, <3>1
  <2>4. g[n] = f[n]
    <3>1. n + 1 \in Nat /\ n <= n + 1 /\ n <= n
      OBVIOUS
    <3>2. QED
      BY <1>8, <2>1, <2>2, <3>1
  <2>5. (n + 1) - 1 = n /\ n + 1 # 0
    OBVIOUS
  <2>6. QED
    BY <2>1, <2>2, <2>3, <2>4, <2>5 DEF Added
<1>12. QED
  BY <1>10, <1>11

\* Powers are positive ...
LEMMA PowInteger ==
  ASSUME NEW b \in Nat \ {0}
  PROVE  \A n \in Nat : Pow(b, n) \in Nat \ {0}
<1> DEFINE P == {n \in Nat : Pow(b, n) \in Nat \ {0}}
<1>1. 0 \in P
  BY PowUnfolds
<1>2. ASSUME NEW n \in Nat, n \in P PROVE n + 1 \in P
  <2>1. Pow(b, n + 1) = b * Pow(b, n)
    BY PowUnfolds
  <2>2. PICK m \in Nat \ {0} : m = Pow(b, n)
    BY <1>2
  <2>3. b * m \in Nat \ {0}
    OBVIOUS
  <2>4. QED
    BY <2>1, <2>2, <2>3
<1> HIDE DEF P
<1>3. \A n \in Nat : n \in P
  BY <1>1, <1>2, SetInduction
<1>4. QED
  BY <1>3 DEF P

\* ... and multiply as their exponents add.
LEMMA PowAdds ==
  ASSUME NEW b \in Nat \ {0}, NEW m \in Nat
  PROVE  \A n \in Nat : Pow(b, m + n) = Pow(b, m) * Pow(b, n)
<1> DEFINE P == {n \in Nat : Pow(b, m + n) = Pow(b, m) * Pow(b, n)}
<1>1. Pow(b, m) \in Nat /\ Pow(b, 0) = 1
  BY PowInteger, PowUnfolds
<1>2. 0 \in P
  <2>1. m + 0 = m
    OBVIOUS
  <2>2. QED
    BY <1>1, <2>1
<1>3. ASSUME NEW n \in Nat, n \in P PROVE n + 1 \in P
  <2>1. Pow(b, n + 1) = b * Pow(b, n) /\ Pow(b, n) \in Nat
    BY PowUnfolds, PowInteger
  <2>2. m + n \in Nat /\ m + (n + 1) = (m + n) + 1
    OBVIOUS
  <2>3. Pow(b, m + (n + 1)) = b * Pow(b, m + n)
    BY <2>2, PowUnfolds
  <2>4. Pow(b, m + n) = Pow(b, m) * Pow(b, n)
    BY <1>3
  <2> DEFINE x == Pow(b, m)
             y == Pow(b, n)
  <2>5. x \in Nat /\ y \in Nat /\ Pow(b, m + (n + 1)) = b * (x * y) /\ Pow(b, n + 1) = b * y
    BY <1>1, <2>1, <2>3, <2>4
  <2> HIDE DEF x, y
  <2>6. b * (x * y) = x * (b * y)
    BY <2>5
  <2>7. Pow(b, m + (n + 1)) = x * Pow(b, n + 1)
    BY <2>5, <2>6
  <2>8. QED
    BY <2>7 DEF x
<1> HIDE DEF P
<1>4. \A n \in Nat : n \in P
  BY <1>2, <1>3, SetInduction
<1>5. QED
  BY <1>4 DEF P

\* The recursion that defines Value, for the first n bits.
Counted(s, n, f, k) == IF k = n THEN 0 ELSE s[k + 1] + 2 * f[k + 1]

\* The value of a prefix grows by the next bit at its weight.
LEMMA ValueGrows ==
  ASSUME NEW s \in Seq(Int)
  PROVE  /\ Value(SubSeq(s, 1, 0)) = 0
         /\ \A n \in 0 .. Len(s) : Value(SubSeq(s, 1, n)) \in Int
         /\ \A n \in 0 .. (Len(s) - 1) :
               Value(SubSeq(s, 1, n + 1)) = Value(SubSeq(s, 1, n)) + s[n + 1] * Pow(2, n)
<1> DEFINE N == Len(s)
           Is(f, n) == f \in [0 .. n -> Int] /\ \A k \in 0 .. n : f[k] = Counted(s, n, f, k)
           Next(f, n) == [k \in 0 .. (n + 1) |-> IF k <= n THEN f[k] + s[n + 1] * Pow(2, n - k) ELSE 0]
           P == {n \in Nat : n <= N => \E f : Is(f, n)}
<1>1. N \in Nat /\ (\A n \in 1 .. N : s[n] \in Int) /\ \A n \in Nat : Pow(2, n) \in Nat
  BY PowInteger
<1>2. ASSUME NEW n \in 0 .. (N - 1), NEW f, Is(f, n)
      PROVE  Is(Next(f, n), n + 1) /\ Next(f, n)[0] = f[0] + s[n + 1] * Pow(2, n)
  <2> DEFINE w == Next(f, n)
             x == s[n + 1]
  <2>1. x \in Int /\ n \in Nat /\ n + 1 \in Nat
    BY <1>1
  <2> HIDE DEF x
  <2>2. \A k \in 0 .. n : w[k] = f[k] + x * Pow(2, n - k) /\ w[k] \in Int
    <3> TAKE k \in 0 .. n
    <3>1. n - k \in Nat /\ f[k] \in Int
      BY <1>2
    <3>2. Pow(2, n - k) \in Int
      BY <1>1, <3>1
    <3>3. w[k] = f[k] + x * Pow(2, n - k)
      BY DEF x
    <3>4. QED
      BY <2>1, <3>1, <3>2, <3>3
  <2>3. w[n + 1] = 0
    BY <2>1
  <2>4. w \in [0 .. (n + 1) -> Int]
    <3>1. \A k \in 0 .. (n + 1) : w[k] \in Int
      <4> TAKE k \in 0 .. (n + 1)
      <4>1. k \in 0 .. n \/ k = n + 1
        BY <2>1
      <4> HIDE DEF w
      <4>2. QED
        BY <2>2, <2>3, <4>1
    <3>2. w = [k \in 0 .. (n + 1) |-> w[k]]
      BY DEF x
    <3> HIDE DEF w
    <3>3. QED
      BY <3>1, <3>2
  <2> HIDE DEF w
  <2>5. \A k \in 0 .. (n + 1) : w[k] = Counted(s, n + 1, w, k)
    <3> TAKE k \in 0 .. (n + 1)
    <3>1. CASE k = n + 1
      BY <2>3, <3>1 DEF Counted
    <3>2. CASE k = n
      <4>1. f[n] = 0
        BY <1>2, <2>1 DEF Counted
      <4>2. w[n] = x
        <5>1. n - n = 0 /\ Pow(2, 0) = 1
          BY <2>1, PowUnfolds
        <5>2. w[n] = 0 + x * 1
          BY <2>1, <2>2, <4>1, <5>1
        <5>3. QED
          BY <2>1, <5>2
      <4>3. Counted(s, n + 1, w, n) = x + 2 * 0
        BY <2>1, <2>3 DEF Counted, x
      <4>4. QED
        BY <2>1, <3>2, <4>2, <4>3
    <3>3. CASE k < n
      <4>1. k \in 0 .. n /\ k + 1 \in 0 .. n /\ k + 1 \in 1 .. N /\ n - k = (n - (k + 1)) + 1 /\ n - (k + 1) \in Nat
        BY <1>1, <2>1, <3>3
      <4>2. f[k] = s[k + 1] + 2 * f[k + 1]
        BY <1>2, <3>3, <4>1 DEF Counted
      <4>3. Pow(2, n - k) = 2 * Pow(2, n - (k + 1)) /\ Pow(2, n - (k + 1)) \in Int
        <5>1. PICK j \in Nat : j = n - (k + 1)
          BY <4>1
        <5>2. Pow(2, j + 1) = 2 * Pow(2, j)
          BY PowUnfolds, Zenon
        <5>3. n - k = j + 1
          BY <4>1, <5>1
        <5>4. Pow(2, j) \in Int
          BY <1>1
        <5>5. QED
          BY <5>1, <5>2, <5>3, <5>4
      <4>4. w[k] = f[k] + x * Pow(2, n - k) /\ w[k + 1] = f[k + 1] + x * Pow(2, n - (k + 1))
        BY <2>2, <4>1
      <4>5. f[k + 1] \in Int /\ s[k + 1] \in Int
        BY <1>1, <1>2, <4>1
      <4> DEFINE q == Pow(2, n - (k + 1))
      <4>6. /\ w[k] = (s[k + 1] + 2 * f[k + 1]) + x * (2 * q)
            /\ w[k + 1] = f[k + 1] + x * q /\ q \in Int
        BY <4>2, <4>3, <4>4
      <4> HIDE DEF q
      <4>7. w[k] = s[k + 1] + 2 * w[k + 1]
        BY <2>1, <4>5, <4>6
      <4>8. QED
        BY <2>1, <3>3, <4>7 DEF Counted
    <3>4. QED
      BY <2>1, <3>1, <3>2, <3>3
  <2>6. w[0] = f[0] + x * Pow(2, n)
    <3>1. 0 \in 0 .. n /\ n - 0 = n
      BY <2>1
    <3>2. QED
      BY <2>2, <3>1
  <2>7. QED
    BY <2>4, <2>5, <2>6 DEF w, x
<1>3. \A n \in 0 .. N : \E f : Is(f, n)
  <2>1. 0 \in P
    <3> DEFINE f == [k \in 0 .. 0 |-> 0]
    <3>1. f \in [0 .. 0 -> Int] /\ \A k \in 0 .. 0 : f[k] = Counted(s, 0, f, k)
      BY DEF Counted
    <3>2. QED
      BY <3>1
  <2>2. ASSUME NEW n \in Nat, n \in P PROVE n + 1 \in P
    <3> HIDE DEF Is, Next
    <3> SUFFICES ASSUME n + 1 <= N PROVE \E f : Is(f, n + 1)
      OBVIOUS
    <3>1. n \in 0 .. (N - 1) /\ n <= N
      BY <1>1
    <3>2. PICK f : Is(f, n)
      BY <2>2, <3>1
    <3>3. Is(Next(f, n), n + 1)
      BY <1>2, <3>1, <3>2
    <3>4. QED
      BY <3>3
  <2> HIDE DEF P
  <2>3. \A n \in Nat : n \in P
    BY <2>1, <2>2, SetInduction
  <2> HIDE DEF Is
  <2>4. QED
    BY <1>1, <2>3 DEF P
<1>4. ASSUME NEW n \in 0 .. N, NEW f, NEW g, Is(f, n),
             g = [k \in 0 .. n |-> Counted(s, n, g, k)]
      PROVE  f[0] = g[0]
  <2> DEFINE U == {j \in Nat : j <= n => f[n - j] = g[n - j]}
  <2>1. n \in Nat /\ \A k \in 0 .. n : f[k] = Counted(s, n, f, k) /\ g[k] = Counted(s, n, g, k)
    <3>1. n \in Nat /\ \A k \in 0 .. n : f[k] = Counted(s, n, f, k)
      BY <1>1, <1>4
    <3>2. \A k \in 0 .. n : g[k] = Counted(s, n, g, k)
      BY <1>4
    <3>3. QED
      BY <3>1, <3>2
  <2>2. 0 \in U
    <3>1. n - 0 = n /\ f[n] = 0 /\ g[n] = 0
      BY <2>1 DEF Counted
    <3>2. QED
      BY <3>1
  <2>3. ASSUME NEW j \in Nat, j \in U PROVE j + 1 \in U
    <3> SUFFICES ASSUME j + 1 <= n PROVE f[n - (j + 1)] = g[n - (j + 1)]
      OBVIOUS
    <3>1. n - (j + 1) \in 0 .. n /\ (n - (j + 1)) + 1 = n - j /\ n - (j + 1) # n /\ j <= n
      BY <2>1
    <3>2. f[n - j] = g[n - j]
      BY <2>3, <3>1
    <3>3. QED
      BY <2>1, <3>1, <3>2 DEF Counted
  <2> HIDE DEF U
  <2>4. \A j \in Nat : j \in U
    BY <2>2, <2>3, SetInduction
  <2>5. n - n = 0 /\ n \in U /\ n <= n
    BY <2>1, <2>4
  <2>6. QED
    BY <2>5 DEF U
<1>5. ASSUME NEW n \in 0 .. N, NEW f, Is(f, n)
      PROVE  Value(SubSeq(s, 1, n)) = f[0] /\ f[0] \in Int
  <2> DEFINE t == SubSeq(s, 1, n)
             G == CHOOSE g : g = [k \in 0 .. Len(t) |-> Counted(t, Len(t), g, k)]
  <2>1. Len(t) = n /\ \A k \in 1 .. n : t[k] = s[k]
    BY <1>1
  <2>2. Value(t) = G[0]
    BY DEF Value, Counted
  <2> HIDE DEF t
  <2>3. \A g : \A k \in 0 .. n : Counted(t, n, g, k) = Counted(s, n, g, k)
    <3> TAKE g
    <3> TAKE k \in 0 .. n
    <3>1. CASE k = n
      BY <3>1 DEF Counted
    <3>2. CASE k # n
      <4>1. k + 1 \in 1 .. n
        BY <1>1, <3>2
      <4>2. QED
        BY <2>1, <3>2, <4>1 DEF Counted
    <3>3. QED
      BY <3>1, <3>2
  <2>4. f = [k \in 0 .. Len(t) |-> Counted(t, Len(t), f, k)]
    <3>1. f = [k \in 0 .. n |-> f[k]]
      BY <1>5
    <3>2. \A k \in 0 .. n : f[k] = Counted(t, n, f, k)
      BY <1>5, <2>3
    <3>3. QED
      BY <2>1, <3>1, <3>2
  <2>5. G = [k \in 0 .. Len(t) |-> Counted(t, Len(t), G, k)]
    BY <2>4, Zenon
  <2> HIDE DEF G
  <2>6. G = [k \in 0 .. n |-> Counted(s, n, G, k)]
    BY <2>1, <2>3, <2>5
  <2>7. f[0] \in Int
    <3>1. 0 \in 0 .. n
      BY <1>1
    <3>2. QED
      BY <1>5, <3>1
  <2> HIDE DEF Is
  <2>8. f[0] = G[0]
    BY <1>4, <1>5, <2>6
  <2>9. QED
    BY <2>2, <2>7, <2>8 DEF t
<1>6. Value(SubSeq(s, 1, 0)) = 0
  <2>1. 0 \in 0 .. N
    BY <1>1
  <2>2. PICK f : Is(f, 0)
    BY <1>3, <2>1
  <2>3. f[0] = 0
    BY <2>2 DEF Counted
  <2> HIDE DEF Is
  <2>4. QED
    BY <1>5, <2>1, <2>2, <2>3
<1> HIDE DEF Is
<1>7. \A n \in 0 .. N : Value(SubSeq(s, 1, n)) \in Int
  BY <1>3, <1>5
<1>8. ASSUME NEW n \in 0 .. (N - 1)
      PROVE  Value(SubSeq(s, 1, n + 1)) = Value(SubSeq(s, 1, n)) + s[n + 1] * Pow(2, n)
  <2>1. n \in 0 .. N /\ n + 1 \in 0 .. N
    BY <1>1
  <2>2. PICK f : Is(f, n)
    BY <1>3, <2>1
  <2> HIDE DEF Next
  <2>3. Is(Next(f, n), n + 1) /\ Next(f, n)[0] = f[0] + s[n + 1] * Pow(2, n)
    BY <1>2, <2>2
  <2>4. Value(SubSeq(s, 1, n)) = f[0]
    BY <1>5, <2>1, <2>2
  <2>5. Value(SubSeq(s, 1, n + 1)) = Next(f, n)[0]
    BY <1>5, <2>1, <2>3
  <2>6. QED
    BY <2>3, <2>4, <2>5
<1>9. QED
  BY <1>6, <1>7, <1>8

-----------------------------------------------------------------------------
(* Points of small order, and the subgroup                                  *)

\* The order of the subgroup is odd.
LEMMA ROdd == \E h \in Nat : R_J = 2 * h + 1
<1>1. R_J \in Nat /\ R_J > 4 /\ \A n \in 2 .. (R_J - 1) : R_J % n # 0
  BY CurveAssumption
<1>2. 2 \in 2 .. (R_J - 1)
  BY <1>1
<1>3. R_J % 2 # 0
  BY <1>1, <1>2
<1>4. R_J = 2 * (R_J \div 2) + 1 /\ R_J \div 2 \in Nat
  BY <1>1, <1>3
<1>5. QED
  BY <1>4

\* A point of the subgroup is not its own opposite, unless it is neutral.
LEMMA OddOrder ==
  ASSUME NEW q \in Points, Plus(q, q) = Identity, Times(R_J, q) = Identity
  PROVE  q = Identity
<1>1. PICK h \in Nat : R_J = 2 * h + 1
  BY ROdd
<1>2. Times(1, q) = q /\ \A a, b \in Nat : Times(a + b, q) = Plus(Times(a, q), Times(b, q))
  BY TimesCounts
<1>3. Times(2, q) = Identity
  <2>1. 1 + 1 = 2 /\ 1 \in Nat
    OBVIOUS
  <2>2. QED
    BY <1>2, <2>1
<1>4. Times(h * 2, q) = Identity
  <2>1. Times(h, Times(2, q)) = Times(h * 2, q)
    BY TimesTimes
  <2>2. QED
    BY <1>3, <2>1, TimesIdentity
<1>5. R_J = h * 2 + 1 /\ h * 2 \in Nat /\ 1 \in Nat
  BY <1>1
<1>6. Times(R_J, q) = Plus(Times(h * 2, q), Times(1, q))
  BY <1>2, <1>5
<1>7. QED
  BY <1>2, <1>4, <1>6, IdentityNeutral

\* A point with a zero u-coordinate is its own opposite.
LEMMA ZeroDoubles ==
  ASSUME NEW q \in Points, q.u = 0
  PROVE  Plus(q, q) = Identity
<1> DEFINE y == q.v
<1>1. y \in Int /\ Vanishes(Curve(0, y)) /\ 0 \in Field /\ 1 \in Field
  BY Coordinates, FieldSize
<1>2. EDWARDS_D \in Int
  BY CurveAssumption
<1> HIDE DEF y
<1>3. Curve(0, y) = y * y - 1
  BY <1>1, <1>2 DEF Curve
<1>4. Cross(0, y, 0, y) = 0
  BY <1>1, <1>2 DEF Cross
<1>5. Adds(0, y, 0, y, 0, 1)
  <2>1. (1 + 0) * 0 - (0 * y + y * 0) = 0 /\ (1 - 0) * 1 - (y * y + 0 * 0) = 1 - y * y
    BY <1>1
  <2>2. Vanishes(1 - y * y)
    <3>1. y * y - 1 \in Int /\ Vanishes(y * y - 1)
      BY <1>1, <1>3
    <3>2. Vanishes((-1) * (y * y - 1))
      BY <3>1, MultipleVanishes
    <3>3. (-1) * (y * y - 1) = 1 - y * y
      BY <1>1
    <3>4. QED
      BY <3>2, <3>3
  <2>3. QED
    BY <1>4, <2>1, <2>2, ZeroVanishes DEF Adds, Same
<1>6. Adds(q.u, q.v, q.u, q.v, 0, 1)
  BY <1>5 DEF y
<1>7. QED
  BY <1>1, <1>6, PlusIsTheSum DEF Identity

\* Three doublings make the multiple by eight.
LEMMA ThreeDoublings ==
  ASSUME NEW p \in Points
  PROVE  /\ assert_not_small_order(p) <=> Times(8, p).u # 0
         /\ Plus(p, p) = Times(2, p) /\ Plus(Times(2, p), Times(2, p)) = Times(4, p)
         /\ Plus(Times(4, p), Times(4, p)) = Times(8, p)
<1>1. Times(1, p) = p /\ (\A a \in Nat : Times(a, p) \in Points)
      /\ \A a, b \in Nat : Times(a + b, p) = Plus(Times(a, p), Times(b, p))
  BY TimesCounts
<1>2. 1 + 1 = 2 /\ 2 + 2 = 4 /\ 4 + 4 = 8 /\ 1 \in Nat /\ 2 \in Nat /\ 4 \in Nat /\ 8 \in Nat
  OBVIOUS
<1>3. Plus(p, p) = Times(2, p) /\ Plus(Times(2, p), Times(2, p)) = Times(4, p)
      /\ Plus(Times(4, p), Times(4, p)) = Times(8, p)
  BY <1>1, <1>2
<1>4. /\ double(p).outputs = {Times(2, p)} /\ double(Times(2, p)).outputs = {Times(4, p)}
      /\ double(Times(4, p)).outputs = {Times(8, p)}
  BY <1>1, <1>2, <1>3, DoubleIsExact
<1>5. assert_not_small_order(p) <=> Times(8, p).u # 0
  BY <1>4 DEF assert_not_small_order
<1>6. QED
  BY <1>3, <1>5

\* The constraint on a witnessed point is the curve's equation.
LEMMA InterpretIsTheCurve ==
  ASSUME NEW p
  PROVE  interpret(p) <=> OnCurve(p)
BY DEF interpret, OnCurve

\* A multiple of a point whose order divides the curve's.
LEMMA OrderOfMultiples ==
  ASSUME NEW p \in Points, NEW k \in Nat, NEW r \in Nat, Times(r, p) = Identity
  PROVE  Times(k, p) \in Points /\ Times(r, Times(k, p)) = Identity
<1>1. Times(k, p) \in Points
  BY TimesCounts
<1>2. Times(r, Times(k, p)) = Times(r * k, p) /\ Times(k, Times(r, p)) = Times(k * r, p)
  BY TimesTimes
<1>3. r * k = k * r
  OBVIOUS
<1>4. QED
  BY <1>1, <1>2, <1>3, TimesIdentity

\* The check against small order is exact on a curve of 8 R_J points.
LEMMA SmallOrderGadget ==
  ASSUME NEW p \in Points, Times(8 * R_J, p) = Identity
  PROVE  assert_not_small_order(p) <=> ~IsSmallOrder(p)
<1> DEFINE q == Times(8, p)
<1>1. R_J \in Nat
  BY CurveAssumption
<1>2. q \in Points /\ Times(R_J, q) = Identity
  <2>1. q \in Points /\ Times(R_J, Times(8, p)) = Times(R_J * 8, p)
    BY <1>1, TimesCounts, TimesTimes
  <2>2. R_J * 8 = 8 * R_J
    BY <1>1
  <2>3. QED
    BY <2>1, <2>2
<1>3. q.u = 0 => q = Identity
  BY <1>2, ZeroDoubles, OddOrder
<1>4. q = Identity => q.u = 0
  BY DEF Identity
<1>5. QED
  BY <1>3, <1>4, ThreeDoublings DEF IsSmallOrder

\* group_hash returns no point of small order.
LEMMA GroupHashIsNotSmall ==
  ASSUME NEW h, h # <<>>, h[1] \in Points, Times(8 * R_J, h[1]) = Identity,
         group_hash(h) # <<>>
  PROVE  /\ group_hash(h)[1] \in Points /\ Times(8 * R_J, group_hash(h)[1]) = Identity
         /\ group_hash(h) = <<group_hash(h)[1]>>
         /\ ~IsSmallOrder(group_hash(h)[1])
<1> DEFINE b == h[1]
           p == Times(8, b)
<1>1. R_J \in Nat /\ 8 * R_J \in Nat /\ R_J * 8 = 8 * R_J
  BY CurveAssumption
<1>2. group_hash(h) = <<p>> /\ p # Identity
  BY DEF group_hash
<1>3. p \in Points /\ Times(8 * R_J, p) = Identity
  BY <1>1, OrderOfMultiples
<1>4. Times(R_J, p) = Identity
  <2>1. Times(R_J, Times(8, b)) = Times(R_J * 8, b)
    BY <1>1, TimesTimes
  <2>2. QED
    BY <1>1, <2>1
<1> HIDE DEF p
<1>5. Times(8, p) # Identity
  <2> SUFFICES ASSUME Times(8, p) = Identity PROVE FALSE
    OBVIOUS
  <2>1. \A k \in Nat : Times(k, p) \in Points /\ Times(R_J, Times(k, p)) = Identity
    BY <1>1, <1>3, <1>4, OrderOfMultiples
  <2>2. Plus(p, p) = Times(2, p) /\ Plus(Times(2, p), Times(2, p)) = Times(4, p)
        /\ Plus(Times(4, p), Times(4, p)) = Times(8, p)
    BY <1>3, ThreeDoublings
  <2>3. Times(4, p) = Identity
    BY <2>1, <2>2, OddOrder
  <2>4. Times(2, p) = Identity
    BY <2>1, <2>2, <2>3, OddOrder
  <2>5. p = Identity
    BY <1>3, <1>4, <2>2, <2>4, OddOrder
  <2>6. QED
    BY <1>2, <2>5
<1>6. QED
  BY <1>2, <1>3, <1>5 DEF IsSmallOrder

\* A point whose order divides R_J, and its multiples by any integer.
InSubgroup(g) == g \in Points /\ Times(R_J, g) = Identity
\* The multiple by any integer, negative ones included.
Multiple(k, g) == Times(k % R_J, g)

\* Remainders by the order of the subgroup add as their numbers do.
LEMMA Residues ==
  ASSUME NEW a \in Int, NEW b \in Int
  PROVE  /\ R_J \in Nat \ {0} /\ a % R_J \in 0 .. (R_J - 1) /\ a % R_J \in Nat
         /\ ((a % R_J) + (b % R_J)) % R_J = (a + b) % R_J
         /\ ((a % R_J) + b) % R_J = (a + b) % R_J
<1>1. R_J \in Nat \ {0}
  BY CurveAssumption
<1>2. \A q \in Nat \ {0} : \A x, y \in Int : \A k \in Int : x = y + k * q => x % q = y % q
  <2> SUFFICES ASSUME NEW q \in Nat \ {0}, NEW x \in Int, NEW y \in Int, NEW k \in Int, x = y + k * q
               PROVE  x % q = y % q
    OBVIOUS
  <2> DEFINE r == x % q
             s == y % q
  <2>1. PICK l \in Int : x = l * q + r
    BY Remainder
  <2>2. PICK m \in Int : y = m * q + s
    BY Remainder
  <2>3. r \in 0 .. (q - 1) /\ s \in 0 .. (q - 1)
    BY Remainder
  <2> HIDE DEF r, s
  <2>4. l * q + r = m * q + s + k * q
    BY <2>1, <2>2
  <2>5. r - s = (m + k - l) * q
    BY <2>3, <2>4
  <2>6. m + k - l \in Int
    OBVIOUS
  <2>7. PICK n \in Int : n = m + k - l
    BY <2>6
  <2>8. r - s = n * q /\ r - s < q /\ r - s > -q
    BY <2>3, <2>5, <2>7
  <2>9. n = 0
    <3>1. CASE n >= 1
      <4>1. n * q >= q
        BY <3>1
      <4>2. QED
        BY <2>3, <2>8, <4>1
    <3>2. CASE n <= -1
      <4>1. n * q <= -q
        BY <3>2
      <4>2. QED
        BY <2>3, <2>8, <4>1
    <3>3. QED
      BY <3>1, <3>2
  <2>10. r = s
    BY <2>3, <2>8, <2>9
  <2>11. QED
    BY <2>10 DEF r, s
<1> DEFINE r == a % R_J
           s == b % R_J
<1>3. PICK l \in Int : a = l * R_J + r
  BY <1>1, Remainder
<1>4. PICK m \in Int : b = m * R_J + s
  BY <1>1, Remainder
<1>5. r \in 0 .. (R_J - 1) /\ s \in 0 .. (R_J - 1) /\ r \in Nat /\ s \in Nat
  BY <1>1, Remainder
<1> HIDE DEF r, s
<1>6. r + s = (a + b) + (-l - m) * R_J /\ r + b = (a + b) + (-l) * R_J
  <2>1. PICK y \in Int, z \in Int : y = l * R_J /\ z = m * R_J
    BY <1>1
  <2>2. (-l - m) * R_J = -y - z /\ (-l) * R_J = -y
    BY <1>1, <2>1
  <2>3. QED
    BY <1>3, <1>4, <1>5, <2>1, <2>2
<1>7. r + s \in Int /\ r + b \in Int /\ a + b \in Int /\ -l - m \in Int /\ -l \in Int
  BY <1>5
<1>8. (r + s) % R_J = (a + b) % R_J /\ (r + b) % R_J = (a + b) % R_J
  BY <1>1, <1>2, <1>6, <1>7
<1>9. QED
  BY <1>1, <1>5, <1>8 DEF r, s

\* On the subgroup a multiple depends on the remainder only ...
LEMMA MultipleOfNumber ==
  ASSUME NEW g, InSubgroup(g)
  PROVE  \A k \in Nat : Times(k, g) = Multiple(k, g)
<1> SUFFICES ASSUME NEW k \in Nat PROVE Times(k, g) = Multiple(k, g)
  OBVIOUS
<1> DEFINE r == k % R_J
           d == k \div R_J
<1>1. R_J \in Nat \ {0} /\ g \in Points /\ Times(R_J, g) = Identity
  BY CurveAssumption DEF InSubgroup
<1>2. r \in Nat /\ d \in Nat /\ k = d * R_J + r /\ d * R_J \in Nat
  BY <1>1
<1> HIDE DEF r, d
<1>3. Times(d * R_J + r, g) = Plus(Times(d * R_J, g), Times(r, g))
  BY <1>1, <1>2, TimesCounts
<1>4. Times(d * R_J, g) = Identity
  <2>1. Times(d, Times(R_J, g)) = Times(d * R_J, g)
    BY <1>1, <1>2, TimesTimes
  <2>2. QED
    BY <1>1, <1>2, <2>1, TimesIdentity
<1>5. Times(r, g) \in Points
  BY <1>1, <1>2, TimesCounts
<1>6. Times(k, g) = Times(r, g)
  BY <1>2, <1>3, <1>4, <1>5, IdentityNeutral
<1>7. QED
  BY <1>6 DEF Multiple, r

\* ... so the integers act on it ...
LEMMA MultiplesAdd ==
  ASSUME NEW g, InSubgroup(g)
  PROVE  /\ Multiple(0, g) = Identity /\ Multiple(1, g) = g
         /\ \A a \in Int : InSubgroup(Multiple(a, g)) /\ Multiple(a, g) \in Points
         /\ \A a, b \in Int : Multiple(a + b, g) = Plus(Multiple(a, g), Multiple(b, g))
         /\ \A a \in Int : Multiple(-a, g) = Negate(Multiple(a, g))
<1>1. g \in Points /\ Times(R_J, g) = Identity /\ R_J \in Nat
  BY CurveAssumption DEF InSubgroup
<1>2. Multiple(0, g) = Identity /\ Multiple(1, g) = g
  <2>1. Times(0, g) = Multiple(0, g) /\ Times(1, g) = Multiple(1, g)
    BY MultipleOfNumber
  <2>2. QED
    BY <1>1, <2>1, TimesCounts
<1>3. ASSUME NEW a \in Int
      PROVE  InSubgroup(Multiple(a, g)) /\ Multiple(a, g) \in Points
  <2>1. a % R_J \in Nat
    BY Residues
  <2>2. QED
    BY <1>1, <2>1, OrderOfMultiples DEF InSubgroup, Multiple
<1>4. ASSUME NEW a \in Int, NEW b \in Int
      PROVE  Multiple(a + b, g) = Plus(Multiple(a, g), Multiple(b, g))
  <2> DEFINE r == a % R_J
             s == b % R_J
  <2>1. r \in Nat /\ s \in Nat /\ (r + s) % R_J = (a + b) % R_J
    BY Residues
  <2> HIDE DEF r, s
  <2>2. Times(r + s, g) = Plus(Times(r, g), Times(s, g)) /\ r + s \in Nat
    BY <1>1, <2>1, TimesCounts
  <2>3. Times(r + s, g) = Multiple(r + s, g)
    BY <2>2, MultipleOfNumber
  <2>4. Multiple(r + s, g) = Multiple(a + b, g)
    BY <2>1 DEF Multiple
  <2>5. QED
    BY <2>2, <2>3, <2>4 DEF Multiple, r, s
<1>5. ASSUME NEW a \in Int
      PROVE  Multiple(-a, g) = Negate(Multiple(a, g))
  <2>1. -a \in Int /\ a + (-a) = 0
    OBVIOUS
  <2>2. Plus(Multiple(a, g), Multiple(-a, g)) = Identity
    BY <1>2, <1>4, <2>1
  <2>3. Plus(Multiple(a, g), Negate(Multiple(a, g))) = Identity /\ Negate(Multiple(a, g)) \in Points
    BY <1>3, NegateInverts
  <2>4. QED
    BY <1>3, <2>1, <2>2, <2>3, PlusCancels
<1>6. QED
  BY <1>2, <1>3, <1>4, <1>5

\* The order of a point of the subgroup is R_J, which is prime.
LEMMA OrderIsPrime ==
  ASSUME NEW g, InSubgroup(g), g # Identity
  PROVE  \A k \in 1 .. (R_J - 1) : Times(k, g) # Identity
<1> DEFINE S == {k \in Nat : k > 0 /\ Times(k, g) = Identity}
<1>1. g \in Points /\ Times(R_J, g) = Identity /\ R_J \in Nat /\ R_J > 4 /\ \A n \in 2 .. (R_J - 1) : R_J % n # 0
  BY CurveAssumption DEF InSubgroup
<1>2. S \in SUBSET Nat /\ R_J \in S
  BY <1>1
<1>3. PICK d \in S : \A k \in S : d <= k
  <2> HIDE DEF S
  <2>1. QED
    BY <1>2, LeastExists
<1>4. d \in Nat /\ d > 0 /\ Times(d, g) = Identity /\ d <= R_J
  BY <1>2, <1>3
<1>5. d # 1
  BY <1>1, <1>4, TimesCounts
<1>6. R_J % d = 0
  <2> DEFINE r == R_J % d
             m == R_J \div d
  <2>1. r \in Nat /\ r < d /\ m \in Nat /\ R_J = m * d + r /\ m * d \in Nat
    BY <1>1, <1>4
  <2> HIDE DEF r, m
  <2>2. Times(m * d + r, g) = Plus(Times(m * d, g), Times(r, g)) /\ Times(r, g) \in Points
    BY <1>1, <2>1, TimesCounts
  <2>3. Times(m * d, g) = Identity
    <3>1. Times(m, Times(d, g)) = Times(m * d, g)
      BY <1>1, <1>4, <2>1, TimesTimes
    <3>2. QED
      BY <1>4, <2>1, <3>1, TimesIdentity
  <2>4. Times(r, g) = Identity
    BY <1>1, <2>1, <2>2, <2>3, IdentityNeutral
  <2>5. r = 0
    BY <1>3, <1>4, <2>1, <2>4
  <2>6. QED
    BY <2>5 DEF r
<1>7. d = R_J
  BY <1>1, <1>4, <1>5, <1>6
<1>8. QED
  BY <1>3, <1>7, <1>1

\* ... and numbers that differ by less than the order act differently.
LEMMA MultiplesDiffer ==
  ASSUME NEW g, InSubgroup(g), g # Identity, NEW a \in Int, NEW b \in Int,
         a # b, a - b < R_J, b - a < R_J
  PROVE  Multiple(a, g) # Multiple(b, g)
<1> SUFFICES ASSUME Multiple(a, g) = Multiple(b, g) PROVE FALSE
  OBVIOUS
<1>1. R_J \in Nat /\ R_J > 4
  BY CurveAssumption
<1>2. \A x, y \in Int : (x < y /\ y - x < R_J) => Multiple(x, g) # Multiple(y, g)
  <2> SUFFICES ASSUME NEW x \in Int, NEW y \in Int, x < y, y - x < R_J, Multiple(x, g) = Multiple(y, g) PROVE FALSE
    OBVIOUS
  <2>1. y - x \in Int /\ x + (y - x) = y /\ y - x \in 1 .. (R_J - 1) /\ y - x \in Nat
    BY <1>1
  <2>2. Plus(Multiple(x, g), Multiple(y - x, g)) = Multiple(y, g)
    BY <2>1, MultiplesAdd
  <2>3. Multiple(x, g) \in Points /\ Multiple(y - x, g) \in Points
    BY <2>1, MultiplesAdd
  <2>4. Plus(Multiple(x, g), Identity) = Multiple(x, g) /\ Identity \in Points
    BY <2>3, IdentityNeutral
  <2>5. Multiple(y - x, g) = Identity
    BY <2>2, <2>3, <2>4, PlusCancels
  <2>6. Times(y - x, g) = Identity
    BY <2>1, <2>5, MultipleOfNumber
  <2>7. QED
    BY <2>1, <2>6, OrderIsPrime
<1>3. a < b \/ b < a
  OBVIOUS
<1>4. QED
  BY <1>2, <1>3

-----------------------------------------------------------------------------
(* What one coordinate says of a point                                      *)

\* r is a combination of two integers.
Mixes(r, x, a, y, b) ==
  x \in Int /\ a \in Int /\ y \in Int /\ b \in Int /\ r = x * a + y * b

\* A combination of two integers that vanish, as an opaque whole.
LEMMA MixVanishes ==
  ASSUME NEW r, NEW x, NEW a, NEW y, NEW b, Mixes(r, x, a, y, b), Vanishes(a),
         Vanishes(b)
  PROVE  Vanishes(r) /\ r \in Int
<1>1. x \in Int /\ a \in Int /\ y \in Int /\ b \in Int /\ r = x * a + y * b
  BY DEF Mixes
<1>2. Vanishes(x * a + y * b)
  BY <1>1, Combination, Zenon
<1>3. QED
  BY <1>1, <1>2

\* The coefficients that relate two points with a coordinate in common vanish nowhere.
LEMMA NoSharedPole ==
  ASSUME NEW a \in Int
  PROVE  ~Vanishes(1 + EDWARDS_D * (a * a)) /\ ~Vanishes(1 - EDWARDS_D * (a * a))
<1>1. EDWARDS_D \in Int /\ Q \in Nat /\ Q > 2
  BY CurveAssumption, FieldSize
<1>2. PICK D \in Int : D = EDWARDS_D
  BY <1>1
<1>3. ~Vanishes(1)
  <2> SUFFICES ASSUME Vanishes(1) PROVE FALSE
    OBVIOUS
  <2>1. 1 \in Field
    BY FieldSize
  <2>2. 1 = 0
    BY <2>1, FieldZero, Zenon
  <2>3. QED
    BY <2>2
<1>4. ASSUME Vanishes(1 - D * (a * a))
      PROVE  FALSE
  <2>1. 1 * 1 - D * (a * a) = 1 - D * (a * a)
    OBVIOUS
  <2>2. Vanishes(1 * 1 - EDWARDS_D * (a * a))
    BY <1>2, <1>4, <2>1
  <2>3. Vanishes(a)
    BY <2>2, NonSquare
  <2>4. Mixes(1, 1, 1 - D * (a * a), D * a, a)
    BY DEF Mixes
  <2>5. QED
    BY <1>3, <1>4, <2>3, <2>4, MixVanishes
<1>5. ASSUME Vanishes(1 + D * (a * a))
      PROVE  FALSE
  <2>1. PICK j \in 0 .. (Q - 1) : (j * j) % Q = Q - 1
    BY CurveAssumption
  <2>2. j \in Int /\ j * j \in Int
    BY <1>1, <2>1
  <2>3. Vanishes(j * j + 1)
    <3>1. Same(Q - 1, j * j)
      BY <2>1, <2>2, Reduced
    <3>2. PICK k \in Int : (Q - 1) - j * j = k * Q
      BY <3>1 DEF Same, Vanishes
    <3>3. j * j + 1 = (1 - k) * Q
      BY <1>1, <2>2, <3>2
    <3>4. 1 - k \in Int
      OBVIOUS
    <3>5. QED
      BY <3>3, <3>4 DEF Vanishes
  <2>4. Mixes(j * j - D * (a * a), 1, j * j + 1, -1, 1 + D * (a * a))
    BY <2>2 DEF Mixes
  <2>5. Vanishes(j * j - D * (a * a))
    BY <1>5, <2>3, <2>4, MixVanishes
  <2>6. Vanishes(j * j - EDWARDS_D * (a * a))
    BY <1>2, <2>5
  <2>7. Vanishes(a)
    BY <2>2, <2>6, NonSquare
  <2>8. Mixes(1, 1, 1 + D * (a * a), -(D * a), a)
    BY DEF Mixes
  <2>9. QED
    BY <1>3, <1>5, <2>7, <2>8, MixVanishes
<1>6. QED
  BY <1>2, <1>4, <1>5

\* Two numbers with the same square are equal or opposite.
LEMMA SquareRoots ==
  ASSUME NEW a \in Field, NEW b \in Field, Vanishes(a * a - b * b)
  PROVE  a = b \/ Vanishes(a + b)
<1>1. a \in Int /\ b \in Int
  BY FieldSize DEF Field
<1>2. (a - b) * (a + b) = a * a - b * b /\ a - b \in Int /\ a + b \in Int
  BY <1>1
<1>3. Vanishes(a - b) \/ Vanishes(a + b)
  BY <1>2, NoZeroDivisors
<1>4. Vanishes(a - b) => a = b
  BY FieldSame DEF Same
<1>5. QED
  BY <1>3, <1>4

\* Points with the same v-coordinate are equal or opposite.
LEMMA SameV ==
  ASSUME NEW p \in Points, NEW q \in Points, p.v = q.v
  PROVE  p = q \/ p = Negate(q)
<1> DEFINE x == p.u
           z == q.u
           y == p.v
<1>1. /\ x \in Field /\ z \in Field /\ y \in Field /\ x \in Int /\ z \in Int /\ y \in Int
      /\ Vanishes(Curve(x, y)) /\ Vanishes(Curve(z, y))
      /\ p = [u |-> x, v |-> y] /\ q = [u |-> z, v |-> y]
  BY Coordinates
<1>2. PICK D \in Int : D = EDWARDS_D
  BY CurveAssumption
<1> HIDE DEF x, y, z
<1>3. Curve(x, y) = y * y - x * x - 1 - D * ((x * x) * (y * y)) /\ Curve(z, y) = y * y - z * z - 1 - D * ((z * z) * (y * y))
  BY <1>2 DEF Curve
<1>4. Mixes((x * x - z * z) * (1 + D * (y * y)), 1, Curve(z, y), -1, Curve(x, y))
  BY <1>1, <1>3 DEF Mixes
<1>5. Vanishes((x * x - z * z) * (1 + D * (y * y)))
  BY <1>1, <1>4, MixVanishes
<1>6. x * x - z * z \in Int /\ 1 + D * (y * y) \in Int
  BY <1>1
<1>7. Vanishes(x * x - z * z)
  BY <1>1, <1>2, <1>5, <1>6, NoZeroDivisors, NoSharedPole
<1>8. x = z \/ Vanishes(x + z)
  BY <1>1, <1>7, SquareRoots
<1>9. CASE x = z
  BY <1>1, <1>9
<1>10. CASE Vanishes(x + z)
  <2>1. 0 \ominus z \in Field /\ Same(0 \ominus z, 0 - z)
    BY <1>1, FieldOperations
  <2>2. PICK w \in Field : w = 0 \ominus z
    BY <2>1
  <2>3. w \in Int /\ Vanishes(w - (0 - z))
    BY <2>1, <2>2, FieldSize DEF Field, Same
  <2>4. Mixes(x - w, 1, x + z, -1, w - (0 - z))
    BY <1>1, <2>3 DEF Mixes
  <2>5. Vanishes(x - w)
    BY <1>10, <2>3, <2>4, MixVanishes
  <2>6. x = w
    BY <1>1, <2>5, FieldSame DEF Same
  <2>7. Negate(q) = [u |-> w, v |-> y]
    BY <1>1, <2>2 DEF Negate
  <2>8. QED
    BY <1>1, <2>6, <2>7
<1>11. QED
  BY <1>8, <1>9, <1>10

\* Points with the same u-coordinate are equal, or their sum is the point of order two.
LEMMA SameU ==
  ASSUME NEW p \in Points, NEW q \in Points, p.u = q.u
  PROVE  p = q \/ Plus(p, q) = [u |-> 0, v |-> Q - 1]
<1> DEFINE x == p.u
           y == p.v
           w == q.v
<1>1. /\ x \in Field /\ w \in Field /\ y \in Field /\ x \in Int /\ w \in Int /\ y \in Int
      /\ Vanishes(Curve(x, y)) /\ Vanishes(Curve(x, w))
      /\ p = [u |-> x, v |-> y] /\ q = [u |-> x, v |-> w]
  BY Coordinates
<1>2. PICK D \in Int : D = EDWARDS_D
  BY CurveAssumption
<1>3. Q \in Nat /\ Q > 2 /\ Q - 1 \in Field /\ 0 \in Field /\ Q - 1 \in Int
  BY FieldSize DEF Field
<1> HIDE DEF x, y, w
<1>4. Curve(x, y) = y * y - x * x - 1 - D * ((x * x) * (y * y)) /\ Curve(x, w) = w * w - x * x - 1 - D * ((x * x) * (w * w))
  BY <1>2 DEF Curve
<1>5. Mixes((y * y - w * w) * (1 - D * (x * x)), 1, Curve(x, y), -1, Curve(x, w))
  BY <1>1, <1>4 DEF Mixes
<1>6. Vanishes((y * y - w * w) * (1 - D * (x * x)))
  BY <1>1, <1>5, MixVanishes
<1>7. y * y - w * w \in Int /\ 1 - D * (x * x) \in Int
  BY <1>1
<1>8. Vanishes(y * y - w * w)
  BY <1>1, <1>2, <1>6, <1>7, NoZeroDivisors, NoSharedPole
<1>9. y = w \/ Vanishes(y + w)
  BY <1>1, <1>8, SquareRoots
<1>10. CASE y = w
  BY <1>1, <1>10
<1>11. CASE Vanishes(y + w)
  <2> DEFINE t == Cross(x, y, x, w)
  <2>1. t = D * ((x * w) * (y * x)) /\ t \in Int
    BY <1>1, <1>2 DEF Cross
  <2> HIDE DEF t
  <2>2. Vanishes((1 + t) * 0 - (x * w + y * x))
    <3>1. (1 + t) * 0 - (x * w + y * x) = (-x) * (y + w) /\ -x \in Int /\ y + w \in Int
      BY <1>1, <2>1
    <3>2. QED
      BY <1>11, <3>1, MultipleVanishes
  <2>3. Vanishes((1 - t) * (Q - 1) - (y * w + x * x))
    <3> DEFINE a == D * ((x * x) * y) - y
               f == (1 - t) * (Q - 1) - (y * w + x * x) - (1 - t) * Q
    <3>1. Vanishes(Q)
      <4>1. Q = 1 * Q /\ 1 \in Int
        BY <1>3
      <4>2. QED
        BY <4>1 DEF Vanishes
    <3>2. Mixes(f, a, y + w, 1, Curve(x, y))
      <4>1. f = a * (y + w) + 1 * Curve(x, y)
        BY <1>1, <1>3, <1>4, <2>1
      <4>2. QED
        BY <1>1, <1>4, <4>1 DEF Mixes
    <3>3. Vanishes(f) /\ f \in Int
      BY <1>1, <1>11, <3>2, MixVanishes
    <3>4. Mixes((1 - t) * (Q - 1) - (y * w + x * x), 1, f, 1 - t, Q)
      BY <1>1, <1>3, <2>1, <3>3 DEF Mixes
    <3> HIDE DEF f
    <3>5. QED
      BY <3>1, <3>3, <3>4, MixVanishes
  <2>4. Adds(x, y, x, w, 0, Q - 1)
    BY <2>2, <2>3 DEF Adds, Same, t
  <2>5. Adds(p.u, p.v, q.u, q.v, 0, Q - 1)
    <3>1. p.u = x /\ p.v = y /\ q.u = x /\ q.v = w
      BY <1>1
    <3>2. QED
      BY <2>4, <3>1
  <2>6. QED
    BY <1>3, <2>5, PlusIsTheSum
<1>12. QED
  BY <1>9, <1>10, <1>11

\* In the subgroup the u-coordinate determines the point.
LEMMA UDetermines ==
  ASSUME NEW g, InSubgroup(g), NEW a \in Int, NEW b \in Int,
         Multiple(a, g).u = Multiple(b, g).u
  PROVE  Multiple(a, g) = Multiple(b, g)
<1> DEFINE p == Multiple(a, g)
           q == Multiple(b, g)
           s == Plus(p, q)
<1>1. p \in Points /\ q \in Points /\ s = Multiple(a + b, g) /\ a + b \in Int
  BY MultiplesAdd
<1>2. s \in Points /\ Times(R_J, s) = Identity
  BY <1>1, MultiplesAdd DEF InSubgroup
<1> HIDE DEF s
<1>3. s # [u |-> 0, v |-> Q - 1]
  <2> SUFFICES ASSUME s = [u |-> 0, v |-> Q - 1] PROVE FALSE
    OBVIOUS
  <2>1. s.u = 0 /\ s.v = Q - 1
    OBVIOUS
  <2>2. s = Identity
    BY <1>2, <2>1, ZeroDoubles, OddOrder
  <2>3. QED
    BY <2>1, <2>2, FieldSize DEF Identity
<1>4. p = q \/ s = [u |-> 0, v |-> Q - 1]
  <2> HIDE DEF p, q
  <2>1. p.u = q.u
    BY DEF p, q
  <2>2. QED
    BY <1>1, <2>1, SameU DEF s
<1>5. QED
  BY <1>3, <1>4

-----------------------------------------------------------------------------
(* The constants of the Montgomery form                                     *)

\* e is a product of two integers.
IsProduct(e, c, r) == c \in Int /\ r \in Int /\ e = c * r

\* A product that vanishes has a factor that does.
LEMMA ProductCancels ==
  ASSUME NEW e, NEW c, NEW r, IsProduct(e, c, r), Vanishes(e)
  PROVE  Vanishes(c) \/ Vanishes(r)
<1>1. c \in Int /\ r \in Int /\ Vanishes(c * r)
  BY DEF IsProduct
<1>2. QED
  BY <1>1, NoZeroDivisors, Zenon

\* A product with a factor that vanishes does.
LEMMA ProductVanishes ==
  ASSUME NEW e, NEW c, NEW r, IsProduct(e, c, r), Vanishes(r)
  PROVE  Vanishes(e)
<1>1. c \in Int /\ r \in Int /\ e = c * r
  BY DEF IsProduct
<1>2. Vanishes(c * r)
  BY <1>1, MultipleVanishes, Zenon
<1>3. QED
  BY <1>1, <1>2

\* The constants of the Montgomery form.
Kay == -1 - EDWARDS_D
\* The constants of the Montgomery form, and the equations that define them.
LEMMA MontgomeryConstants ==
  /\ EDWARDS_D \in Int /\ Kay \in Int /\ Kay = -1 - EDWARDS_D /\ ~Vanishes(Kay)
  /\ MONTGOMERY_A \in Field /\ MONTGOMERY_A \in Int
  /\ MONTGOMERY_SCALE \in Field /\ MONTGOMERY_SCALE \in Int
  /\ Vanishes(Kay * MONTGOMERY_A - 2 * (EDWARDS_D - 1))
  /\ Vanishes(Kay * (MONTGOMERY_SCALE * MONTGOMERY_SCALE) - 4)
  /\ ~Vanishes(MONTGOMERY_SCALE)
<1> DEFINE d == EDWARDS_D
           e == (Q - 1) \ominus d
           S == MONTGOMERY_SCALE
           A == MONTGOMERY_A
<1>1. d \in Int /\ Q \in Nat /\ Q > 2 /\ Q - 1 \in Int
  BY CurveAssumption, FieldSize
<1>2. Kay \in Int /\ Kay = -1 - d
  BY <1>1 DEF Kay
<1>3. ~Vanishes(Kay)
  <2> SUFFICES ASSUME Vanishes(Kay) PROVE FALSE
    OBVIOUS
  <2>1. IsProduct(1 + d * (1 * 1), -1, Kay)
    BY <1>1, <1>2 DEF IsProduct
  <2>2. Vanishes(1 + d * (1 * 1))
    BY <2>1, ProductVanishes
  <2>3. 1 \in Int
    OBVIOUS
  <2>4. ~Vanishes(1 + EDWARDS_D * (1 * 1))
    BY <2>3, NoSharedPole, Zenon
  <2>5. QED
    BY <2>2, <2>4
<1>4. e \in Field /\ e \in Int /\ Vanishes(e - ((Q - 1) - d))
  BY <1>1, FieldOperations DEF Field, Same
<1>5. Vanishes(Q)
  <2>1. Q = 1 * Q /\ 1 \in Int
    BY <1>1
  <2>2. QED
    BY <2>1 DEF Vanishes
<1> HIDE DEF e
<1>6. Vanishes(Kay - e)
  <2>1. Mixes(Kay - e, -1, Q, -1, e - ((Q - 1) - d))
    BY <1>1, <1>2, <1>4 DEF Mixes
  <2>2. QED
    BY <1>4, <1>5, <2>1, MixVanishes
<1>7. e # 0
  <2>1. e = 0 => Vanishes(Kay)
    <3>1. e = 0 => Kay - e = Kay
      BY <1>2
    <3>2. QED
      BY <1>6, <3>1
  <2>2. QED
    BY <1>3, <2>1
<1>8. A \in Field /\ A \in Int /\ Vanishes(Kay * A - 2 * (d - 1))
  <2> DEFINE f == (Q - 1) \oplus d
             n == 2 \odot f
  <2>1. f \in Field /\ f \in Int /\ Vanishes(f - ((Q - 1) + d))
    BY <1>1, FieldOperations DEF Field, Same
  <2> HIDE DEF f
  <2>2. n \in Field /\ n \in Int /\ Vanishes(n - 2 * f)
    <3>1. 2 \in Int
      OBVIOUS
    <3>2. n \in Field /\ Same(n, 2 * f)
      BY <2>1, <3>1, FieldOperations, Zenon
    <3>3. QED
      BY <1>1, <3>2 DEF Field, Same
  <2>3. A = n \oslash e
    BY DEF MONTGOMERY_A, f, e
  <2> HIDE DEF n, A
  <2>4. A \in Field /\ Same(e * A, n)
    BY <1>4, <1>7, <2>2, <2>3, Quotient
  <2>5. A \in Int /\ Vanishes(e * A - n)
    BY <1>1, <2>4 DEF Field, Same
  <2> DEFINE r == Kay * A - 2 * (d - 1) - 2 * Q
  <2>7. Combines(r, Kay - e, A, e * A - n, 1, n - 2 * f, 1, f - ((Q - 1) + d), 2)
    BY <1>1, <1>2, <1>4, <2>1, <2>2, <2>5 DEF Combines
  <2>8. Vanishes(r)
    BY <1>6, <2>1, <2>2, <2>5, <2>7, CombinationVanishes
  <2>9. Mixes(Kay * A - 2 * (d - 1), 1, r, 2, Q)
    BY <1>1, <1>2, <2>5 DEF Mixes
  <2> HIDE DEF r
  <2>10. QED
    BY <1>5, <2>4, <2>5, <2>8, <2>9, MixVanishes
<1>9. S \in Field /\ S \in Int /\ Vanishes(Kay * (S * S) - 4)
  <2> DEFINE c == 4 \oslash e
  <2>1. S \in Field /\ S \odot S = c
    BY MontgomeryAssumption DEF MONTGOMERY_SCALE, e
  <2>2. c \in Field /\ Same(e * c, 4)
    <3>1. 4 \in Int
      OBVIOUS
    <3>2. QED
      BY <1>4, <1>7, <3>1, Quotient, Zenon
  <2> HIDE DEF c, S
  <2>3. S \in Int /\ c \in Int /\ Vanishes(e * c - 4)
    BY <1>1, <2>1, <2>2 DEF Field, Same
  <2>4. Vanishes(c - S * S)
    BY <2>1, <2>3, FieldOperations DEF Same
  <2>5. Combines(Kay * (S * S) - 4, Kay - e, c, e * c - 4, 1, c - S * S, -Kay, 0, 0)
    BY <1>2, <1>4, <2>3 DEF Combines
  <2>6. QED
    BY <1>6, <2>1, <2>3, <2>4, <2>5, ZeroVanishes, CombinationVanishes
<1>10. ~Vanishes(S)
  <2> SUFFICES ASSUME Vanishes(S) PROVE FALSE
    OBVIOUS
  <2> HIDE DEF S
  <2>1. Mixes(2 * 2, Kay * S, S, -1, Kay * (S * S) - 4)
    BY <1>2, <1>9 DEF Mixes
  <2>2. Vanishes(2 * 2)
    BY <1>9, <2>1, MixVanishes
  <2>3. 2 \in Int
    OBVIOUS
  <2>4. Vanishes(2)
    BY <2>2, <2>3, NoZeroDivisors, Zenon
  <2>5. QED
    BY <2>4, TwoIsNotZero
<1>11. QED
  BY <1>1, <1>2, <1>3, <1>8, <1>9, <1>10

=============================================================================
