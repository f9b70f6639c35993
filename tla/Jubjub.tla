---------------------------- MODULE Jubjub ----------------------------
(***************************************************************************)
(* The curve the crate computes on, as the jubjub crate provides it        *)
(* (external): a twisted Edwards curve -u^2 + v^2 = 1 + d u^2 v^2 over the *)
(* integers modulo the prime Q, with 8 R_J points, R_J prime.  The checked *)
(* instance is a small curve with the properties of Jubjub that the code   *)
(* relies on: -1 is a square, d is not, and (1 + d) is, so that addition   *)
(* has no exceptions and the curve has a scaled Montgomery form.           *)
(***************************************************************************)
EXTENDS Integers, Sequences

CONSTANTS Q,         \* bls12_381::Scalar::MODULUS, the field of the coordinates
          R_J,       \* jubjub::Fr::MODULUS, the order of the subgroup
          EDWARDS_D  \* circuit/constants.rs EDWARDS_D

ASSUME CurveAssumption ==
    /\ Q \in Nat /\ \A n \in 2..(Q - 1) : Q % n # 0
    /\ R_J \in Nat /\ R_J > 4 /\ \A n \in 2..(R_J - 1) : R_J % n # 0
    /\ EDWARDS_D \in 1..(Q - 1)
    /\ \A x \in 0..(Q - 1) : (x * x) % Q # EDWARDS_D
    /\ \E x \in 0..(Q - 1) : (x * x) % Q = Q - 1

Field == 0..(Q - 1)
x \oplus y == (x + y) % Q
x \ominus y == (x - y) % Q
x \odot y == (x * y) % Q
Invert[x \in 1..(Q - 1)] ==
    IF x = 1 THEN 1 ELSE ((Q - Q \div x) * Invert[Q % x]) % Q
x \oslash y == x \odot Invert[y]

Bit == {0, 1}

\* little-endian bits and the number they stand for
BitsLE(x, n) == [i \in 1..n |-> (x \div (2^(i - 1))) % 2]
Value(bits) ==
    LET val[i \in 0..Len(bits)] ==
            IF i = Len(bits) THEN 0 ELSE bits[i + 1] + 2 * val[i + 1]
    IN  val[0]

Identity == [u |-> 0, v |-> 1]
Negate(p) == [p EXCEPT !.u = 0 \ominus @]

OnCurve(p) ==
    (p.v \odot p.v) \ominus (p.u \odot p.u)
        = 1 \oplus (EDWARDS_D \odot ((p.u \odot p.u) \odot (p.v \odot p.v)))

Points == {p \in [u : Field, v : Field] : OnCurve(p)}

\* jubjub's complete addition law
Plus(p, q) ==
    LET uv == p.u \odot q.v
        vu == p.v \odot q.u
        c  == EDWARDS_D \odot (uv \odot vu)
    IN  [u |-> (uv \oplus vu) \oslash (1 \oplus c),
         v |-> ((p.v \odot q.v) \oplus (p.u \odot q.u)) \oslash (1 \ominus c)]

\* [k] p
Times(k, p) ==
    LET m[n \in 0..k] ==
            IF n = 0 THEN Identity
            ELSE LET h == m[n \div 2]
                 IN  IF n % 2 = 0 THEN Plus(h, h) ELSE Plus(Plus(h, h), p)
    IN  m[k]

\* t[1] + ... + t[n]
PointSum(n, t) ==
    LET s[k \in 0..n] == IF k = 0 THEN Identity ELSE Plus(s[k - 1], t[k])
    IN  s[n]

IsSmallOrder(p) == Times(8, p) = Identity
=======================================================================
