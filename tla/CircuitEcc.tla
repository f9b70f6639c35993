------------------------- MODULE CircuitEcc -------------------------
(***************************************************************************)
(* circuit/ecc.rs and the window tables of circuit/constants.rs: the       *)
(* gadgets for points of the curve.  A gadget is what its constraints say: *)
(* the set of outputs that some assignment of the variables it allocates   *)
(* satisfies, and the denominators by which the prover's own witness is    *)
(* computed (a zero one is SynthesisError::DivisionByZero).  Proofs bind   *)
(* whoever makes them only as far as the constraints do, so a user of a    *)
(* gadget may get any of its outputs, not only the one the code computes.  *)
(***************************************************************************)
EXTENDS Jubjub

CONSTANT FIXED_BASE_CHUNKS_PER_GENERATOR

\* A count: how many the code has does not matter to fixed_base_multiplication.
ASSUME ChunksAssumption == FIXED_BASE_CHUNKS_PER_GENERATOR \in Nat

MONTGOMERY_A == (2 \odot ((Q - 1) \oplus EDWARDS_D)) \oslash ((Q - 1) \ominus EDWARDS_D)
MONTGOMERY_SCALE ==
    CHOOSE s \in Field : s \odot s = 4 \oslash ((Q - 1) \ominus EDWARDS_D)

\* the Montgomery form exists: -(1 + d) is a square
ASSUME MontgomeryAssumption ==
    \E s \in Field : s \odot s = 4 \oslash ((Q - 1) \ominus EDWARDS_D)

\* enforce(d * x = n): the x that satisfy it
Solve(d, n) ==
    IF d # 0 THEN {n \oslash d} ELSE IF n = 0 THEN Field ELSE {}

Gadget(outputs, denominators) == [outputs |-> outputs, denominators |-> denominators]

(***************************************************************************)
(* EdwardsPoint                                                            *)
(***************************************************************************)
\* EdwardsPoint::interpret, and witness on fresh variables u and v
interpret(p) ==
    LET u2 == p.u \odot p.u
        v2 == p.v \odot p.v
    IN  v2 \ominus u2 = 1 \oplus (EDWARDS_D \odot (u2 \odot v2))

conditionally_select(p, condition) ==
    [u |-> condition \odot p.u, v |-> (condition \odot p.v) \oplus (1 - condition)]

double(p) ==
    LET T == (p.u \oplus p.v) \odot (p.u \oplus p.v)
        A == p.u \odot p.v
        C == EDWARDS_D \odot (A \odot A)
    IN  Gadget([u : Solve(1 \oplus C, 2 \odot A), v : Solve(1 \ominus C, T \ominus (2 \odot A))],
               {1 \oplus C, 1 \ominus C})

add(p, q) ==
    LET U == (p.u \oplus p.v) \odot (q.u \oplus q.v)
        A == q.v \odot p.u
        B == q.u \odot p.v
        C == EDWARDS_D \odot (A \odot B)
    IN  Gadget([u : Solve(1 \oplus C, A \oplus B),
                v : Solve(1 \ominus C, (U \ominus A) \ominus B)],
               {1 \oplus C, 1 \ominus C})

\* three doublings, then u must have an inverse
assert_not_small_order(p) ==
    \E d1 \in double(p).outputs : \E d2 \in double(d1).outputs :
        \E d3 \in double(d2).outputs : d3.u # 0

\* group_hash.rs group_hash, from the point that the BLAKE2s digest encodes
\* (none if it encodes no point): the cofactor is cleared, the identity refused.
group_hash(h) ==
    IF h = <<>> THEN <<>>
    ELSE LET p == Times(8, h[1]) IN IF p = Identity THEN <<>> ELSE <<p>>

(***************************************************************************)
(* MontgomeryPoint                                                         *)
(***************************************************************************)
into_edwards(m) ==
    Gadget([u : Solve(m.y, m.x \odot MONTGOMERY_SCALE),
            v : Solve(m.x \oplus 1, m.x \ominus 1)],
           {m.y, m.x \oplus 1})

\* A variant that keeps the sign of y.
montgomery_add_unnegated(m, n) ==
    LET xprime(lambda) ==
            (((lambda \odot lambda) \ominus MONTGOMERY_A) \ominus m.x) \ominus n.x
    IN  Gadget({[x |-> xprime(lambda),
                 y |-> ((xprime(lambda) \ominus m.x) \odot lambda) \oplus m.y] :
                    lambda \in Solve(n.x \ominus m.x, n.y \ominus m.y)},
               {n.x \ominus m.x})
montgomery_add(m, n) ==
    LET xprime(lambda) ==
            (((lambda \odot lambda) \ominus MONTGOMERY_A) \ominus m.x) \ominus n.x
        yprime(lambda) ==
            ((m.x \ominus xprime(lambda)) \odot lambda) \ominus m.y
    IN  Gadget({[x |-> xprime(lambda), y |-> yprime(lambda)] :
                    lambda \in Solve(n.x \ominus m.x, n.y \ominus m.y)},
               {n.x \ominus m.x})

\* circuit/constants.rs to_montgomery_coords: None at the neutral element
to_montgomery_coords(p) ==
    IF p.v = 1 THEN <<>>
    ELSE IF p.u = 0 THEN <<[x |-> 0, y |-> 0]>>
    ELSE LET x == (1 \oplus p.v) \oslash (1 \ominus p.v)
         IN  <<[x |-> x, y |-> (x \oslash p.u) \odot MONTGOMERY_SCALE]>>

(***************************************************************************)
(* Window tables and the lookups in them (bellman::gadgets::lookup)        *)
(***************************************************************************)
Pow(b, n) == LET p[k \in 0..n] == IF k = 0 THEN 1 ELSE b * p[k - 1] IN p[n]

\* A variant whose next window starts from the last entry of this one.
generator_from_last_entry(gen) ==
    [j \in 1..FIXED_BASE_CHUNKS_PER_GENERATOR |->
        [k \in 0..7 |-> Times(k * Pow(7, j - 1), gen)]]
\* window j of a generator holds [0], [1], ... [7] times [8^(j-1)] gen
generate_circuit_generator(gen) ==
    [j \in 1..FIXED_BASE_CHUNKS_PER_GENERATOR |->
        [k \in 0..7 |-> Times(k * Pow(8, j - 1), gen)]]

lookup3_xy(bits, coords) == coords[Value(bits)]

lookup3_xy_with_conditional_negation(bits, coords) ==
    LET m == coords[bits[1] + 2 * bits[2] + 1]
    IN  IF bits[3] = 1 THEN [m EXCEPT !.y = 0 \ominus @] ELSE m

\* `by.chunks(3)`: the three bits from the i-th on, false past the end
Chunk(by, i) == [k \in 1..3 |-> IF i + k - 1 <= Len(by) THEN by[i + k - 1] ELSE 0]
=======================================================================
