------------------------ MODULE PedersenHash ------------------------
(***************************************************************************)
(* pedersen_hash.rs, the exponentiation tables of constants.rs it reads    *)
(* and the window tables circuit/constants.rs gives its circuit twin.      *)
(***************************************************************************)
EXTENDS CircuitEcc

CONSTANTS PEDERSEN_HASH_GENERATORS,           \* one point per segment
          PEDERSEN_HASH_CHUNKS_PER_GENERATOR,
          PEDERSEN_HASH_EXP_WINDOW_SIZE,
          FR_NUM_BITS                         \* jubjub::Fr::NUM_BITS

PERSONALIZATION_BITS == 6
Segments == 1..Len(PEDERSEN_HASH_GENERATORS)
SegmentBits == 3 * PEDERSEN_HASH_CHUNKS_PER_GENERATOR

\* The generators have the order of the subgroup, a segment's scalars stay below
\* half of it, and the windows of the tables cover a scalar.
ASSUME PedersenAssumption ==
    /\ PEDERSEN_HASH_GENERATORS \in Seq(Points)
    /\ \A s \in 1..Len(PEDERSEN_HASH_GENERATORS) :
          /\ PEDERSEN_HASH_GENERATORS[s] # Identity
          /\ Times(R_J, PEDERSEN_HASH_GENERATORS[s]) = Identity
    /\ PEDERSEN_HASH_CHUNKS_PER_GENERATOR \in Nat \ {0}
    /\ 8 * (Pow(16, PEDERSEN_HASH_CHUNKS_PER_GENERATOR) - 1) < 15 * R_J
    /\ PEDERSEN_HASH_EXP_WINDOW_SIZE \in Nat \ {0}
    /\ FR_NUM_BITS \in Nat /\ R_J <= Pow(2, FR_NUM_BITS)

(***************************************************************************)
(* Personalization: <<"NoteCommitment">> or <<"MerkleTree", num>>          *)
(***************************************************************************)
Personalizations == {<<"NoteCommitment">>} \cup ({"MerkleTree"} \X Nat)
get_bits(person) ==
    IF person[1] = "NoteCommitment" THEN [i \in 1..PERSONALIZATION_BITS |-> 1]
    ELSE BitsLE(person[2], PERSONALIZATION_BITS)
\* A variant without the assertion.
NothingAsserted(person) == TRUE
\* assert!(num < 63)
Asserted(person) == person[1] = "MerkleTree" => person[2] < 63

\* The part of the bits that segment s hashes.
SegmentOf(bits, s) ==
    SubSeq(bits, (s - 1) * SegmentBits + 1,
           IF s * SegmentBits < Len(bits) THEN s * SegmentBits ELSE Len(bits))
SegmentCount(bits) == (Len(bits) + SegmentBits - 1) \div SegmentBits

\* (1 + a + 2 b), negated by c, at the weight of the j-th chunk of its segment
ChunkScalar(bits, j) ==
    LET c == Chunk(bits, 3 * j - 2)
        cur == Pow(16, j - 1)
        tmp == cur + c[1] * cur + c[2] * 2 * cur
    IN  IF c[3] = 1 THEN -tmp ELSE tmp
SegmentScalar(bits) ==
    LET acc[j \in 0..((Len(bits) + 2) \div 3)] ==
            IF j = 0 THEN 0 ELSE (acc[j - 1] + ChunkScalar(bits, j)) % R_J
    IN  acc[(Len(bits) + 2) \div 3]

\* constants.rs: table j of a generator holds the multiples of [2^(w(j-1))] g,
\* for as long as the bits covered do not exceed those of a scalar
generate_pedersen_hash_exp_table(g) ==
    [j \in 1..(FR_NUM_BITS \div PEDERSEN_HASH_EXP_WINDOW_SIZE + 1) |->
        [k \in 0..(Pow(2, PEDERSEN_HASH_EXP_WINDOW_SIZE) - 1) |->
            Times(k * Pow(2, PEDERSEN_HASH_EXP_WINDOW_SIZE * (j - 1)), g)]]
PEDERSEN_HASH_EXP_TABLE ==
    [s \in Segments |-> generate_pedersen_hash_exp_table(PEDERSEN_HASH_GENERATORS[s])]

\* A variant that stops at the last window that is full.
FullWindowsRead == FR_NUM_BITS \div PEDERSEN_HASH_EXP_WINDOW_SIZE
\* the windows of `acc`, each looked up in its table
WindowsRead ==
    (FR_NUM_BITS + PEDERSEN_HASH_EXP_WINDOW_SIZE - 1) \div PEDERSEN_HASH_EXP_WINDOW_SIZE
Exponentiate(acc, s) ==
    LET size == Pow(2, PEDERSEN_HASH_EXP_WINDOW_SIZE)
    IN  PointSum(WindowsRead,
                 [j \in 1..WindowsRead |->
                     PEDERSEN_HASH_EXP_TABLE[s][j][(acc \div Pow(size, j - 1)) % size]])

\* pedersen_hash, or <<>> where it panics: the assertion on the personalization,
\* and more bits than there are generators for
pedersen_hash(person, message) ==
    LET bits == get_bits(person) \o message
        n == SegmentCount(bits)
    IN  IF ~Asserted(person) \/ n > Len(PEDERSEN_HASH_GENERATORS) THEN <<>>
        ELSE <<PointSum(n, [s \in 1..n |->
                    Exponentiate(SegmentScalar(SegmentOf(bits, s)), s)])>>

(***************************************************************************)
(* circuit/constants.rs: [1], [2], [3], [4] times [16^(j-1)] of the        *)
(* segment's generator, in Montgomery form; none is the point at infinity. *)
(***************************************************************************)
generate_pedersen_circuit_generators ==
    [s \in Segments |->
        [j \in 1..PEDERSEN_HASH_CHUNKS_PER_GENERATOR |->
            [k \in 1..4 |->
                to_montgomery_coords(
                    Times(k * Pow(16, j - 1), PEDERSEN_HASH_GENERATORS[s]))[1]]]]
=======================================================================
