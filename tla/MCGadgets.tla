--------------------------- MODULE MCGadgets ---------------------------
(***************************************************************************)
(* A curve of 8 * 2203 points over the field of 17401 elements, with three *)
(* chunks in a segment: 4 (1 + 16 + 256) is below half the group order, as *)
(* 63 chunks are on Jubjub.                                                *)
(***************************************************************************)
EXTENDS Gadgets

MCZ == [u |-> 8, v |-> 6363]     \* generates the whole curve
MCGenerator(p) == group_hash(<<p>>)[1]
MCPedersenHashGenerators ==
    <<MCGenerator(MCZ), MCGenerator([u |-> 10, v |-> 4691]),
      MCGenerator([u |-> 13, v |-> 2367])>>

MCBits(lengths) == UNION {[1..n -> Bit] : n \in lengths}
MCScalars == {BitsLE(k, 12) : k \in {0, 1000, R_J - 1, R_J, R_J + 1, 4095}}

MCMulInputs ==
    {Times(k, MCZ) : k \in {R_J * j : j \in 0..7} \cup {1, 8, 13}}
        \X (MCBits(0..3) \cup MCScalars)
MCFixedInputs ==
    {MCGenerator(MCZ)} \X (MCBits(0..5) \cup MCScalars \cup {BitsLE(8191, 13)})

MCPersonalizations ==
    {<<"NoteCommitment">>} \cup {<<"MerkleTree", n>> : n \in {0, 1, 62, 63}}
MCHashInputs ==
    MCPersonalizations \X (MCBits(0..4) \cup {BitsLE(12345, 17), BitsLE(1, 21), BitsLE(1, 22)})

MCMontgomeryInputs ==
    {<<MCZ, Times(k, MCZ)>> : k \in {1, 2, 3, 8 * R_J - 1, 4 * R_J - 1}}
        \cup {<<Times(4 * R_J, MCZ), MCZ>>, <<Times(R_J, MCZ), Times(2 * R_J, MCZ)>>}
MCWitnessInputs ==
    {Times(k, MCZ) : k \in {R_J * j : j \in 0..7} \cup 1..16 \cup {R_J * j + 8 : j \in 1..7}}
        \cup {[u |-> 1, v |-> v] : v \in 1..50}
MCGroupHashInputs ==
    {<<>>} \cup {<<Times(k, MCZ)>> : k \in {R_J * j : j \in 0..7} \cup 1..20}
=======================================================================
