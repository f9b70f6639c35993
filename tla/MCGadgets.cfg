CONSTANTS
    Q = 17401
    R_J = 2203
    EDWARDS_D = 44
    FIXED_BASE_CHUNKS_PER_GENERATOR = 4
    PEDERSEN_HASH_GENERATORS <- MCPedersenHashGenerators
    PEDERSEN_HASH_CHUNKS_PER_GENERATOR = 3
    PEDERSEN_HASH_EXP_WINDOW_SIZE = 5
    FR_NUM_BITS = 12
    MulInputs <- MCMulInputs
    FixedInputs <- MCFixedInputs
    HashInputs <- MCHashInputs
    MontgomeryInputs <- MCMontgomeryInputs
    WitnessInputs <- MCWitnessInputs
    GroupHashInputs <- MCGroupHashInputs
SPECIFICATION Spec
INVARIANTS
    PointGadgetsAreExact
    CircuitHashIsNative
    ExceptionsAreDocumented
    SegmentsAreInjective
CHECK_DEADLOCK FALSE
