---------------------------- MODULE Gadgets ----------------------------
(***************************************************************************)
(* The synthesis of the gadgets that loop or compose others, step by step: *)
(* EdwardsPoint::mul, fixed_base_multiplication, the circuit's             *)
(* pedersen_hash, a Montgomery addition converted to Edwards form, and the *)
(* check against points of small order.  At every step the variables the   *)
(* gadget allocates may take any values that satisfy its constraints.      *)
(***************************************************************************)
EXTENDS PedersenHash

CONSTANTS MulInputs,        \* pairs <<base, by>>: a point, and bits
          FixedInputs,      \* pairs <<generator, by>>
          HashInputs,       \* pairs <<personalization, message>>
          MontgomeryInputs, \* pairs of points other than the neutral element
          WitnessInputs,    \* points a prover may witness
          GroupHashInputs   \* Option: the point a digest encodes

\* The inputs are what the types of the code admit: points of the curve and bits,
\* field elements where a prover witnesses, and a curve of order 8 R_J.
ASSUME InputAssumption ==
    /\ MulInputs \subseteq Points \X Seq(Bit)
    /\ FixedInputs \subseteq Points \X Seq(Bit)
    /\ HashInputs \subseteq Personalizations \X Seq(Bit)
    /\ MontgomeryInputs \subseteq (Points \ {Identity}) \X (Points \ {Identity})
    /\ \A p \in WitnessInputs :
          /\ p \in [u : Field, v : Field]
          /\ OnCurve(p) => Times(8 * R_J, p) = Identity
    /\ \A h \in GroupHashInputs :
          h # <<>> => h[1] \in Points /\ Times(8 * R_J, h[1]) = Identity

VARIABLES job,        \* the gadget and its inputs
          status,     \* "synthesizing", "done", or how the synthesis failed
          i,          \* bits consumed
          curbase,    \* Option: mul's current power of the base
          result,     \* Option: the result so far, in Edwards form
          segment     \* Option: the segment's result so far, in Montgomery form
vars == <<job, status, i, curbase, result, segment>>

FIXED_BASE_WINDOWS ==
    [g \in {input[1] : input \in FixedInputs} |-> generate_circuit_generator(g)]
PEDERSEN_CIRCUIT_GENERATORS == generate_pedersen_circuit_generators

Jobs ==
    [gadget : {"mul"}, input : MulInputs]
        \cup [gadget : {"fixed_base"}, input : FixedInputs]
        \cup [gadget : {"pedersen_hash"}, input : HashInputs]
        \cup [gadget : {"montgomery"}, input : MontgomeryInputs]
        \cup [gadget : {"small_order"}, input : WitnessInputs]
        \cup [gadget : {"group_hash"}, input : GroupHashInputs]

\* The Montgomery form of a point, as interpret_unchecked gets it.
Montgomery(p) == to_montgomery_coords(p)[1]

Init ==
    /\ job \in Jobs
    /\ status = "synthesizing" /\ i = 0
    /\ curbase = <<>> /\ result = <<>>
    /\ segment = IF job.gadget = "montgomery" THEN <<Montgomery(job.input[1])>> ELSE <<>>

Running(gadget) == status = "synthesizing" /\ job.gadget = gadget
Bits ==
    IF job.gadget = "pedersen_hash" THEN get_bits(job.input[1]) \o job.input[2]
    ELSE IF job.gadget \in {"mul", "fixed_base"} THEN job.input[2] ELSE <<>>

\* `result.get()`, `edwards_result.unwrap()`: the loop is over
Return == status' = IF result = <<>> THEN "AssignmentMissing" ELSE "done"

(***************************************************************************)
(* EdwardsPoint::mul                                                       *)
(***************************************************************************)
MulBases == IF curbase = <<>> THEN {job.input[1]} ELSE double(curbase[1]).outputs
MulBit ==
    /\ Running("mul") /\ i < Len(Bits)
    /\ \E b \in MulBases :
          LET thisbase == conditionally_select(b, Bits[i + 1])
          IN  \E r \in (IF result = <<>> THEN {thisbase}
                        ELSE add(result[1], thisbase).outputs) :
                 curbase' = <<b>> /\ result' = <<r>>
    /\ i' = i + 1
    /\ UNCHANGED <<job, status, segment>>
MulReturns ==
    /\ Running("mul") /\ i = Len(Bits)
    /\ Return
    /\ UNCHANGED <<job, i, curbase, result, segment>>

(***************************************************************************)
(* fixed_base_multiplication: `zip` ends with the shorter of the two.      *)
(***************************************************************************)
FixedBaseEnd == i >= Len(Bits) \/ i \div 3 >= FIXED_BASE_CHUNKS_PER_GENERATOR
FixedBaseEntry ==
    lookup3_xy(Chunk(Bits, i + 1), FIXED_BASE_WINDOWS[job.input[1]][i \div 3 + 1])
FixedBaseChunk ==
    /\ Running("fixed_base") /\ ~FixedBaseEnd
    /\ \E r \in (IF result = <<>> THEN {FixedBaseEntry}
                 ELSE add(result[1], FixedBaseEntry).outputs) :
          result' = <<r>>
    /\ i' = i + 3
    /\ UNCHANGED <<job, status, curbase, segment>>
FixedBaseReturns ==
    /\ Running("fixed_base") /\ FixedBaseEnd
    /\ Return
    /\ UNCHANGED <<job, i, curbase, result, segment>>

(***************************************************************************)
(* circuit/pedersen_hash.rs: get_bits asserts num < 63, and a segment      *)
(* without a generator panics.                                             *)
(***************************************************************************)
SegmentIndex == i \div SegmentBits + 1
SegmentEnds == i > 0 /\ (i >= Len(Bits) \/ i % SegmentBits = 0)
HashPanics ==
    /\ Running("pedersen_hash") /\ segment = <<>>
    /\ \/ ~Asserted(job.input[1])
       \/ i < Len(Bits) /\ SegmentIndex \notin Segments
    /\ status' = "panic"
    /\ UNCHANGED <<job, i, curbase, result, segment>>

HashEntry ==
    lookup3_xy_with_conditional_negation(Chunk(Bits, i + 1),
        PEDERSEN_CIRCUIT_GENERATORS[SegmentIndex][(i % SegmentBits) \div 3 + 1])
HashWindow ==
    /\ Running("pedersen_hash") /\ Asserted(job.input[1])
    /\ i < Len(Bits) /\ (segment = <<>> \/ ~SegmentEnds) /\ SegmentIndex \in Segments
    /\ \E s \in (IF segment = <<>> THEN {HashEntry}
                 ELSE montgomery_add(HashEntry, segment[1]).outputs) :
          segment' = <<s>>
    /\ i' = i + 3
    /\ UNCHANGED <<job, status, curbase, result>>

HashSegment ==
    /\ Running("pedersen_hash") /\ segment # <<>> /\ SegmentEnds
    /\ \E e \in into_edwards(segment[1]).outputs :
          \E r \in (IF result = <<>> THEN {e} ELSE add(e, result[1]).outputs) :
             result' = <<r>>
    /\ segment' = <<>>
    /\ UNCHANGED <<job, status, i, curbase>>

HashReturns ==
    /\ Running("pedersen_hash") /\ i >= Len(Bits) /\ segment = <<>>
    /\ Return
    /\ UNCHANGED <<job, i, curbase, result, segment>>

(***************************************************************************)
(* Montgomery points the caller built: an addition, then the conversion.   *)
(***************************************************************************)
MontgomeryAdds ==
    /\ Running("montgomery") /\ i = 0
    /\ \E s \in montgomery_add(segment[1], Montgomery(job.input[2])).outputs :
          segment' = <<s>>
    /\ i' = 1
    /\ UNCHANGED <<job, status, curbase, result>>
MontgomeryConverts ==
    /\ Running("montgomery") /\ i = 1
    /\ \E e \in into_edwards(segment[1]).outputs : result' = <<e>>
    /\ status' = "done"
    /\ UNCHANGED <<job, i, curbase, segment>>

(***************************************************************************)
(* EdwardsPoint::witness, then assert_not_small_order                      *)
(***************************************************************************)
SmallOrderCheck ==
    /\ Running("small_order")
    /\ status' = IF interpret(job.input) /\ assert_not_small_order(job.input)
                 THEN "done" ELSE "unsatisfied"
    /\ UNCHANGED <<job, i, curbase, result, segment>>

\* g_d of an address: a point group_hash returns, which the circuits then check
GroupHash ==
    /\ Running("group_hash")
    /\ result' = group_hash(job.input)
    /\ IF result' = <<>>
       THEN status' = "None" /\ UNCHANGED job
       ELSE job' = [gadget |-> "small_order", input |-> result'[1]] /\ UNCHANGED status
    /\ UNCHANGED <<i, curbase, segment>>

(***************************************************************************)
(* The next step of a Montgomery job that no assignment satisfies, and the *)
(* prover's own witness where a denominator is zero.                       *)
(***************************************************************************)
NextMontgomery ==
    IF i = 0 THEN montgomery_add(segment[1], Montgomery(job.input[2]))
    ELSE into_edwards(segment[1])
Unsatisfiable ==
    /\ Running("montgomery") /\ NextMontgomery.outputs = {}
    /\ status' = "unsatisfied"
    /\ UNCHANGED <<job, i, curbase, result, segment>>

\* the gadgets whose witnesses the next step of each loop computes ...
MulGadgets ==
    IF job.gadget # "mul" \/ i \notin 1..(Len(Bits) - 1) THEN {}
    ELSE {double(curbase[1])}
            \cup {add(result[1], conditionally_select(b, Bits[i + 1])) : b \in MulBases}
FixedBaseGadgets ==
    IF job.gadget # "fixed_base" \/ FixedBaseEnd \/ result = <<>> THEN {}
    ELSE {add(result[1], FixedBaseEntry)}
HashGadgets ==
    IF job.gadget # "pedersen_hash" \/ segment = <<>> THEN {}
    ELSE IF ~SegmentEnds THEN {montgomery_add(HashEntry, segment[1])}
    ELSE {into_edwards(segment[1])}
            \cup {add(e, r) : e \in into_edwards(segment[1]).outputs,
                             r \in {result[n] : n \in DOMAIN result}}

\* ... and the check's three doublings and the inverse in assert_nonzero (bellman)
SmallOrderGadgets ==
    LET Doubled(S) == UNION {double(q).outputs : q \in S}
        first == Doubled({job.input})
        second == Doubled(first)
    IN  IF job.gadget # "small_order" THEN {}
        ELSE {double(q) : q \in {job.input} \cup first \cup second}
                \cup {Gadget({}, {q.u}) : q \in Doubled(second)}
MontgomeryGadgets == IF job.gadget = "montgomery" THEN {NextMontgomery} ELSE {}

WitnessFails ==
    /\ status = "synthesizing"
    /\ \E g \in MulGadgets \cup FixedBaseGadgets \cup HashGadgets
                 \cup SmallOrderGadgets \cup MontgomeryGadgets : 0 \in g.denominators
    /\ status' = "DivisionByZero"
    /\ UNCHANGED <<job, i, curbase, result, segment>>

Next ==
    \/ MulBit \/ MulReturns
    \/ FixedBaseChunk \/ FixedBaseReturns
    \/ HashPanics \/ HashWindow \/ HashSegment \/ HashReturns
    \/ MontgomeryAdds \/ MontgomeryConverts
    \/ SmallOrderCheck \/ GroupHash
    \/ Unsatisfiable \/ WitnessFails

Spec == Init /\ [][Next]_vars

-----------------------------------------------------------------------
(***************************************************************************)
(* Properties                                                              *)
(***************************************************************************)
Prefix(bits, n) == SubSeq(bits, 1, IF n < Len(bits) THEN n ELSE Len(bits))

\* What the loops have computed after i bits: mul holds [2^(i-1)] base and the
\* multiple of the base that the bits read so far spell, the fixed-base loop the
\* same from its tables, whatever satisfying assignment was made.  Neither the
\* base's cofactor component nor a scalar above the group order disturbs it.
MultiplesAreExact ==
    /\ (job.gadget = "mul" /\ i > 0) =>
          /\ curbase = <<Times(Pow(2, i - 1), job.input[1])>>
          /\ result = <<Times(Value(Prefix(Bits, i)), job.input[1])>>
    /\ (job.gadget = "fixed_base" /\ result # <<>>) =>
          result = <<Times(Value(Prefix(Bits, i)), job.input[1])>>

\* The hash the circuit constrains is the hash the rest of the crate computes:
\* for every assignment that satisfies the constraints, and for the panics on
\* too many bits and on a level the personalization cannot hold.
CircuitHashIsNative ==
    job.gadget = "pedersen_hash" =>
        LET native == pedersen_hash(job.input[1], job.input[2])
        IN  /\ status = "done" => result = native
            /\ status = "panic" => native = <<>>
            /\ status \in {"synthesizing", "done", "panic"}

\* Incomplete addition is never met: the constraints determine the result of
\* every gadget and the prover can compute it, except for two Montgomery points
\* with the same x-coordinate and the point of order two, as ecc.rs documents.
ExceptionsAreDocumented ==
    /\ status \in {"DivisionByZero", "unsatisfied"} =>
          \/ job.gadget = "small_order"
          \/ /\ job.gadget = "montgomery"
             /\ \/ job.input[1].v = job.input[2].v
                \/ Plus(job.input[1], job.input[2]) = [u |-> 0, v |-> Q - 1]
    /\ (job.gadget = "montgomery" /\ status = "done") =>
          \/ result = <<Plus(job.input[1], job.input[2])>>
          \/ job.input[1].v = job.input[2].v
          \/ Plus(job.input[1], job.input[2]) = [u |-> 0, v |-> Q - 1]

\* The check on a witnessed point (g_d of a spend or an output, ak) rejects the
\* points of small order and no other point of the curve, whose doublings all have
\* a witness, so that a point which group_hash returned always passes.
SmallOrderIsExact ==
    job.gadget = "small_order" =>
        /\ status = "done" => ~IsSmallOrder(job.input) /\ OnCurve(job.input)
        /\ status \in {"unsatisfied", "DivisionByZero"} =>
              /\ IsSmallOrder(job.input) \/ ~OnCurve(job.input)
              /\ result = <<>>

\* The gadgets that multiply a point and the one that bounds its order are exact.
PointGadgetsAreExact == MultiplesAreExact /\ SmallOrderIsExact

\* Within a segment the hash is injective even in its u-coordinate alone, which
\* is all that a note commitment or a tree node keeps: chunks do not overlap and
\* no two encodings are equal or opposite.
SegmentsAreInjective ==
    (job.gadget = "pedersen_hash" /\ status = "done" /\ Len(Bits) <= SegmentBits) =>
        \A other \in HashInputs :
            (/\ Len(other[2]) = Len(job.input[2])
             /\ Asserted(other[1])
             /\ other # job.input)
                => pedersen_hash(other[1], other[2])[1].u # result[1].u

=======================================================================
