---------------------------- MODULE SaplingValue ----------------------------
(***************************************************************************)
(* Note values, their sums and their commitments (src/src/value.rs and     *)
(* src/src/value/sums.rs).                                                 *)
(*                                                                         *)
(* The three integer widths of the code are scaled together: I64Max stands *)
(* for i64::MAX, and the ranges of u64 and i128 follow from it the way     *)
(* they do in the code (u64 has one bit more of magnitude, i128 twice the  *)
(* width).  Jubjub points are linear combinations of the value generator   *)
(* and the randomness generator: a commitment is its pair of coefficients. *)
(***************************************************************************)
EXTENDS Integers, Sequences, Functions

CONSTANT I64Max

ASSUME I64MaxAssumption == I64Max \in Nat \ {0}

I64Min == -I64Max - 1
I64 == I64Min .. I64Max
U64Max == 2 * I64Max + 1
U64 == 0 .. U64Max
I128Max == 2 * (I64Max + 1) * (I64Max + 1) - 1
I128 == -I128Max - 1 .. I128Max

-----------------------------------------------------------------------------
(* ValueSum: every partial sum of a try_fold of checked_add or checked_sub  *)
(* must fit an i128.                                                        *)

NegateAll(vals) == [i \in DOMAIN vals |-> -vals[i]]

TotalOf(vals) == SumFunction(vals)

PartialSumsFit(vals) ==
  \A n \in 1 .. Len(vals) : SumFunctionOnSet(vals, 1 .. n) \in I128

-----------------------------------------------------------------------------
(* Value commitments and their sums.                                        *)

\* ValueCommitment::derive
Derive(value, rcv) == [v |-> value, r |-> rcv]

\* TrapdoorSum over a sequence of ValueCommitTrapdoor
TrapdoorSum(rcvs) == SumFunction(rcvs)

\* CommitmentSum over a sequence of ValueCommitment
CommitmentSum(cvs) ==
  [v |-> SumFunction([i \in DOMAIN cvs |-> cvs[i].v]),
   r |-> SumFunction([i \in DOMAIN cvs |-> cvs[i].r])]

\* Sub<CommitmentSum> for CommitmentSum
CommitmentDiff(a, b) == [v |-> a.v - b.v, r |-> a.r - b.r]

\* A variant that wraps at the least i64, as i64::wrapping_abs does.
AbsValueWrapping(value) ==
  IF value = I64Min THEN I64Min ELSE IF value < 0 THEN -value ELSE value

\* The absolute value taken by into_bvk: i64::checked_abs has no result for
\* the least i64, whose magnitude is then written out as a u64.
AbsValue(value) ==
  IF value = I64Min THEN I64Max + 1 ELSE IF value < 0 THEN -value ELSE value

\* CommitmentSum::into_bvk
IntoBvk(cvSum, valueBalance) ==
  LET magnitude == AbsValue(valueBalance)
      signed == IF valueBalance < 0 THEN -magnitude ELSE magnitude
  IN  [cvSum EXCEPT !.v = @ - signed]

\* redjubjub::VerificationKey::from(&bsk): the base of binding signatures is
\* the randomness generator.
BindingVk(bsk) == [v |-> 0, r |-> bsk]

=============================================================================
