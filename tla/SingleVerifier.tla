--------------------------- MODULE SingleVerifier ---------------------------
(***************************************************************************)
(* SaplingVerificationContext of src/src/verifier/single.rs.  The context  *)
(* holds nothing but a running sum of value commitments: which             *)
(* descriptions to check, in what order and what to do with a refusal is   *)
(* up to its caller, which here may check them in any order, leave some    *)
(* out, check some twice, and go on after a refusal.                       *)
(***************************************************************************)
EXTENDS VerifierRules

CONSTANT
  MaxChecks  \* bound on the checks made with one context

VARIABLES
  bundle,            \* what the caller verifies
  sighash_value,     \* and for which transaction
  cv_sum,            \* the context: net sum of the commitments seen
  checked,           \* history: how often each description was checked
  passed,            \* have all checks so far returned true
  final              \* what final_check returned last: "none", "true" or "false"

contextVars == <<bundle, sighash_value, cv_sum, checked, passed, final>>

\* The descriptions of the bundle, by kind and position
Descriptions ==
  {"spend"} \X (DOMAIN bundle.spends) \cup {"output"} \X (DOMAIN bundle.outputs)

CheckCount == SumFunction(checked)

ContextInit ==
  /\ bundle \in Bundles
  /\ sighash_value \in SighashValues
  /\ cv_sum = [v |-> 0, r |-> 0]
  /\ checked = [d \in Descriptions |-> 0]
  /\ passed = TRUE
  /\ final = "none"

Checked(d) ==
  /\ CheckCount < MaxChecks
  /\ checked' = [checked EXCEPT ![d] = @ + 1]
  /\ UNCHANGED <<bundle, sighash_value, final>>

\* A variant that keeps the last commitment only.
AddCvLast(cv) == cv

\* cv_sum += cv and cv_sum -= cv
AddCv(cv) == [v |-> cv_sum.v + cv.v, r |-> cv_sum.r + cv.r]
SubCv(cv) == CommitmentDiff(cv_sum, cv)

\* A variant that does not verify the spend authorization signature.
SpendPassesUnsigned(s) ==
  s.rk \notin SmallOrder /\ ProofVerifies(s.zkproof, SpendStatement(s))

SpendPasses(s) ==
  /\ s.rk \notin SmallOrder
  /\ SignatureVerifies(s.rk, sighash_value, s.sig)
  /\ ProofVerifies(s.zkproof, SpendStatement(s))

\* check_spend: the commitment counts unless rk has a small order, even if
\* the signature or the proof is then refused.  The caller has read the proof.
CheckSpend(i) ==
  LET s == bundle.spends[i] IN
  /\ s.zkproof \notin MalformedProofs
  /\ Checked(<<"spend", i>>)
  /\ cv_sum' = IF s.rk \in SmallOrder THEN cv_sum ELSE AddCv(s.cv)
  /\ passed' = (passed /\ SpendPasses(s))

OutputPasses(o) ==
  o.epk \notin SmallOrder /\ ProofVerifies(o.zkproof, OutputStatement(o))

\* check_output, on a proof and an ephemeral key that the caller has read
CheckOutput(j) ==
  LET o == bundle.outputs[j] IN
  /\ o.epk \notin MalformedPoints /\ o.zkproof \notin MalformedProofs
  /\ Checked(<<"output", j>>)
  /\ cv_sum' = IF o.epk \in SmallOrder THEN cv_sum ELSE SubCv(o.cv)
  /\ passed' = (passed /\ OutputPasses(o))

\* final_check, which leaves the context usable
FinalCheck ==
  /\ final' = IF SignatureVerifies(Bvk(cv_sum, bundle.value_balance), sighash_value,
                                   bundle.binding_sig)
              THEN "true" ELSE "false"
  /\ UNCHANGED <<bundle, sighash_value, cv_sum, checked, passed>>

ContextNext ==
  \/ \E i \in DOMAIN bundle.spends : CheckSpend(i)
  \/ \E j \in DOMAIN bundle.outputs : CheckOutput(j)
  \/ FinalCheck

ContextSpec == ContextInit /\ [][ContextNext]_contextVars

-----------------------------------------------------------------------------
(* Properties                                                               *)

\* The net of the commitments of what was checked, with repetitions
NetChecked(part) ==
  LET spend(i) == checked[<<"spend", i>>] * bundle.spends[i].cv[part]
      output(j) == checked[<<"output", j>>] * bundle.outputs[j].cv[part]
  IN  SumFunction([i \in DOMAIN bundle.spends |-> spend(i)])
        - SumFunction([j \in DOMAIN bundle.outputs |-> output(j)])

ContextTypeOK ==
  /\ bundle \in Bundles /\ sighash_value \in SighashValues
  /\ cv_sum \in [v : Int, r : Int]
  /\ checked \in [Descriptions -> Nat]
  /\ passed \in BOOLEAN
  /\ final \in {"none", "true", "false"}

\* Everything that was checked passes.
CheckedPass ==
  /\ \A i \in DOMAIN bundle.spends :
       checked[<<"spend", i>>] > 0 => SpendPasses(bundle.spends[i])
  /\ \A j \in DOMAIN bundle.outputs :
       checked[<<"output", j>>] > 0 =>
         bundle.outputs[j].epk \notin MalformedPoints /\ OutputPasses(bundle.outputs[j])

\* The state is well typed; the checks have passed if and only if everything
\* that was checked, in whatever order, passes; and then the sum that the
\* context holds is the net of what was checked.
ContextIInv ==
  /\ ContextTypeOK
  /\ passed <=> CheckedPass
  /\ passed => \A part \in {"v", "r"} : cv_sum[part] = NetChecked(part)

EachCheckedOnce == \A d \in Descriptions : checked[d] = 1

\* A caller that checks every description once, in whatever order, and then
\* makes the final check accepts exactly the valid bundles.
FinalVerdictIsValidity ==
  [][EachCheckedOnce /\ FinalCheck =>
       (passed /\ final' = "true" <=> Valid(bundle, sighash_value))]_contextVars

\* The binding signature catches a caller that skips or repeats a description:
\* of a valid bundle it only accepts checks that leave the sum as it should be.
SkippedOrRepeatedIsCaught ==
  [][FinalCheck /\ final' = "true" /\ Valid(bundle, sighash_value) =>
       \A part \in {"v", "r"} :
         NetChecked(part) =
           SumFunction([i \in DOMAIN bundle.spends |-> bundle.spends[i].cv[part]])
             - SumFunction([j \in DOMAIN bundle.outputs |->
                              bundle.outputs[j].cv[part]])]_contextVars

=============================================================================
