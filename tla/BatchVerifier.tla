---------------------------- MODULE BatchVerifier ----------------------------
(***************************************************************************)
(* BatchValidator of src/src/verifier/batch.rs: check_bundle checks what   *)
(* can be checked at once and queues the proofs and signatures, validate   *)
(* verifies whatever was queued.  A bundle that check_bundle refuses may   *)
(* leave some of its items in the queues.                                  *)
(***************************************************************************)
EXTENDS VerifierRules

CONSTANT
  MaxBundles  \* bound on the bundles added to one batch

\* What cannot be read as a proof proves nothing.
ASSUME BatchAssumption ==
  /\ \A b \in Bundles :
       /\ \A i \in DOMAIN b.spends : SpendStatement(b.spends[i]) \notin MalformedProofs
       /\ \A j \in DOMAIN b.outputs : OutputStatement(b.outputs[j]) \notin MalformedProofs
  /\ MaxBundles \in Nat

VARIABLES
  bundles_added,
  spend_proofs, output_proofs,  \* queued [proof, statement]
  signatures,                   \* queued [vk, sig, msg]
  verdicts,   \* history: [bundle, sighash, ok] of each check_bundle
  outcome     \* "none" until validate returns "true" or "false"

queues == <<spend_proofs, output_proofs, signatures>>
batchVars == <<bundles_added, spend_proofs, output_proofs, signatures, verdicts, outcome>>

BatchInit ==
  /\ bundles_added = FALSE
  /\ spend_proofs = {} /\ output_proofs = {} /\ signatures = {}
  /\ verdicts = <<>>
  /\ outcome = "none"

\* What check_bundle refuses at once; the rest it queues.
SpendRefused(s) == s.zkproof \in MalformedProofs \/ s.rk \in SmallOrder
OutputRefused(o) ==
  o.epk \in MalformedPoints \cup SmallOrder \/ o.zkproof \in MalformedProofs

\* A variant that forgets the outputs.
CvSumOfSpends(b) == CommitmentSum(Cvs(b.spends))

\* new() for each bundle: the sum never mixes the commitments of two bundles.
CvSum(b) == CommitmentDiff(CommitmentSum(Cvs(b.spends)), CommitmentSum(Cvs(b.outputs)))

\* The items that are queued
SpendProofItem(s) == [proof |-> s.zkproof, statement |-> SpendStatement(s)]
OutputProofItem(o) == [proof |-> o.zkproof, statement |-> OutputStatement(o)]
SignatureItem(s, h) == [vk |-> s.rk, sig |-> s.sig, msg |-> h]
BindingItem(b, h) ==
  [vk |-> Bvk(CvSum(b), b.value_balance), sig |-> b.binding_sig, msg |-> h]

\* The spends, and the outputs, before the first one that is refused
QueuedSpends(b) == {i \in DOMAIN b.spends : \A k \in 1 .. i : ~SpendRefused(b.spends[k])}
SoundOutputs(b) == {j \in DOMAIN b.outputs : \A k \in 1 .. j : ~OutputRefused(b.outputs[k])}

\* The outputs are reached once no spend is refused, and the binding
\* signature once no output is refused.
QueuedOutputs(b) ==
  IF QueuedSpends(b) = DOMAIN b.spends THEN SoundOutputs(b) ELSE {}

\* A variant that overlooks the outputs.
AcceptedWithSpends(b) == QueuedSpends(b) = DOMAIN b.spends

Accepted(b) == QueuedSpends(b) = DOMAIN b.spends /\ QueuedOutputs(b) = DOMAIN b.outputs

CheckBundle(b, h) ==
  /\ outcome = "none"
  /\ Len(verdicts) < MaxBundles
  /\ bundles_added' = TRUE
  /\ spend_proofs' = spend_proofs \cup {SpendProofItem(b.spends[i]) : i \in QueuedSpends(b)}
  /\ output_proofs' = output_proofs \cup {OutputProofItem(b.outputs[j]) : j \in QueuedOutputs(b)}
  /\ signatures' = signatures
       \cup {SignatureItem(b.spends[i], h) : i \in QueuedSpends(b)}
       \cup IF Accepted(b) THEN {BindingItem(b, h)} ELSE {}
  /\ verdicts' = Append(verdicts, [bundle |-> b, sighash |-> h, ok |-> Accepted(b)])
  /\ UNCHANGED outcome

\* A variant that does not verify the signatures.
ValidatesProofs ==
  bundles_added =>
    \A q \in spend_proofs \cup output_proofs : ProofVerifies(q.proof, q.statement)

\* validate: signatures, spend proofs, output proofs; an empty batch is valid.
Validates ==
  \/ ~bundles_added
  \/ /\ \A q \in signatures : SignatureVerifies(q.vk, q.msg, q.sig)
     /\ \A q \in spend_proofs \cup output_proofs : ProofVerifies(q.proof, q.statement)

Validate ==
  /\ outcome = "none"
  /\ outcome' = IF Validates THEN "true" ELSE "false"
  /\ UNCHANGED <<bundles_added, queues, verdicts>>

BatchNext ==
  \/ \E b \in Bundles, h \in SighashValues : CheckBundle(b, h)
  \/ Validate

BatchSpec == BatchInit /\ [][BatchNext]_batchVars

-----------------------------------------------------------------------------
(* Properties                                                               *)

\* The state is well typed: the queues hold the items of every bundle that was
\* accepted, and nothing that does not come from a bundle that was checked.
BatchIInv ==
  /\ verdicts \in Seq([bundle : Bundles, sighash : SighashValues, ok : BOOLEAN])
  /\ outcome \in {"none", "true", "false"}
  /\ bundles_added <=> verdicts # <<>>
  /\ \A n \in DOMAIN verdicts : verdicts[n].ok = Accepted(verdicts[n].bundle)
  /\ \A n \in DOMAIN verdicts :
       LET b == verdicts[n].bundle
           h == verdicts[n].sighash
       IN  verdicts[n].ok =>
             /\ \A i \in DOMAIN b.spends :
                  /\ SpendProofItem(b.spends[i]) \in spend_proofs
                  /\ SignatureItem(b.spends[i], h) \in signatures
             /\ \A j \in DOMAIN b.outputs : OutputProofItem(b.outputs[j]) \in output_proofs
             /\ BindingItem(b, h) \in signatures
  /\ \A q \in spend_proofs : \E n \in DOMAIN verdicts :
       \E i \in DOMAIN verdicts[n].bundle.spends :
         q = SpendProofItem(verdicts[n].bundle.spends[i])
  /\ \A q \in output_proofs : \E n \in DOMAIN verdicts :
       \E j \in DOMAIN verdicts[n].bundle.outputs :
         q = OutputProofItem(verdicts[n].bundle.outputs[j])
  /\ \A q \in signatures : \E n \in DOMAIN verdicts :
       \/ \E i \in DOMAIN verdicts[n].bundle.spends :
            q = SignatureItem(verdicts[n].bundle.spends[i], verdicts[n].sighash)
       \/ q = BindingItem(verdicts[n].bundle, verdicts[n].sighash)
  /\ outcome # "none" => (outcome = "true" <=> Validates)

\* A batch that validates contains no invalid bundle among those it accepted,
\* whatever other bundles were refused in between.
AcceptedAreValid ==
  outcome = "true" =>
    \A n \in DOMAIN verdicts :
      verdicts[n].ok => Valid(verdicts[n].bundle, verdicts[n].sighash)

\* check_bundle refuses no bundle that is valid.
RefusedAreInvalid ==
  \A n \in DOMAIN verdicts :
    ~verdicts[n].ok => ~Valid(verdicts[n].bundle, verdicts[n].sighash)

\* check_bundle and validate together decide the validity of each bundle: what
\* is accepted into a batch that validates is valid, what is refused is not.
VerdictIsValidity == AcceptedAreValid /\ RefusedAreInvalid

\* A batch only fails on account of one of its own bundles: valid bundles in
\* one batch do not invalidate one another.
FailureHasCulprit ==
  outcome = "false" =>
    \E n \in DOMAIN verdicts : ~Valid(verdicts[n].bundle, verdicts[n].sighash)

=============================================================================
