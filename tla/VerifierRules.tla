---------------------------- MODULE VerifierRules ----------------------------
(***************************************************************************)
(* The checks that src/src/verifier.rs makes of the parts of a bundle, and *)
(* what it means for a bundle to be valid.  SingleVerifier and             *)
(* BatchVerifier make the same checks in different orders.                 *)
(*                                                                         *)
(* A proof is the statement it proves; a signature names the key that made *)
(* it and the sighash it is over.                                          *)
(*   spend:  [cv, anchor, nullifier, rk, sig, zkproof]                     *)
(*   output: [cv, cmu, epk, zkproof]                                       *)
(*   bundle: [spends, outputs, value_balance, binding_sig]                 *)
(***************************************************************************)
EXTENDS SaplingValue

CONSTANTS
  Bundles,          \* the bundles that may come in
  SighashValues,
  SmallOrder,       \* the keys and points that have a small order
  MalformedPoints,  \* encodings that are no point
  MalformedProofs   \* encodings that are no proof

\* Spends and outputs are lists, and each has a value commitment.
ASSUME BundlesAssumption ==
  \A b \in Bundles :
    /\ Len(b.spends) \in Nat /\ DOMAIN b.spends = 1 .. Len(b.spends)
    /\ Len(b.outputs) \in Nat /\ DOMAIN b.outputs = 1 .. Len(b.outputs)
    /\ \A i \in DOMAIN b.spends : b.spends[i].cv \in [v : Int, r : Int]
    /\ \A j \in DOMAIN b.outputs : b.outputs[j].cv \in [v : Int, r : Int]
    /\ b.value_balance \in I64

\* The public inputs of the two circuits
SpendStatement(s) == <<s.rk, s.cv, s.anchor, s.nullifier>>
OutputStatement(o) == <<o.cv, o.epk, o.cmu>>

SignatureVerifies(vk, h, sig) == sig = [vk |-> vk, msg |-> h]
ProofVerifies(proof, statement) == proof = statement

Cvs(descriptions) == [i \in DOMAIN descriptions |-> descriptions[i].cv]

\* The key under which final_check verifies the binding signature
Bvk(cvSum, valueBalance) == IntoBvk(cvSum, valueBalance)

\* A bundle that satisfies the Sapling consensus rules for a sighash
Valid(b, h) ==
  /\ \A i \in DOMAIN b.spends :
       LET s == b.spends[i] IN
       /\ s.rk \notin SmallOrder
       /\ SignatureVerifies(s.rk, h, s.sig)
       /\ ProofVerifies(s.zkproof, SpendStatement(s))
  /\ \A j \in DOMAIN b.outputs :
       LET o == b.outputs[j] IN
       /\ o.epk \notin SmallOrder \cup MalformedPoints
       /\ ProofVerifies(o.zkproof, OutputStatement(o))
  /\ SignatureVerifies(
       Bvk(CommitmentDiff(CommitmentSum(Cvs(b.spends)), CommitmentSum(Cvs(b.outputs))),
           b.value_balance),
       h, b.binding_sig)
=============================================================================
