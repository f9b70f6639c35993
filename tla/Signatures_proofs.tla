--------------------------- MODULE Signatures_proofs ---------------------------
(***************************************************************************)
(* Proofs about the makers and the checkers of a bundle's proofs and       *)
(* signatures: about BatchVerifier, for any bundles, any sighashes and     *)
(* batches of any size, about SingleVerifier, for any bundles and any      *)
(* number of checks in any order, and about Signing, for any number of     *)
(* spends and outputs, any keys, randomizers and sighashes, and any lists  *)
(* of external signatures.                                                 *)
(***************************************************************************)
EXTENDS Signing, BatchVerifier, SingleVerifier, Induction, TLAPS

-----------------------------------------------------------------------------
(* BatchVerifier                                                            *)

\* A bundle that check_bundle accepts has no description it refuses, and one
\* that it refuses has one.
LEMMA AcceptedMeans ==
  ASSUME NEW b \in Bundles
  PROVE  Accepted(b) <=> /\ \A i \in DOMAIN b.spends : ~SpendRefused(b.spends[i])
                         /\ \A j \in DOMAIN b.outputs : ~OutputRefused(b.outputs[j])
<1>1. QueuedSpends(b) = DOMAIN b.spends <=>
        \A i \in DOMAIN b.spends : ~SpendRefused(b.spends[i])
  <2>1. \A i \in DOMAIN b.spends : i \in 1 .. i /\ 1 .. i \subseteq DOMAIN b.spends
    BY BundlesAssumption DEF BundlesAssumption
  <2>2. QED
    BY <2>1 DEF QueuedSpends
<1>2. SoundOutputs(b) = DOMAIN b.outputs <=>
        \A j \in DOMAIN b.outputs : ~OutputRefused(b.outputs[j])
  <2>1. \A j \in DOMAIN b.outputs : j \in 1 .. j /\ 1 .. j \subseteq DOMAIN b.outputs
    BY BundlesAssumption DEF BundlesAssumption
  <2>2. QED
    BY <2>1 DEF SoundOutputs
<1>3. QED
  BY <1>1, <1>2 DEF Accepted, QueuedOutputs

\* Only descriptions of the bundle are queued.
LEMMA QueuedAreDescriptions ==
  ASSUME NEW b \in Bundles
  PROVE  QueuedSpends(b) \subseteq DOMAIN b.spends /\ QueuedOutputs(b) \subseteq DOMAIN b.outputs
BY DEF QueuedSpends, QueuedOutputs, SoundOutputs

\* Adding a verdict keeps the earlier ones.
LEMMA AppendVerdict ==
  ASSUME NEW S, NEW s \in Seq(S), NEW e \in S
  PROVE  /\ Append(s, e) \in Seq(S)
         /\ Append(s, e) # <<>>
         /\ DOMAIN Append(s, e) = DOMAIN s \cup {Len(s) + 1}
         /\ \A n \in DOMAIN s : Append(s, e)[n] = s[n]
         /\ Append(s, e)[Len(s) + 1] = e
OBVIOUS

\* Every verdict is about a bundle and a sighash that were given.
LEMMA VerdictType ==
  ASSUME BatchIInv, NEW n \in DOMAIN verdicts
  PROVE  verdicts[n].bundle \in Bundles /\ verdicts[n].sighash \in SighashValues
<1> DEFINE Verdicts == [bundle : Bundles, sighash : SighashValues, ok : BOOLEAN]
<1>1. verdicts \in Seq(Verdicts)
  BY DEF BatchIInv
<1>2. \A v \in Verdicts : v.bundle \in Bundles /\ v.sighash \in SighashValues
  OBVIOUS
<1> HIDE DEF Verdicts
<1>3. verdicts[n] \in Verdicts
  BY <1>1
<1>4. QED
  BY <1>2, <1>3

\* An empty batch validator satisfies the inductive invariant.
LEMMA InitBatchIInv == BatchInit => BatchIInv
<1> SUFFICES ASSUME BatchInit PROVE BatchIInv
  OBVIOUS
<1>1. verdicts \in Seq([bundle : Bundles, sighash : SighashValues, ok : BOOLEAN])
  BY DEF BatchInit
<1>2. DOMAIN verdicts = {}
  BY DEF BatchInit
<1>3. QED
  <2>1. verdicts = <<>> /\ spend_proofs = {} /\ output_proofs = {} /\ signatures = {}
    BY DEF BatchInit
  <2>2. ~bundles_added /\ outcome = "none"
    BY DEF BatchInit
  <2>3. (bundles_added <=> verdicts # <<>>) /\ outcome \in {"none", "true", "false"}
    BY <2>1, <2>2
  <2>4. QED
    BY <1>1, <1>2, <2>1, <2>2, <2>3 DEF BatchIInv

\* check_bundle preserves it.
LEMMA CheckStep ==
  ASSUME BatchIInv, NEW b \in Bundles, NEW h \in SighashValues, CheckBundle(b, h)
  PROVE  BatchIInv'
<1> DEFINE new == [bundle |-> b, sighash |-> h, ok |-> Accepted(b)]
           last == Len(verdicts) + 1
<1>1. /\ verdicts' \in Seq([bundle : Bundles, sighash : SighashValues, ok : BOOLEAN])
      /\ verdicts' # <<>>
      /\ DOMAIN verdicts' = DOMAIN verdicts \cup {last}
      /\ \A n \in DOMAIN verdicts : verdicts'[n] = verdicts[n]
      /\ verdicts'[last] = new
  <2>1. new \in [bundle : Bundles, sighash : SighashValues, ok : BOOLEAN]
    BY DEF Accepted
  <2>2. verdicts' = Append(verdicts, new)
    BY DEF CheckBundle
  <2>3. QED
    BY <2>1, <2>2, AppendVerdict DEF BatchIInv
<1>2. new.bundle = b /\ new.sighash = h /\ new.ok = Accepted(b)
  OBVIOUS
<1> HIDE DEF new, last
<1>3. /\ spend_proofs \subseteq spend_proofs'
      /\ output_proofs \subseteq output_proofs'
      /\ signatures \subseteq signatures'
  BY DEF CheckBundle
<1>4. (bundles_added' <=> verdicts' # <<>>) /\ outcome' = "none"
  BY <1>1 DEF CheckBundle
<1>5. \A n \in DOMAIN verdicts' : verdicts'[n].ok = Accepted(verdicts'[n].bundle)
  BY <1>1, <1>2 DEF BatchIInv
<1>6. ASSUME NEW n \in DOMAIN verdicts', verdicts'[n].ok
      PROVE  /\ \A i \in DOMAIN verdicts'[n].bundle.spends :
                  /\ SpendProofItem(verdicts'[n].bundle.spends[i]) \in spend_proofs'
                  /\ SignatureItem(verdicts'[n].bundle.spends[i], verdicts'[n].sighash)
                       \in signatures'
             /\ \A j \in DOMAIN verdicts'[n].bundle.outputs :
                  OutputProofItem(verdicts'[n].bundle.outputs[j]) \in output_proofs'
             /\ BindingItem(verdicts'[n].bundle, verdicts'[n].sighash) \in signatures'
  <2>1. CASE n \in DOMAIN verdicts
    BY <1>1, <1>3, <1>6, <2>1 DEF BatchIInv
  <2>2. CASE n = last
    <3>1. Accepted(b) /\ verdicts'[n].bundle = b /\ verdicts'[n].sighash = h
      BY <1>1, <1>2, <1>6, <2>2
    <3>2. QED
      BY <3>1 DEF CheckBundle, Accepted
  <2>3. QED
    BY <1>1, <2>1, <2>2
<1>7. \A q \in spend_proofs' : \E n \in DOMAIN verdicts' :
        \E i \in DOMAIN verdicts'[n].bundle.spends :
          q = SpendProofItem(verdicts'[n].bundle.spends[i])
  <2> SUFFICES ASSUME NEW q \in spend_proofs'
               PROVE  \E n \in DOMAIN verdicts' :
                        \E i \in DOMAIN verdicts'[n].bundle.spends :
                          q = SpendProofItem(verdicts'[n].bundle.spends[i])
    OBVIOUS
  <2>1. CASE q \in spend_proofs
    BY <1>1, <2>1 DEF BatchIInv
  <2>2. CASE \E i \in DOMAIN b.spends : q = SpendProofItem(b.spends[i])
    BY <1>1, <1>2, <2>2
  <2>3. QED
    BY <2>1, <2>2, QueuedAreDescriptions DEF CheckBundle
<1>8. \A q \in output_proofs' : \E n \in DOMAIN verdicts' :
        \E j \in DOMAIN verdicts'[n].bundle.outputs :
          q = OutputProofItem(verdicts'[n].bundle.outputs[j])
  <2> SUFFICES ASSUME NEW q \in output_proofs'
               PROVE  \E n \in DOMAIN verdicts' :
                        \E j \in DOMAIN verdicts'[n].bundle.outputs :
                          q = OutputProofItem(verdicts'[n].bundle.outputs[j])
    OBVIOUS
  <2>1. CASE q \in output_proofs
    BY <1>1, <2>1 DEF BatchIInv
  <2>2. CASE \E j \in DOMAIN b.outputs : q = OutputProofItem(b.outputs[j])
    BY <1>1, <1>2, <2>2
  <2>3. QED
    BY <2>1, <2>2, QueuedAreDescriptions DEF CheckBundle
<1>9. \A q \in signatures' : \E n \in DOMAIN verdicts' :
        \/ \E i \in DOMAIN verdicts'[n].bundle.spends :
             q = SignatureItem(verdicts'[n].bundle.spends[i], verdicts'[n].sighash)
        \/ q = BindingItem(verdicts'[n].bundle, verdicts'[n].sighash)
  <2> SUFFICES ASSUME NEW q \in signatures'
               PROVE  \E n \in DOMAIN verdicts' :
                        \/ \E i \in DOMAIN verdicts'[n].bundle.spends :
                             q = SignatureItem(verdicts'[n].bundle.spends[i],
                                               verdicts'[n].sighash)
                        \/ q = BindingItem(verdicts'[n].bundle, verdicts'[n].sighash)
    OBVIOUS
  <2>1. CASE q \in signatures
    BY <1>1, <2>1 DEF BatchIInv
  <2>2. CASE (\E i \in DOMAIN b.spends : q = SignatureItem(b.spends[i], h))
               \/ q = BindingItem(b, h)
    BY <1>1, <1>2, <2>2
  <2>3. QED
    BY <2>1, <2>2, QueuedAreDescriptions DEF CheckBundle
<1>10. QED
  BY <1>1, <1>4, <1>5, <1>6, <1>7, <1>8, <1>9 DEF BatchIInv

\* Every step of the batch validator preserves the inductive invariant.
LEMMA StepBatchIInv == BatchIInv /\ [BatchNext]_batchVars => BatchIInv'
<1> SUFFICES ASSUME BatchIInv, [BatchNext]_batchVars PROVE BatchIInv'
  OBVIOUS
<1>1. CASE \E b \in Bundles, h \in SighashValues : CheckBundle(b, h)
  BY <1>1, CheckStep
<1>2. CASE Validate
  BY <1>2 DEF Validate, Validates, BatchIInv, queues
<1>3. CASE UNCHANGED batchVars
  BY <1>3 DEF batchVars, Validates, BatchIInv
<1>4. QED
  BY <1>1, <1>2, <1>3 DEF BatchNext

\* The queues always hold the items of the accepted bundles, and no others
\* than those of checked bundles.
THEOREM BatchInvariant == BatchSpec => []BatchIInv
BY InitBatchIInv, StepBatchIInv, PTL DEF BatchSpec

\* A batch that validates contains no invalid bundle among those it accepted.
THEOREM AcceptedValid == BatchSpec => []AcceptedAreValid
<1>1. ASSUME BatchIInv, outcome = "true", NEW n \in DOMAIN verdicts, verdicts[n].ok
      PROVE  Valid(verdicts[n].bundle, verdicts[n].sighash)
  <2> DEFINE b == verdicts[n].bundle
             h == verdicts[n].sighash
  <2>1. b \in Bundles /\ Accepted(b)
    BY <1>1, VerdictType DEF BatchIInv
  <2>2. Validates /\ bundles_added
    <3>1. verdicts # <<>>
      BY <1>1
    <3>2. QED
      BY <1>1, <3>1 DEF BatchIInv
  <2>3. ASSUME NEW i \in DOMAIN b.spends
        PROVE  /\ b.spends[i].rk \notin SmallOrder
               /\ SignatureVerifies(b.spends[i].rk, h, b.spends[i].sig)
               /\ ProofVerifies(b.spends[i].zkproof, SpendStatement(b.spends[i]))
    <3>1. SpendProofItem(b.spends[i]) \in spend_proofs
          /\ SignatureItem(b.spends[i], h) \in signatures
      BY <1>1 DEF BatchIInv
    <3>2. ~SpendRefused(b.spends[i])
      BY <2>1, AcceptedMeans
    <3>3. QED
      BY <2>2, <3>1, <3>2 DEF Validates, SpendProofItem, SignatureItem, SpendRefused
  <2>4. ASSUME NEW j \in DOMAIN b.outputs
        PROVE  /\ b.outputs[j].epk \notin SmallOrder \cup MalformedPoints
               /\ ProofVerifies(b.outputs[j].zkproof, OutputStatement(b.outputs[j]))
    <3>1. OutputProofItem(b.outputs[j]) \in output_proofs
      BY <1>1 DEF BatchIInv
    <3>2. ~OutputRefused(b.outputs[j])
      BY <2>1, AcceptedMeans
    <3>3. QED
      BY <2>2, <3>1, <3>2 DEF Validates, OutputProofItem, OutputRefused
  <2>5. SignatureVerifies(Bvk(CvSum(b), b.value_balance), h, b.binding_sig)
    <3>1. BindingItem(b, h) \in signatures
      BY <1>1 DEF BatchIInv
    <3>2. QED
      BY <2>2, <3>1 DEF Validates, BindingItem
  <2>6. QED
    BY <2>3, <2>4, <2>5 DEF Valid, CvSum
<1>2. BatchIInv => AcceptedAreValid
  BY <1>1 DEF AcceptedAreValid
<1>3. QED
  BY <1>2, BatchInvariant, PTL

\* check_bundle refuses no valid bundle.
THEOREM RefusedInvalid == BatchSpec => []RefusedAreInvalid
<1>1. ASSUME BatchIInv, NEW n \in DOMAIN verdicts, ~verdicts[n].ok
      PROVE  ~Valid(verdicts[n].bundle, verdicts[n].sighash)
  <2>1. verdicts[n].bundle \in Bundles /\ ~Accepted(verdicts[n].bundle)
    BY <1>1, VerdictType DEF BatchIInv
  <2>2. QED
    BY <2>1, AcceptedMeans, BatchAssumption
    DEF BatchAssumption, Valid, SpendRefused, OutputRefused, ProofVerifies
<1>2. BatchIInv => RefusedAreInvalid
  BY <1>1 DEF RefusedAreInvalid
<1>3. QED
  BY <1>2, BatchInvariant, PTL

\* Acceptance by check_bundle and validate is validity.
THEOREM VerdictValidity == BatchSpec => []VerdictIsValidity
BY AcceptedValid, RefusedInvalid, PTL DEF VerdictIsValidity

\* A batch fails only on account of an invalid bundle in it.
THEOREM FailureCulprit == BatchSpec => []FailureHasCulprit
<1>1. ASSUME BatchIInv, outcome = "false",
             \A n \in DOMAIN verdicts : Valid(verdicts[n].bundle, verdicts[n].sighash)
      PROVE  FALSE
  <2>1. \A q \in spend_proofs : ProofVerifies(q.proof, q.statement)
    BY <1>1 DEF BatchIInv, Valid, SpendProofItem
  <2>2. \A q \in output_proofs : ProofVerifies(q.proof, q.statement)
    BY <1>1 DEF BatchIInv, Valid, OutputProofItem
  <2>3. ASSUME NEW q \in signatures
        PROVE  SignatureVerifies(q.vk, q.msg, q.sig)
    <3>1. PICK n \in DOMAIN verdicts :
            \/ \E i \in DOMAIN verdicts[n].bundle.spends :
                 q = SignatureItem(verdicts[n].bundle.spends[i], verdicts[n].sighash)
            \/ q = BindingItem(verdicts[n].bundle, verdicts[n].sighash)
      BY <1>1 DEF BatchIInv
    <3>2. PICK b, h : b = verdicts[n].bundle /\ h = verdicts[n].sighash
      OBVIOUS
    <3>3. Valid(b, h)
      BY <1>1, <3>2
    <3>4. CASE q = BindingItem(b, h)
      BY <3>3, <3>4 DEF Valid, BindingItem, CvSum
    <3>5. CASE \E i \in DOMAIN b.spends : q = SignatureItem(b.spends[i], h)
      BY <3>3, <3>5 DEF Valid, SignatureItem
    <3>6. QED
      BY <3>1, <3>2, <3>4, <3>5
  <2>4. Validates
    BY <2>1, <2>2, <2>3 DEF Validates
  <2>5. QED
    BY <1>1, <2>4 DEF BatchIInv
<1>2. BatchIInv => FailureHasCulprit
  BY <1>1 DEF FailureHasCulprit
<1>3. QED
  BY <1>2, BatchInvariant, PTL
-----------------------------------------------------------------------------
(* SingleVerifier: sums over the descriptions                               *)

\* The net of the commitments of a bundle, each counted as often as count says
SpendTerms(b, count, part) ==
  [i \in DOMAIN b.spends |-> count[<<"spend", i>>] * b.spends[i].cv[part]]
OutputTerms(b, count, part) ==
  [j \in DOMAIN b.outputs |-> count[<<"output", j>>] * b.outputs[j].cv[part]]
Net(b, count, part) ==
  SumFunctionOnSet(SpendTerms(b, count, part), DOMAIN b.spends)
    - SumFunctionOnSet(OutputTerms(b, count, part), DOMAIN b.outputs)

\* The descriptions of a bundle
Described(b) == {"spend"} \X (DOMAIN b.spends) \cup {"output"} \X (DOMAIN b.outputs)

\* What NetChecked is
LEMMA NetOfCounts ==
  \A part : NetChecked(part) = Net(bundle, checked, part)
<1> TAKE part
<1>1. NetChecked(part)
        = SumFunction(SpendTerms(bundle, checked, part))
            - SumFunction(OutputTerms(bundle, checked, part))
  BY Zenon DEF NetChecked, SpendTerms, OutputTerms
<1>2. /\ DOMAIN SpendTerms(bundle, checked, part) = DOMAIN bundle.spends
      /\ DOMAIN OutputTerms(bundle, checked, part) = DOMAIN bundle.outputs
  BY DEF SpendTerms, OutputTerms
<1>3. QED
  BY <1>1, <1>2 DEF Net, SumFunction

LEMMA NetOfCountsNext ==
  \A part : NetChecked(part)' = Net(bundle', checked', part)
<1>1. (\A part : NetChecked(part) = Net(bundle, checked, part))'
  BY NetOfCounts, PTL
<1>2. QED
  BY <1>1

\* Descriptions are finitely many, and the terms of their sums are integers.
LEMMA TermsAreIntegers ==
  ASSUME NEW b \in Bundles, NEW count \in [Described(b) -> Nat], NEW part \in {"v", "r"}
  PROVE  /\ IsFiniteSet(DOMAIN b.spends) /\ IsFiniteSet(DOMAIN b.outputs)
         /\ \A i \in DOMAIN b.spends :
              /\ <<"spend", i>> \in Described(b) /\ count[<<"spend", i>>] \in Nat
              /\ b.spends[i].cv \in [v : Int, r : Int] /\ b.spends[i].cv[part] \in Int
              /\ SpendTerms(b, count, part)[i] \in Int
         /\ \A j \in DOMAIN b.outputs :
              /\ <<"output", j>> \in Described(b) /\ count[<<"output", j>>] \in Nat
              /\ b.outputs[j].cv \in [v : Int, r : Int] /\ b.outputs[j].cv[part] \in Int
              /\ OutputTerms(b, count, part)[j] \in Int
<1>1. /\ DOMAIN b.spends = 1 .. Len(b.spends) /\ Len(b.spends) \in Nat
      /\ DOMAIN b.outputs = 1 .. Len(b.outputs) /\ Len(b.outputs) \in Nat
      /\ \A i \in DOMAIN b.spends : b.spends[i].cv \in [v : Int, r : Int]
      /\ \A j \in DOMAIN b.outputs : b.outputs[j].cv \in [v : Int, r : Int]
  BY BundlesAssumption DEF BundlesAssumption
<1>2. IsFiniteSet(DOMAIN b.spends) /\ IsFiniteSet(DOMAIN b.outputs)
  <2>1. \A n \in Nat : IsFiniteSet(1 .. n)
    BY FS_Interval
  <2>2. QED
    BY <1>1, <2>1
<1>3. \A cv \in [v : Int, r : Int] : cv[part] \in Int
  OBVIOUS
<1>4. /\ \A i \in DOMAIN b.spends : <<"spend", i>> \in Described(b)
      /\ \A j \in DOMAIN b.outputs : <<"output", j>> \in Described(b)
  BY DEF Described
<1>5. \A n \in Nat, z \in Int : n * z \in Int
  OBVIOUS
<1>6. ASSUME NEW i \in DOMAIN b.spends
      PROVE  /\ count[<<"spend", i>>] \in Nat /\ b.spends[i].cv[part] \in Int
             /\ SpendTerms(b, count, part)[i] \in Int
  <2>1. count[<<"spend", i>>] \in Nat /\ b.spends[i].cv[part] \in Int
    BY <1>1, <1>3, <1>4
  <2>2. SpendTerms(b, count, part)[i] = count[<<"spend", i>>] * b.spends[i].cv[part]
    BY DEF SpendTerms
  <2>3. QED
    BY <1>5, <2>1, <2>2
<1>7. ASSUME NEW j \in DOMAIN b.outputs
      PROVE  /\ count[<<"output", j>>] \in Nat /\ b.outputs[j].cv[part] \in Int
             /\ OutputTerms(b, count, part)[j] \in Int
  <2>1. count[<<"output", j>>] \in Nat /\ b.outputs[j].cv[part] \in Int
    BY <1>1, <1>3, <1>4
  <2>2. OutputTerms(b, count, part)[j] = count[<<"output", j>>] * b.outputs[j].cv[part]
    BY DEF OutputTerms
  <2>3. QED
    BY <1>5, <2>1, <2>2
<1>8. QED
  BY <1>1, <1>2, <1>4, <1>6, <1>7

\* The net is an integer, zero before anything is checked.
LEMMA NetType ==
  ASSUME NEW b \in Bundles, NEW count \in [Described(b) -> Nat], NEW part \in {"v", "r"}
  PROVE  /\ Net(b, count, part) \in Int
         /\ (\A d \in Described(b) : count[d] = 0) => Net(b, count, part) = 0
<1>1. /\ IsFiniteSet(DOMAIN b.spends) /\ IsFiniteSet(DOMAIN b.outputs)
      /\ \A i \in DOMAIN b.spends :
           <<"spend", i>> \in Described(b) /\ b.spends[i].cv[part] \in Int
      /\ \A j \in DOMAIN b.outputs :
           <<"output", j>> \in Described(b) /\ b.outputs[j].cv[part] \in Int
      /\ \A i \in DOMAIN b.spends : SpendTerms(b, count, part)[i] \in Int
      /\ \A j \in DOMAIN b.outputs : OutputTerms(b, count, part)[j] \in Int
  BY TermsAreIntegers
<1>2. /\ SumFunctionOnSet(SpendTerms(b, count, part), DOMAIN b.spends) \in Int
      /\ SumFunctionOnSet(OutputTerms(b, count, part), DOMAIN b.outputs) \in Int
  BY <1>1, SumOfSet
<1>3. ASSUME \A d \in Described(b) : count[d] = 0
      PROVE  Net(b, count, part) = 0
  <2>1. \A z \in Int : 0 * z = 0
    OBVIOUS
  <2>2. /\ \A i \in DOMAIN b.spends :
             SpendTerms(b, count, part)[i] = 0 * b.spends[i].cv[part]
        /\ \A j \in DOMAIN b.outputs :
             OutputTerms(b, count, part)[j] = 0 * b.outputs[j].cv[part]
    BY <1>1, <1>3, Zenon DEF SpendTerms, OutputTerms
  <2>3. /\ SumFunctionOnSet(SpendTerms(b, count, part), DOMAIN b.spends) = 0
        /\ SumFunctionOnSet(OutputTerms(b, count, part), DOMAIN b.outputs) = 0
    BY <1>1, <2>1, <2>2, SumOfZeros
  <2>4. QED
    BY <2>3 DEF Net
<1>4. QED
  BY <1>2, <1>3 DEF Net

\* The counts after one more check of a description
OneMore(count, d) == [count EXCEPT ![d] = @ + 1]

\* One more check of a description adds its commitment, or takes it off.
LEMMA NetWithCheck ==
  ASSUME NEW b \in Bundles, NEW count \in [Described(b) -> Nat], NEW part \in {"v", "r"},
         NEW d \in Described(b)
  PROVE  /\ OneMore(count, d) \in [Described(b) -> Nat]
         /\ d[1] = "spend" =>
              Net(b, OneMore(count, d), part) = Net(b, count, part) + b.spends[d[2]].cv[part]
         /\ d[1] = "output" =>
              Net(b, OneMore(count, d), part) = Net(b, count, part) - b.outputs[d[2]].cv[part]
<1> DEFINE more == OneMore(count, d)
           ss == DOMAIN b.spends
           os == DOMAIN b.outputs
           S(c) == SpendTerms(b, c, part)
           O(c) == OutputTerms(b, c, part)
<1>1. more \in [Described(b) -> Nat]
  BY DEF OneMore
<1>2. /\ IsFiniteSet(ss) /\ IsFiniteSet(os)
      /\ \A i \in ss : /\ count[<<"spend", i>>] \in Nat /\ b.spends[i].cv[part] \in Int
                       /\ <<"spend", i>> \in Described(b)
                       /\ S(count)[i] \in Int
      /\ \A j \in os : /\ count[<<"output", j>>] \in Nat /\ b.outputs[j].cv[part] \in Int
                       /\ <<"output", j>> \in Described(b)
                       /\ O(count)[j] \in Int
  BY TermsAreIntegers
<1>3. /\ SumFunctionOnSet(S(count), ss) \in Int
      /\ SumFunctionOnSet(O(count), os) \in Int
  BY <1>2, SumOfSet
<1>4. \A n \in Nat, z \in Int : (n + 1) * z = n * z + z
  OBVIOUS
<1>5. /\ \A i \in ss : S(more)[i] = more[<<"spend", i>>] * b.spends[i].cv[part]
      /\ \A i \in ss : S(count)[i] = count[<<"spend", i>>] * b.spends[i].cv[part]
      /\ \A j \in os : O(more)[j] = more[<<"output", j>>] * b.outputs[j].cv[part]
      /\ \A j \in os : O(count)[j] = count[<<"output", j>>] * b.outputs[j].cv[part]
  BY DEF SpendTerms, OutputTerms
<1>6. /\ more[d] = count[d] + 1
      /\ \A e \in Described(b) : e # d => more[e] = count[e]
  BY DEF OneMore
<1> HIDE DEF S, O, more
<1>7. CASE d[1] = "spend"
  <2>1. PICK i \in ss : d = <<"spend", i>>
    BY <1>7 DEF Described
  <2>2. d[2] = i /\ \A k \in ss \ {i} : <<"spend", k>> # d
    BY <2>1
  <2>3. \A j \in os : <<"output", j>> # d
    BY <2>1
  <2> DEFINE cv == b.spends[i].cv[part]
  <2>4. cv \in Int /\ count[d] \in Nat
    BY <1>2, <2>1
  <2>5. S(more)[i] = more[d] * cv /\ S(count)[i] = count[d] * cv
    BY <1>5, <2>1
  <2> HIDE DEF cv
  <2>6. S(more)[i] = S(count)[i] + cv
    <3>1. (count[d] + 1) * cv = count[d] * cv + cv
      BY <1>4, <2>4
    <3>2. QED
      BY <1>6, <2>5, <3>1
  <2>7. \A k \in ss \ {i} : S(more)[k] = S(count)[k]
    <3> TAKE k \in ss \ {i}
    <3>1. more[<<"spend", k>>] = count[<<"spend", k>>]
      BY <1>2, <1>6, <2>2
    <3>2. QED
      BY <1>5, <3>1, Zenon
  <2>8. \A j \in os : O(count)[j] \in Int /\ O(more)[j] = O(count)[j]
    <3> TAKE j \in os
    <3>1. more[<<"output", j>>] = count[<<"output", j>>]
      BY <1>2, <1>6, <2>3
    <3>2. QED
      BY <1>2, <1>5, <3>1, Zenon
  <2>9. SumFunctionOnSet(S(more), ss) = SumFunctionOnSet(S(count), ss) + cv
    <3>1. IsFiniteSet(ss) /\ \A k \in ss : S(count)[k] \in Int
      BY <1>2
    <3> HIDE DEF ss
    <3>2. QED
      BY <2>4, <2>6, <2>7, <3>1, SumWithChange
  <2>10. SumFunctionOnSet(O(more), os) = SumFunctionOnSet(O(count), os)
    <3>1. IsFiniteSet(os)
      BY <1>2
    <3> HIDE DEF os
    <3>2. QED
      BY <2>8, <3>1, SumOfEqual
  <2>11. Net(b, more, part) = Net(b, count, part) + cv
    BY <1>3, <2>4, <2>9, <2>10 DEF Net, S, O, more
  <2>12. d[1] # "output"
    BY <1>7
  <2>13. QED
    BY <1>1, <2>2, <2>11, <2>12 DEF cv, more
<1>8. CASE d[1] = "output"
  <2>1. PICK j \in os : d = <<"output", j>>
    BY <1>8 DEF Described
  <2>2. d[2] = j /\ \A k \in os \ {j} : <<"output", k>> # d
    BY <2>1
  <2>3. \A i \in ss : <<"spend", i>> # d
    BY <2>1
  <2> DEFINE cv == b.outputs[j].cv[part]
  <2>4. cv \in Int /\ count[d] \in Nat
    BY <1>2, <2>1
  <2>5. O(more)[j] = more[d] * cv /\ O(count)[j] = count[d] * cv
    BY <1>5, <2>1
  <2> HIDE DEF cv
  <2>6. O(more)[j] = O(count)[j] + cv
    <3>1. (count[d] + 1) * cv = count[d] * cv + cv
      BY <1>4, <2>4
    <3>2. QED
      BY <1>6, <2>5, <3>1
  <2>7. \A k \in os \ {j} : O(more)[k] = O(count)[k]
    <3> TAKE k \in os \ {j}
    <3>1. more[<<"output", k>>] = count[<<"output", k>>]
      BY <1>2, <1>6, <2>2
    <3>2. QED
      BY <1>5, <3>1, Zenon
  <2>8. \A i \in ss : S(count)[i] \in Int /\ S(more)[i] = S(count)[i]
    <3> TAKE i \in ss
    <3>1. more[<<"spend", i>>] = count[<<"spend", i>>]
      BY <1>2, <1>6, <2>3
    <3>2. QED
      BY <1>2, <1>5, <3>1, Zenon
  <2>9. SumFunctionOnSet(O(more), os) = SumFunctionOnSet(O(count), os) + cv
    <3>1. IsFiniteSet(os) /\ \A k \in os : O(count)[k] \in Int
      BY <1>2
    <3> HIDE DEF os
    <3>2. QED
      BY <2>4, <2>6, <2>7, <3>1, SumWithChange
  <2>10. SumFunctionOnSet(S(more), ss) = SumFunctionOnSet(S(count), ss)
    <3>1. IsFiniteSet(ss)
      BY <1>2
    <3> HIDE DEF ss
    <3>2. QED
      BY <2>8, <3>1, SumOfEqual
  <2>11. Net(b, more, part) = Net(b, count, part) - cv
    BY <1>3, <2>4, <2>9, <2>10 DEF Net, S, O, more
  <2>12. d[1] # "spend"
    BY <1>8
  <2>13. QED
    BY <1>1, <2>2, <2>11, <2>12 DEF cv, more
<1>9. QED
  BY <1>1, <1>7, <1>8, Zenon DEF more

\* The sum over all commitments of a bundle is what counting each once gives.
LEMMA NetOfEachOnce ==
  ASSUME NEW b \in Bundles, NEW count \in [Described(b) -> Nat],
         \A d \in Described(b) : count[d] = 1
  PROVE  /\ CvSum(b) = [v |-> Net(b, count, "v"), r |-> Net(b, count, "r")]
         /\ \A part \in {"v", "r"} :
              Net(b, count, part) =
                SumFunction([i \in DOMAIN b.spends |-> b.spends[i].cv[part]])
                  - SumFunction([j \in DOMAIN b.outputs |-> b.outputs[j].cv[part]])
<1> DEFINE ins(part) == [i \in DOMAIN b.spends |-> b.spends[i].cv[part]]
           outs(part) == [j \in DOMAIN b.outputs |-> b.outputs[j].cv[part]]
<1>1. ASSUME NEW part \in {"v", "r"}
      PROVE  SpendTerms(b, count, part) = ins(part) /\ OutputTerms(b, count, part) = outs(part)
  <2>1. /\ \A i \in DOMAIN b.spends : count[<<"spend", i>>] = 1 /\ b.spends[i].cv[part] \in Int
        /\ \A j \in DOMAIN b.outputs : count[<<"output", j>>] = 1 /\ b.outputs[j].cv[part] \in Int
    BY TermsAreIntegers
  <2>2. \A z \in Int : 1 * z = z
    OBVIOUS
  <2>3. QED
    BY <2>1, <2>2 DEF SpendTerms, OutputTerms
<1>2. ASSUME NEW part \in {"v", "r"}
      PROVE  Net(b, count, part) = SumFunction(ins(part)) - SumFunction(outs(part))
  <2>1. DOMAIN ins(part) = DOMAIN b.spends /\ DOMAIN outs(part) = DOMAIN b.outputs
    OBVIOUS
  <2> HIDE DEF ins, outs
  <2>2. QED
    BY <1>1, <2>1 DEF Net, SumFunction
<1>3. /\ CommitmentSum(Cvs(b.spends)) = [v |-> SumFunction(ins("v")), r |-> SumFunction(ins("r"))]
      /\ CommitmentSum(Cvs(b.outputs)) = [v |-> SumFunction(outs("v")), r |-> SumFunction(outs("r"))]
  <2>1. /\ [i \in DOMAIN Cvs(b.spends) |-> Cvs(b.spends)[i].v] = ins("v")
        /\ [i \in DOMAIN Cvs(b.spends) |-> Cvs(b.spends)[i].r] = ins("r")
        /\ [j \in DOMAIN Cvs(b.outputs) |-> Cvs(b.outputs)[j].v] = outs("v")
        /\ [j \in DOMAIN Cvs(b.outputs) |-> Cvs(b.outputs)[j].r] = outs("r")
    BY DEF Cvs
  <2> HIDE DEF ins, outs
  <2>2. QED
    BY <2>1 DEF CommitmentSum
<1> HIDE DEF ins, outs
<1>4. CvSum(b) = [v |-> SumFunction(ins("v")) - SumFunction(outs("v")),
                  r |-> SumFunction(ins("r")) - SumFunction(outs("r"))]
  BY <1>3 DEF CvSum, CommitmentDiff
<1>5. QED
  BY <1>2, <1>4 DEF ins, outs

\* Different sums have different binding keys.
LEMMA BvkIsInjective ==
  ASSUME NEW x \in [v : Int, r : Int], NEW y \in [v : Int, r : Int], NEW balance \in I64,
         Bvk(x, balance) = Bvk(y, balance)
  PROVE  x = y
<1> DEFINE magnitude == AbsValue(balance)
           signed == IF balance < 0 THEN -magnitude ELSE magnitude
<1>1. signed \in Int
  BY I64MaxAssumption DEF I64MaxAssumption, I64, I64Min, AbsValue
<1>2. [x EXCEPT !.v = @ - signed] = [y EXCEPT !.v = @ - signed]
  BY DEF Bvk, IntoBvk
<1> HIDE DEF signed
<1>3. x.v - signed = y.v - signed /\ x.r = y.r
  BY <1>2
<1>4. x.v = y.v
  BY <1>1, <1>3
<1>5. QED
  BY <1>3, <1>4

-----------------------------------------------------------------------------
(* SingleVerifier: the theorems                                             *)

\* The sums of a context that saw every description once are the bundle's.
LEMMA SumsOfEachOnce ==
  ASSUME ContextTypeOK, EachCheckedOnce,
         \A part \in {"v", "r"} : cv_sum[part] = NetChecked(part)
  PROVE  cv_sum = CvSum(bundle)
<1>1. /\ bundle \in Bundles /\ checked \in [Described(bundle) -> Nat]
      /\ \A d \in Described(bundle) : checked[d] = 1
      /\ cv_sum \in [v : Int, r : Int]
  BY DEF ContextTypeOK, EachCheckedOnce, Descriptions, Described
<1>2. CvSum(bundle) = [v |-> Net(bundle, checked, "v"), r |-> Net(bundle, checked, "r")]
  BY <1>1, NetOfEachOnce
<1>3. cv_sum.v = Net(bundle, checked, "v") /\ cv_sum.r = Net(bundle, checked, "r")
  BY NetOfCounts
<1>4. cv_sum = [v |-> cv_sum.v, r |-> cv_sum.r]
  BY <1>1
<1>5. QED
  BY <1>2, <1>3, <1>4

\* Before anything is checked the invariant holds.
LEMMA SingleInit == ContextInit => ContextIInv
<1> SUFFICES ASSUME ContextInit PROVE ContextIInv
  OBVIOUS
<1> USE DEF ContextInit
<1>1. ContextTypeOK
  BY DEF ContextTypeOK
<1>2. /\ \A i \in DOMAIN bundle.spends : checked[<<"spend", i>>] = 0
      /\ \A j \in DOMAIN bundle.outputs : checked[<<"output", j>>] = 0
  BY DEF Descriptions
<1>3. CheckedPass
  BY <1>2 DEF CheckedPass
<1>4. ASSUME NEW part \in {"v", "r"}
      PROVE  cv_sum[part] = NetChecked(part)
  <2>1. /\ bundle \in Bundles /\ checked \in [Described(bundle) -> Nat]
        /\ \A d \in Described(bundle) : checked[d] = 0
    BY DEF Descriptions, Described
  <2>2. Net(bundle, checked, part) = 0
    BY <2>1, NetType
  <2>3. QED
    BY <2>2, NetOfCounts
<1>5. QED
  BY <1>1, <1>3, <1>4 DEF ContextIInv

\* What a check adds to: one description more has been checked, and the
\* verdict so far stands if the description passes too.
LEMMA SpendChecked ==
  ASSUME ContextIInv, NEW i \in DOMAIN bundle.spends, CheckSpend(i)
  PROVE  ContextIInv'
<1> DEFINE s == bundle.spends[i]
           d == <<"spend", i>>
<1>1. /\ bundle \in Bundles /\ sighash_value \in SighashValues
      /\ cv_sum \in [v : Int, r : Int]
      /\ checked \in [Described(bundle) -> Nat]
      /\ passed \in BOOLEAN /\ final \in {"none", "true", "false"}
      /\ passed <=> CheckedPass
      /\ passed => \A part \in {"v", "r"} : cv_sum[part] = Net(bundle, checked, part)
  BY NetOfCounts DEF ContextIInv, ContextTypeOK, Descriptions, Described
<1>2. /\ checked' = [checked EXCEPT ![d] = @ + 1]
      /\ bundle' = bundle /\ sighash_value' = sighash_value /\ final' = final
      /\ cv_sum' = IF s.rk \in SmallOrder THEN cv_sum ELSE AddCv(s.cv)
      /\ passed' = (passed /\ SpendPasses(s))
  BY DEF CheckSpend, Checked
<1>3. s.cv \in [v : Int, r : Int]
  BY <1>1, BundlesAssumption DEF BundlesAssumption
<1>4. d \in Described(bundle) /\ d[1] = "spend" /\ d[2] = i
  BY DEF Described
<1>5. checked' \in [Described(bundle) -> Nat]
  BY <1>1, <1>2, <1>4 DEF OneMore
<1>6. ContextTypeOK'
  <2>1. AddCv(s.cv) \in [v : Int, r : Int]
    BY <1>1, <1>3 DEF AddCv
  <2>2. QED
    BY <1>1, <1>2, <1>5, <2>1 DEF ContextTypeOK, Descriptions, Described
<1>7. passed' <=> CheckedPass'
  <2>1. \A x : /\ SpendPasses(x)' <=> SpendPasses(x)
               /\ OutputPasses(x)' <=> OutputPasses(x)
    BY <1>2 DEF SpendPasses, OutputPasses
  <2>2. \A k \in DOMAIN bundle.spends :
          checked'[<<"spend", k>>] > 0 <=> checked[<<"spend", k>>] > 0 \/ k = i
    <3>1. checked'[d] = checked[d] + 1 /\ checked[d] \in Nat
      BY <1>1, <1>2, <1>4
    <3>2. checked'[d] > 0
      BY <3>1
    <3>3. \A k \in DOMAIN bundle.spends : k # i =>
            checked'[<<"spend", k>>] = checked[<<"spend", k>>]
      BY <1>1, <1>2 DEF Described
    <3>4. QED
      BY <3>2, <3>3, Zenon
  <2>3. \A j \in DOMAIN bundle.outputs :
          checked'[<<"output", j>>] = checked[<<"output", j>>]
    BY <1>1, <1>2 DEF Described
  <2>4. CheckedPass' <=> CheckedPass /\ SpendPasses(s)
    BY <1>2, <2>1, <2>2, <2>3 DEF CheckedPass
  <2>5. QED
    BY <1>1, <1>2, <2>4
<1>8. ASSUME passed', NEW part \in {"v", "r"}
      PROVE  cv_sum'[part] = NetChecked(part)'
  <2>1. passed /\ s.rk \notin SmallOrder
    BY <1>2, <1>8 DEF SpendPasses
  <2>2. cv_sum'[part] = cv_sum[part] + s.cv[part]
    BY <1>2, <2>1 DEF AddCv
  <2>3. Net(bundle, checked', part) = Net(bundle, checked, part) + s.cv[part]
    <3>1. checked \in [Described(bundle) -> Nat] /\ bundle \in Bundles
      BY <1>1
    <3>2. checked' = OneMore(checked, d) /\ d \in Described(bundle)
      BY <1>2, <1>4 DEF OneMore
    <3> HIDE DEF d
    <3>3. d[1] = "spend" =>
            Net(bundle, checked', part)
              = Net(bundle, checked, part) + bundle.spends[d[2]].cv[part]
      <4>1. part \in {"v", "r"}
        OBVIOUS
      <4>2. QED
        BY <3>1, <3>2, <4>1, NetWithCheck, Zenon
    <3>4. QED
      BY <1>4, <3>3
  <2>4. NetChecked(part)' = Net(bundle', checked', part)
    BY NetOfCountsNext
  <2>5. QED
    BY <1>1, <1>2, <2>1, <2>2, <2>3, <2>4
<1>9. QED
  BY <1>6, <1>7, <1>8 DEF ContextIInv

LEMMA OutputChecked ==
  ASSUME ContextIInv, NEW j \in DOMAIN bundle.outputs, CheckOutput(j)
  PROVE  ContextIInv'
<1> DEFINE o == bundle.outputs[j]
           d == <<"output", j>>
<1>1. /\ bundle \in Bundles /\ sighash_value \in SighashValues
      /\ cv_sum \in [v : Int, r : Int]
      /\ checked \in [Described(bundle) -> Nat]
      /\ passed \in BOOLEAN /\ final \in {"none", "true", "false"}
      /\ passed <=> CheckedPass
      /\ passed => \A part \in {"v", "r"} : cv_sum[part] = Net(bundle, checked, part)
  BY NetOfCounts DEF ContextIInv, ContextTypeOK, Descriptions, Described
<1>2. /\ o.epk \notin MalformedPoints
      /\ checked' = [checked EXCEPT ![d] = @ + 1]
      /\ bundle' = bundle /\ sighash_value' = sighash_value /\ final' = final
      /\ cv_sum' = IF o.epk \in SmallOrder THEN cv_sum ELSE SubCv(o.cv)
      /\ passed' = (passed /\ OutputPasses(o))
  BY DEF CheckOutput, Checked
<1>3. o.cv \in [v : Int, r : Int]
  BY <1>1, BundlesAssumption DEF BundlesAssumption
<1>4. d \in Described(bundle) /\ d[1] = "output" /\ d[2] = j
  BY DEF Described
<1>5. checked' \in [Described(bundle) -> Nat]
  BY <1>1, <1>2, <1>4 DEF OneMore
<1>6. ContextTypeOK'
  <2>1. SubCv(o.cv) \in [v : Int, r : Int]
    BY <1>1, <1>3 DEF SubCv, CommitmentDiff
  <2>2. QED
    BY <1>1, <1>2, <1>5, <2>1 DEF ContextTypeOK, Descriptions, Described
<1>7. passed' <=> CheckedPass'
  <2>1. \A x : /\ SpendPasses(x)' <=> SpendPasses(x)
               /\ OutputPasses(x)' <=> OutputPasses(x)
    BY <1>2 DEF SpendPasses, OutputPasses
  <2>2. \A k \in DOMAIN bundle.outputs :
          checked'[<<"output", k>>] > 0 <=> checked[<<"output", k>>] > 0 \/ k = j
    <3>1. checked'[d] = checked[d] + 1 /\ checked[d] \in Nat
      BY <1>1, <1>2, <1>4
    <3>2. checked'[d] > 0
      BY <3>1
    <3>3. \A k \in DOMAIN bundle.outputs : k # j =>
            checked'[<<"output", k>>] = checked[<<"output", k>>]
      BY <1>1, <1>2 DEF Described
    <3>4. QED
      BY <3>2, <3>3, Zenon
  <2>3. \A i \in DOMAIN bundle.spends :
          checked'[<<"spend", i>>] = checked[<<"spend", i>>]
    BY <1>1, <1>2 DEF Described
  <2>4. CheckedPass' <=> CheckedPass /\ OutputPasses(o)
    BY <1>2, <2>1, <2>2, <2>3 DEF CheckedPass
  <2>5. QED
    BY <1>1, <1>2, <2>4
<1>8. ASSUME passed', NEW part \in {"v", "r"}
      PROVE  cv_sum'[part] = NetChecked(part)'
  <2>1. passed /\ o.epk \notin SmallOrder
    BY <1>2, <1>8 DEF OutputPasses
  <2>2. cv_sum'[part] = cv_sum[part] - o.cv[part]
    BY <1>2, <2>1 DEF SubCv, CommitmentDiff
  <2>3. Net(bundle, checked', part) = Net(bundle, checked, part) - o.cv[part]
    <3>1. checked \in [Described(bundle) -> Nat] /\ bundle \in Bundles
      BY <1>1
    <3>2. checked' = OneMore(checked, d) /\ d \in Described(bundle)
      BY <1>2, <1>4 DEF OneMore
    <3> HIDE DEF d
    <3>3. d[1] = "output" =>
            Net(bundle, checked', part)
              = Net(bundle, checked, part) - bundle.outputs[d[2]].cv[part]
      <4>1. part \in {"v", "r"}
        OBVIOUS
      <4>2. QED
        BY <3>1, <3>2, <4>1, NetWithCheck, Zenon
    <3>4. QED
      BY <1>4, <3>3
  <2>4. NetChecked(part)' = Net(bundle', checked', part)
    BY NetOfCountsNext
  <2>5. QED
    BY <1>1, <1>2, <2>1, <2>2, <2>3, <2>4
<1>9. QED
  BY <1>6, <1>7, <1>8 DEF ContextIInv

\* A step that leaves the sum and the counts alone
LEMMA SumUntouched ==
  ASSUME ContextIInv, final' \in {"none", "true", "false"},
         UNCHANGED <<bundle, sighash_value, cv_sum, checked, passed>>
  PROVE  ContextIInv'
<1>1. ContextTypeOK'
  BY DEF ContextIInv, ContextTypeOK, Descriptions
<1>2. CheckedPass' <=> CheckedPass
  BY DEF CheckedPass, SpendPasses, OutputPasses
<1>3. \A part : NetChecked(part)' = NetChecked(part)
  BY NetOfCounts, NetOfCountsNext
<1>4. QED
  BY <1>1, <1>2, <1>3 DEF ContextIInv

\* In whatever order a caller checks the descriptions of a bundle, leaving
\* some out, repeating some and going on after refusals, the checks have
\* passed just when all that was checked passes, and then the context's
\* cv_sum is the net commitment of what was checked.
THEOREM SingleInvariant == ContextSpec => []ContextIInv
<1>1. ASSUME ContextIInv, [ContextNext]_contextVars
      PROVE  ContextIInv'
  <2>1. CASE \E i \in DOMAIN bundle.spends : CheckSpend(i)
    BY <1>1, <2>1, SpendChecked
  <2>2. CASE \E j \in DOMAIN bundle.outputs : CheckOutput(j)
    BY <1>1, <2>2, OutputChecked
  <2>3. CASE FinalCheck
    BY <1>1, <2>3, SumUntouched DEF FinalCheck
  <2>4. CASE UNCHANGED contextVars
    BY <1>1, <2>4, SumUntouched DEF contextVars, ContextIInv, ContextTypeOK
  <2>5. QED
    BY <1>1, <2>1, <2>2, <2>3, <2>4 DEF ContextNext
<1>2. QED
  BY <1>1, SingleInit, PTL DEF ContextSpec

\* A caller that checks every description once, in whatever order, and then
\* makes the final check accepts exactly the valid bundles.
THEOREM SingleVerdict == ContextSpec => FinalVerdictIsValidity
<1>1. ASSUME ContextIInv, EachCheckedOnce, FinalCheck
      PROVE  passed /\ final' = "true" <=> Valid(bundle, sighash_value)
  <2>1. /\ ContextTypeOK /\ bundle \in Bundles /\ passed \in BOOLEAN
        /\ passed <=> CheckedPass
    BY <1>1 DEF ContextIInv, ContextTypeOK
  <2>2. /\ \A i \in DOMAIN bundle.spends : checked[<<"spend", i>>] > 0
        /\ \A j \in DOMAIN bundle.outputs : checked[<<"output", j>>] > 0
    <3>1. /\ \A i \in DOMAIN bundle.spends : checked[<<"spend", i>>] = 1
          /\ \A j \in DOMAIN bundle.outputs : checked[<<"output", j>>] = 1
      BY <1>1 DEF EachCheckedOnce, Descriptions
    <3>2. QED
      BY <3>1
  <2>3. passed <=> /\ \A i \in DOMAIN bundle.spends : SpendPasses(bundle.spends[i])
                   /\ \A j \in DOMAIN bundle.outputs :
                        /\ bundle.outputs[j].epk \notin MalformedPoints
                        /\ OutputPasses(bundle.outputs[j])
    BY <2>1, <2>2, Zenon DEF CheckedPass
  <2>4. passed => cv_sum = CvSum(bundle)
    BY <1>1, <2>1, SumsOfEachOnce DEF ContextIInv
  <2>5. final' = "true" <=>
          SignatureVerifies(Bvk(cv_sum, bundle.value_balance), sighash_value, bundle.binding_sig)
    BY <1>1
    DEF FinalCheck, SignatureVerifies
  <2>6. /\ \A x : SpendPasses(x) <=>
             /\ x.rk \notin SmallOrder
             /\ SignatureVerifies(x.rk, sighash_value, x.sig)
             /\ ProofVerifies(x.zkproof, SpendStatement(x))
        /\ \A x : OutputPasses(x) <=>
             x.epk \notin SmallOrder /\ ProofVerifies(x.zkproof, OutputStatement(x))
    BY DEF SpendPasses, OutputPasses
  <2>7. Valid(bundle, sighash_value) <=> passed /\
          SignatureVerifies(Bvk(CvSum(bundle), bundle.value_balance), sighash_value,
                            bundle.binding_sig)
    BY <2>3, <2>6 DEF Valid, CvSum
  <2>8. QED
    BY <2>4, <2>5, <2>7
<1>2. QED
  BY <1>1, SingleInvariant, PTL DEF ContextSpec, FinalVerdictIsValidity

\* The final check of a valid bundle passes only when the net of what was
\* checked is the net of the whole bundle: a description skipped or repeated
\* is caught, unless the skipped and the repeated ones cancel out.
THEOREM SkippedCaught == ContextSpec => SkippedOrRepeatedIsCaught
<1>1. ASSUME ContextIInv, FinalCheck, final' = "true",
             Valid(bundle, sighash_value), NEW part \in {"v", "r"}
      PROVE  NetChecked(part)
               = SumFunction([i \in DOMAIN bundle.spends |-> bundle.spends[i].cv[part]])
                   - SumFunction([j \in DOMAIN bundle.outputs |-> bundle.outputs[j].cv[part]])
  <2>1. /\ bundle \in Bundles /\ cv_sum \in [v : Int, r : Int]
        /\ checked \in [Described(bundle) -> Nat]
        /\ passed <=> CheckedPass
        /\ passed => \A p \in {"v", "r"} : cv_sum[p] = NetChecked(p)
        /\ bundle.value_balance \in I64
    BY <1>1, BundlesAssumption
    DEF ContextIInv, ContextTypeOK, Descriptions, Described, BundlesAssumption
  <2>2. passed
    <3>1. CheckedPass
      BY <1>1 DEF CheckedPass, Valid, SpendPasses, OutputPasses
    <3>2. QED
      BY <2>1, <3>1
  <2>3. Bvk(cv_sum, bundle.value_balance) = Bvk(CvSum(bundle), bundle.value_balance)
    BY <1>1 DEF FinalCheck, SignatureVerifies, Valid, CvSum
  <2> DEFINE once == [d \in Described(bundle) |-> 1]
  <2>4. once \in [Described(bundle) -> Nat] /\ \A d \in Described(bundle) : once[d] = 1
    OBVIOUS
  <2> HIDE DEF once
  <2>5. /\ CvSum(bundle) = [v |-> Net(bundle, once, "v"), r |-> Net(bundle, once, "r")]
        /\ Net(bundle, once, part)
             = SumFunction([i \in DOMAIN bundle.spends |-> bundle.spends[i].cv[part]])
                 - SumFunction([j \in DOMAIN bundle.outputs |-> bundle.outputs[j].cv[part]])
    BY <2>1, <2>4, NetOfEachOnce
  <2>6. Net(bundle, once, "v") \in Int /\ Net(bundle, once, "r") \in Int
    BY <2>1, <2>4, NetType
  <2>7. CvSum(bundle) \in [v : Int, r : Int] /\ CvSum(bundle)[part] = Net(bundle, once, part)
    BY <2>5, <2>6
  <2>8. cv_sum = CvSum(bundle)
    BY <2>1, <2>3, <2>7, BvkIsInjective
  <2>9. QED
    BY <2>1, <2>2, <2>5, <2>7, <2>8
<1>2. ContextIInv /\ (FinalCheck /\ final' = "true" /\ Valid(bundle, sighash_value)) =>
        \A part \in {"v", "r"} :
          NetChecked(part) =
            SumFunction([i \in DOMAIN bundle.spends |-> bundle.spends[i].cv[part]])
              - SumFunction([j \in DOMAIN bundle.outputs |-> bundle.outputs[j].cv[part]])
  BY <1>1
<1>3. QED
  BY <1>2, SingleInvariant, PTL DEF ContextSpec, SkippedOrRepeatedIsCaught

-----------------------------------------------------------------------------
(* Signing                                                                  *)

USE DEF bundleVars, proofVars, appendVars

\* A key's signature is a signature, and it verifies for the spend's own
\* randomized key and the sighash it was made over.
LEMMA SignatureOfVerifies ==
  ASSUME NEW i \in Spends, NEW h \in Sighashes, parts \in [Spends -> RandomizedKeys]
  PROVE  /\ SignatureOf(i, h) \in Sigs
         /\ SignatureOf(i, h) # NoSig
         /\ Verify(parts[i], h, SignatureOf(i, h))
<1>1. SignatureOf(i, h) \in Sigs
  BY DEF SignatureOf, Sigs
<1>2. SignatureOf(i, h) # NoSig
  BY <1>1, SigningAssumption DEF SigningAssumption
<1>3. Verify(parts[i], h, SignatureOf(i, h))
  BY DEF Verify, SignatureOf
<1>4. QED
  BY <1>1, <1>2, <1>3

\* The head and the tail of a list of signatures are a signature and a list.
LEMMA HeadTailType ==
  ASSUME NEW q \in Seq(Sigs), q # <<>>
  PROVE  Head(q) \in Sigs /\ Tail(q) \in Seq(Sigs)
OBVIOUS

\* prepare signs every dummy, and nothing else, validly.
LEMMA PreparedIsSound ==
  ASSUME NEW h \in Sighashes, parts \in [Spends -> RandomizedKeys]
  PROVE  /\ Prepared(h) \in [Spends -> Sigs \cup {NoSig}]
         /\ \A i \in Spends : Prepared(h)[i] # NoSig => Verify(parts[i], h, Prepared(h)[i])
         /\ \A i \in dummies \cap Spends : Prepared(h)[i] # NoSig
BY SignatureOfVerifies DEF Prepared

\* Signing with a set of keys keeps the signatures there are, adds valid ones
\* only, and leaves no spend of one of the keys without one.
LEMMA SignedByIsSound ==
  ASSUME NEW h \in Sighashes, NEW asks,
         NEW before \in [Spends -> Sigs \cup {NoSig}],
         parts \in [Spends -> RandomizedKeys],
         \A i \in Spends : before[i] # NoSig => Verify(parts[i], h, before[i])
  PROVE  /\ SignedBy(before, asks, h) \in [Spends -> Sigs \cup {NoSig}]
         /\ \A i \in Spends : /\ SignedBy(before, asks, h)[i] # NoSig
                                   => Verify(parts[i], h, SignedBy(before, asks, h)[i])
                              /\ before[i] # NoSig \/ parts[i].ak \in asks
                                   => SignedBy(before, asks, h)[i] # NoSig
BY SignatureOfVerifies DEF SignedBy

-----------------------------------------------------------------------------

\* The bundle that Builder::build returns satisfies the inductive invariant.
LEMMA InitIInv == Init => IInv
<1> SUFFICES ASSUME Init PROVE IInv
  OBVIOUS
<1>1. TypeOK
  <2>1. 0 \in 0 .. NumSpends + NumOutputs
    BY SigningAssumption DEF SigningAssumption
  <2>2. <<>> \in Seq(Sigs)
    OBVIOUS
  <2>3. QED
    BY <2>1, <2>2 DEF Init, TypeOK, Unsigned
<1>2. ProgressIsHonest
  BY DEF Init, ProgressIsHonest
<1>3. QED
  BY <1>1, <1>2 DEF Init, IInv, Unsigned, SignaturesValid, KeysSignEverySpend

\* create_proofs preserves the inductive invariant from beginning to end.
LEMMA ProvingStep ==
  ASSUME IInv, BeginCreateProofs \/ MapProof \/ EndCreateProofs
  PROVE  IInv'
<1> USE DEF IInv, TypeOK
<1>1. CASE BeginCreateProofs
  BY <1>1 DEF BeginCreateProofs, Idle, SignaturesValid, KeysSignEverySpend,
              ProgressIsHonest, Verify
<1>2. CASE MapProof
  <2>1. progress + 1 \in 0 .. NumSpends + NumOutputs /\ progress + 1 \in Items
    BY <1>2, SigningAssumption DEF MapProof, SigningAssumption, Items
  <2>2. 1 .. progress + 1 = (1 .. progress) \cup {progress + 1}
    BY <2>1, SigningAssumption DEF SigningAssumption
  <2>3. TypeOK'
    BY <1>2, <2>1 DEF MapProof
  <2>4. ProgressIsHonest'
    BY <1>2, <2>2 DEF MapProof, ProgressIsHonest
  <2>5. QED
    BY <1>2, <2>3, <2>4 DEF MapProof, SignaturesValid, KeysSignEverySpend, Verify
<1>3. CASE EndCreateProofs
  BY <1>3 DEF EndCreateProofs, Items, SignaturesValid, KeysSignEverySpend,
              ProgressIsHonest, Verify
<1>4. QED
  BY <1>1, <1>2, <1>3

\* prepare preserves it.
LEMMA PrepareStep ==
  ASSUME IInv, NEW h \in Sighashes, Prepare(h)
  PROVE  IInv'
<1> USE DEF IInv, TypeOK, Prepare
<1>1. TypeOK'
  BY PreparedIsSound
<1>2. SignaturesValid'
  BY PreparedIsSound DEF SignaturesValid, Verify
<1>3. KeysSignEverySpend'
  BY PreparedIsSound DEF KeysSignEverySpend
<1>4. QED
  BY <1>1, <1>2, <1>3 DEF ProgressIsHonest, Idle

\* sign preserves it.
LEMMA SignStep ==
  ASSUME IInv, NEW ask \in Asks, Sign(ask)
  PROVE  IInv'
<1> USE DEF IInv, TypeOK, Sign
<1>1. /\ auth' = SignedBy(auth, {ask}, sighash)
      /\ sighash \in Sighashes
      /\ \A i \in Spends : auth[i] # NoSig => Verify(parts[i], sighash, auth[i])
  BY DEF SignaturesValid
<1>2. TypeOK'
  BY <1>1, SignedByIsSound
<1>3. SignaturesValid'
  BY <1>1, SignedByIsSound DEF SignaturesValid, Verify
<1>4. KeysSignEverySpend'
  BY <1>1, SignedByIsSound DEF KeysSignEverySpend
<1>5. QED
  BY <1>2, <1>3, <1>4 DEF ProgressIsHonest, Idle

\* append_signatures preserves it, whether it succeeds or fails.
LEMMA AppendStep ==
  ASSUME IInv,
         \/ \E given \in SignatureLists : BeginAppendSignatures(given)
         \/ AppendSignature
         \/ EndAppendSignatures
  PROVE  IInv'
<1> USE DEF IInv, TypeOK
<1>1. ASSUME NEW given \in SignatureLists, BeginAppendSignatures(given)
      PROVE  IInv'
  <2>1. TypeOK'
    BY <1>1, SigningAssumption DEF BeginAppendSignatures, SigningAssumption
  <2>2. QED
    BY <1>1, <2>1 DEF BeginAppendSignatures, Idle, SignaturesValid,
                      KeysSignEverySpend, ProgressIsHonest, Verify
<1>2. ASSUME NEW error \in {"InvalidExternalSignature", "DuplicateSignature"},
             AppendFails(error), appending, queue # <<>>,
             UNCHANGED <<bundleVars, proofVars, sighash, bound, used>>
      PROVE  IInv'
  <2>1. queue' \in Seq(Sigs)
    BY <1>2 DEF AppendFails
  <2>2. TypeOK'
    BY <1>2, <2>1 DEF AppendFails, Unsigned
  <2>3. SignaturesValid' /\ KeysSignEverySpend'
    BY <1>2 DEF AppendFails, SignaturesValid, KeysSignEverySpend, Verify
  <2>4. QED
    BY <1>2, <2>2, <2>3 DEF AppendFails, ProgressIsHonest
<1>3. ASSUME NEW i \in Spends, appending, queue # <<>>,
             ValidFor(Head(queue)) = {i},
             auth' = [auth EXCEPT ![i] = Head(queue)],
             queue' = Tail(queue),
             UNCHANGED <<stage, appending, clone, result>>,
             UNCHANGED <<bundleVars, proofVars, sighash, bound, used>>
      PROVE  IInv'
  <2>1. Head(queue) \in Sigs /\ Tail(queue) \in Seq(Sigs)
    BY <1>3, HeadTailType
  <2>2. Head(queue) # NoSig
    BY <2>1, SigningAssumption DEF SigningAssumption
  <2>3. Verify(parts[i], sighash, Head(queue))
    BY <1>3 DEF ValidFor
  <2>4. TypeOK'
    BY <1>3, <2>1
  <2>5. SignaturesValid'
    BY <1>3, <2>3 DEF SignaturesValid, Verify
  <2>6. KeysSignEverySpend'
    BY <1>3, <2>2 DEF KeysSignEverySpend
  <2>7. QED
    BY <1>3, <2>4, <2>5, <2>6 DEF ProgressIsHonest, Verify
<1>4. CASE EndAppendSignatures
  BY <1>4 DEF EndAppendSignatures, Unsigned, SignaturesValid, KeysSignEverySpend,
              ProgressIsHonest, Verify
<1>5. QED
  BY <1>1, <1>2, <1>3, <1>4 DEF AppendSignature

\* finalize preserves it.
LEMMA FinalizeStep ==
  ASSUME IInv, Finalize
  PROVE  IInv'
BY DEF IInv, TypeOK, Finalize, MissingSignatures, Idle, SignaturesValid,
       KeysSignEverySpend, ProgressIsHonest, Verify

\* apply_signatures preserves it.
LEMMA ApplyStep ==
  ASSUME IInv, NEW h \in Sighashes, NEW asks \in AskSets, ApplySignatures(h, asks)
  PROVE  IInv'
<1> DEFINE signed == SignedBy(Prepared(h), asks, h)
<1> USE DEF IInv, TypeOK
<1>1. /\ signed \in [Spends -> Sigs \cup {NoSig}]
      /\ \A i \in Spends : signed[i] # NoSig => Verify(parts[i], h, signed[i])
  BY PreparedIsSound, SignedByIsSound
<1> HIDE DEF signed
<1>2. CASE /\ \A i \in Spends : signed[i] # NoSig
           /\ stage' = "authorized" /\ sighash' = h /\ auth' = signed
           /\ bound' = h /\ result' = "Ok"
  <2>1. TypeOK'
    BY <1>1, <1>2 DEF ApplySignatures
  <2>2. SignaturesValid' /\ KeysSignEverySpend'
    BY <1>1, <1>2 DEF ApplySignatures, SignaturesValid, KeysSignEverySpend, Verify
  <2>3. QED
    BY <1>2, <2>1, <2>2 DEF ApplySignatures, Idle, ProgressIsHonest
<1>3. CASE MissingSignatures /\ UNCHANGED <<sighash, auth, bound>>
  BY <1>3 DEF ApplySignatures, MissingSignatures, Idle, SignaturesValid,
              KeysSignEverySpend, ProgressIsHonest, Verify
<1>4. QED
  BY <1>2, <1>3 DEF ApplySignatures, signed

\* Every step of the in-progress bundle preserves the inductive invariant.
LEMMA StepIInv == IInv /\ [Next]_vars => IInv'
<1> SUFFICES ASSUME IInv, [Next]_vars PROVE IInv'
  OBVIOUS
<1>1. CASE BeginCreateProofs \/ CreateProofsLoop
  BY <1>1, ProvingStep DEF CreateProofsLoop
<1>2. CASE \E h \in Sighashes : Prepare(h)
  BY <1>2, PrepareStep
<1>3. CASE \E ask \in Asks : Sign(ask)
  BY <1>3, SignStep
<1>4. CASE \/ \E given \in SignatureLists : BeginAppendSignatures(given)
           \/ AppendSignaturesLoop
  BY <1>4, AppendStep DEF AppendSignaturesLoop
<1>5. CASE Finalize
  BY <1>5, FinalizeStep
<1>6. CASE \E h \in Sighashes, asks \in AskSets : ApplySignatures(h, asks)
  BY <1>6, ApplyStep
<1>7. CASE UNCHANGED vars
  BY <1>7 DEF vars, IInv, TypeOK, SignaturesValid, KeysSignEverySpend,
              ProgressIsHonest, Verify
<1>8. QED
  BY <1>1, <1>2, <1>3, <1>4, <1>5, <1>6, <1>7 DEF Next

\* The inductive invariant holds throughout.
THEOREM InductiveInvariant == Spec => []IInv
BY InitIInv, StepIInv, PTL DEF Spec

\* The state of an in-progress bundle stays well typed through every method.
THEOREM TypeCorrect == Spec => []TypeOK
<1>1. IInv => TypeOK
  BY DEF IInv
<1>2. QED
  BY <1>1, InductiveInvariant, PTL

\* Every signature a bundle holds is valid for its spend under the sighash of
\* the binding signature, wherever it came from.
THEOREM SignaturesAlwaysValid == Spec => []SignaturesValid
<1>1. IInv => SignaturesValid
  BY DEF IInv
<1>2. QED
  BY <1>1, InductiveInvariant, PTL

\* Dummies, and the spends of the keys that were given to sign, are never
\* without a signature.
THEOREM KeysAlwaysSign == Spec => []KeysSignEverySpend
<1>1. IInv => KeysSignEverySpend
  BY DEF IInv
<1>2. QED
  BY <1>1, InductiveInvariant, PTL

\* An authorized bundle has all its proofs and, for every spend, a signature
\* for the one sighash of the binding signature.
THEOREM AuthorizedComplete == Spec => []AuthorizedIsComplete
<1>1. IInv => AuthorizedIsComplete
  BY DEF IInv, AuthorizedIsComplete, SignaturesValid, ProgressIsHonest
<1>2. QED
  BY <1>1, InductiveInvariant, PTL

\* No step takes a signature away or replaces it, except that the caller of a
\* failed append_signatures may go on with the clone.
THEOREM SignaturesPermanent == Spec => SignaturesArePermanent
<1>1. ASSUME IInv, [Next]_vars, NEW i \in Spends, auth[i] # NoSig
      PROVE  \/ auth'[i] = auth[i]
             \/ appending /\ ~appending' /\ result' # "Ok" /\ auth' = clone
  <2> USE DEF IInv, TypeOK
  <2>1. CASE \/ BeginCreateProofs \/ CreateProofsLoop \/ EndAppendSignatures \/ Finalize
             \/ \E given \in SignatureLists : BeginAppendSignatures(given)
             \/ UNCHANGED vars
    BY <2>1 DEF BeginCreateProofs, CreateProofsLoop, MapProof, EndCreateProofs,
                EndAppendSignatures, Finalize, BeginAppendSignatures, vars
  <2>2. CASE \/ \E h \in Sighashes : Prepare(h)
             \/ \E h \in Sighashes, asks \in AskSets : ApplySignatures(h, asks)
    BY <1>1, <2>2 DEF Prepare, ApplySignatures
  <2>3. CASE \E ask \in Asks : Sign(ask)
    BY <1>1, <2>3 DEF Sign, SignedBy
  <2>4. CASE AppendSignature
    BY <1>1, <2>4 DEF AppendSignature, AppendFails, ValidFor
  <2>5. QED
    BY <1>1, <2>1, <2>2, <2>3, <2>4 DEF Next, AppendSignaturesLoop
<1>2. QED
  <2>1. IInv /\ [Next]_vars =>
          [\A i \in Spends : auth[i] # NoSig =>
             \/ auth'[i] = auth[i]
             \/ appending /\ ~appending' /\ result' # "Ok" /\ auth' = clone]_vars
    BY <1>1
  <2>2. QED
    BY <2>1, InductiveInvariant, PTL DEF Spec, SignaturesArePermanent

\* DuplicateSignature means that two spends share their randomized key.
THEOREM DuplicateIsReuse == Spec => []DuplicateMeansReuse
<1>1. Init => DuplicateMeansReuse
  BY DEF Init, DuplicateMeansReuse
<1>2. IInv /\ DuplicateMeansReuse /\ [Next]_vars => DuplicateMeansReuse'
  <2> SUFFICES ASSUME IInv, DuplicateMeansReuse, [Next]_vars PROVE DuplicateMeansReuse'
    OBVIOUS
  <2> USE DEF DuplicateMeansReuse
  <2>1. CASE AppendSignature
    BY <2>1 DEF AppendSignature, AppendFails, ValidFor, Verify
  <2>2. CASE ~AppendSignature
    BY <2>2 DEF Next, CreateProofsLoop, AppendSignaturesLoop, BeginCreateProofs, MapProof,
                EndCreateProofs, Prepare, Sign, BeginAppendSignatures,
                EndAppendSignatures, Finalize, ApplySignatures, MissingSignatures, vars
  <2>3. QED
    BY <2>1, <2>2
<1>3. QED
  BY <1>1, <1>2, InductiveInvariant, PTL DEF Spec

-----------------------------------------------------------------------------

\* A step that leaves the bundle open collects signatures and proofs.
LEMMA OpenIsCollect ==
  ASSUME IInv, IInv', Status = "open", Status' = "open"
  PROVE  Abstract!Collect
<1>1. BoundSighash' = BoundSighash
  BY DEF Status, BoundSighash
<1>2. /\ [i \in Spends |-> ValidSighash(i)]' \in [Spends -> Sighashes \cup {NoSighash}]
      /\ proofs' \subseteq Items
  <2>1. \A i \in Spends : auth'[i] \in Sigs => auth'[i].msg \in Sighashes
    BY DEF Sigs
  <2>2. \A i \in Spends : ValidSighash(i)' \in Sighashes \cup {NoSighash}
    BY <2>1 DEF IInv, TypeOK, ValidSighash
  <2>3. QED
    BY <2>2 DEF IInv, TypeOK
<1>3. QED
  BY <1>1, <1>2 DEF Abstract!Collect

\* The step that authorizes the bundle is Authorization's, over the sighash
\* that the bundle was prepared for.
LEMMA AuthorizedIsAuthorize ==
  ASSUME IInv, IInv', Status = "open", Status' = "authorized"
  PROVE  \E h \in Sighashes : Abstract!Authorize(h)
<1>1. stage' = "authorized" /\ sighash' \in Sighashes /\ bound' = sighash'
  BY DEF Status, IInv, SignaturesValid
<1>2. \A i \in Spends : ValidSighash(i)' = sighash'
  BY <1>1 DEF IInv, SignaturesValid, ValidSighash, Verify
<1>3. proofs' = Items
  BY <1>1 DEF IInv, ProgressIsHonest
<1>4. Abstract!Authorize(sighash')
  BY <1>1, <1>2, <1>3 DEF Abstract!Authorize, BoundSighash
<1>5. QED
  BY <1>1, <1>4

\* The step that drops the bundle abandons it and touches nothing else.
LEMMA DroppedIsAbandon ==
  ASSUME IInv, [Next]_vars, Status = "open", Status' = "abandoned"
  PROVE  Abstract!Abandon
<1>1. stage' = "dropped" /\ stage # "dropped" /\ stage # "authorized"
  BY DEF Status
<1>2. UNCHANGED <<parts, auth, proofs>>
  BY <1>1 DEF Next, CreateProofsLoop, AppendSignaturesLoop, BeginCreateProofs, MapProof,
              EndCreateProofs, Prepare, Sign, BeginAppendSignatures, AppendSignature,
              AppendFails, EndAppendSignatures, Finalize, ApplySignatures, vars
<1>3. UNCHANGED <<[i \in Spends |-> ValidSighash(i)], proofs, BoundSighash>>
  BY <1>1, <1>2 DEF ValidSighash, BoundSighash
<1>4. QED
  BY <1>3 DEF Abstract!Abandon

\* An authorized or dropped bundle does not change any more.
LEMMA ClosedIsFinal ==
  ASSUME IInv, [Next]_vars, Status # "open"
  PROVE  UNCHANGED vars
BY DEF Status, IInv, Next, CreateProofsLoop, AppendSignaturesLoop, BeginCreateProofs,
       MapProof, EndCreateProofs, Prepare, Sign, BeginAppendSignatures, AppendSignature,
       EndAppendSignatures, Finalize, ApplySignatures

\* The in-progress bundle implements Authorization: it becomes authorized in
\* one step, over one sighash, with every signature valid and every proof made.
THEOREM RefinesAuthorization == Spec => ImplementsAuthorization
<1>1. Init => Abstract!Init
  BY DEF Init, Unsigned, Abstract!Init, Status, BoundSighash, ValidSighash
<1>2. IInv /\ IInv' /\ [Next]_vars => [Abstract!Next]_Abstract!vars
  <2> SUFFICES ASSUME IInv, IInv', [Next]_vars PROVE [Abstract!Next]_Abstract!vars
    OBVIOUS
  <2>1. CASE Status # "open"
    <3>1. UNCHANGED vars
      BY <2>1, ClosedIsFinal
    <3>2. QED
      BY <3>1 DEF vars, Abstract!vars, Status, BoundSighash, ValidSighash
  <2>2. CASE Status = "open" /\ Status' = "open"
    BY <2>2, OpenIsCollect DEF Abstract!Next
  <2>3. CASE Status = "open" /\ Status' = "authorized"
    BY <2>3, AuthorizedIsAuthorize DEF Abstract!Next
  <2>4. CASE Status = "open" /\ Status' = "abandoned"
    BY <2>4, DroppedIsAbandon DEF Abstract!Next
  <2>5. QED
    BY <2>1, <2>2, <2>3, <2>4 DEF Status
<1>3. QED
  BY <1>1, <1>2, InductiveInvariant, PTL DEF Spec, ImplementsAuthorization, Abstract!Spec

=============================================================================
