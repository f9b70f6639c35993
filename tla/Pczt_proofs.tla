---------------------------- MODULE Pczt_proofs ----------------------------
(***************************************************************************)
(* Proofs about Pczt, for any number of spends and outputs, any keys,      *)
(* randomizers and sighashes, and any fields that may be redacted.         *)
(***************************************************************************)
EXTENDS Pczt, TLAPS

USE DEF bundleVars, txVars, historyVars

\* A signature made with a spend's own key and randomizer is a signature.
LEMMA SignatureOfType ==
  ASSUME NEW i \in Spends, NEW h \in Sighashes, rk \in [Spends -> RandomizedKeys]
  PROVE  SignatureOf(i, h) \in Sigs /\ SignatureOf(i, h) # NoSig
BY PcztAssumption DEF PcztAssumption, SignatureOf, Sigs

-----------------------------------------------------------------------------

\* The bundle that a Constructor hands on satisfies the inductive invariant.
LEMMA InitIInv == Init => IInv
BY DEF Init, IInv, TypeOK, Unsigned, SignaturesFit, DummiesAwaitFinalizer,
       FinalizedDummiesAreSigned, ExtractedIsComplete, BoundLast, Dummies, Keys,
       Carriers, LostDummies

\* The Updater and redaction preserve it.
LEMMA UpdateStep ==
  ASSUME IInv,
         \/ \E i \in Spends, key \in UpdaterKeys : SetProofGenerationKey(i, key)
         \/ \E field \in Redactable : Redact(field)
  PROVE  IInv'
<1> USE DEF IInv, TypeOK, SignaturesFit, DummiesAwaitFinalizer, FinalizedDummiesAreSigned,
            ExtractedIsComplete, BoundLast, AllVerify, Verify, LostDummies, Dummies, Carriers
<1>1. CASE \E i \in Spends, key \in UpdaterKeys : SetProofGenerationKey(i, key)
  BY <1>1, PcztAssumption DEF SetProofGenerationKey, PcztAssumption
<1>2. CASE \E field \in Redactable : Redact(field)
  BY <1>2 DEF Redact
<1>3. QED
  BY <1>1, <1>2

\* The IO Finalizer preserves it, however far it gets.
LEMMA FinalizeStep ==
  ASSUME IInv, NEW h \in Sighashes, IoFinalizer(h)
  PROVE  IInv'
<1> USE DEF IoFinalizer
<1>1. CASE UNCHANGED <<dummy_ask, spend_auth_sig, bsk, historyVars>> /\ result' = IoError
  BY <1>1 DEF IoError, IoErrors, IInv, TypeOK, SignaturesFit, DummiesAwaitFinalizer,
              FinalizedDummiesAreSigned, ExtractedIsComplete, BoundLast, AllVerify, Verify,
              LostDummies, Dummies, Carriers
<1>2. CASE /\ IoError = "Ok"
           /\ bsk' = TRUE
           /\ dummy_ask' = Kept
           /\ spend_auth_sig' =
                [i \in Spends |-> IF i \in Taken \ Unsignable THEN SignatureOf(i, h)
                                  ELSE spend_auth_sig[i]]
           /\ result' = IF Unsignable = {} THEN "Ok" ELSE "DummySignature"
           /\ finalized' = (finalized \/ Unsignable = {})
           /\ io_sighash' = [i \in Spends |-> IF i \in Taken THEN h ELSE io_sighash[i]]
  <2> USE <1>2
  <2>1. value_sum = "net"
    BY DEF IoError, IInv, TypeOK
  <2>2. /\ Taken \subseteq Carriers /\ Carriers' = Carriers \ Taken
        /\ Dummies' = Dummies
        /\ Carriers \subseteq Spends /\ Dummies \subseteq Spends
    BY DEF Taken, Kept, IInv, TypeOK, Dummies, Carriers
  <2>3. TypeOK'
    <3>1. dummy_ask' \in [Spends -> Keys \cup {NoKey}]
      BY DEF Kept, IInv, TypeOK
    <3>2. spend_auth_sig' \in [Spends -> Sigs \cup {NoSig}]
      BY SignatureOfType DEF IInv, TypeOK
    <3>3. QED
      BY <3>1, <3>2 DEF IInv, TypeOK, IoErrors
  <2>4. SignaturesFit'
    BY DEF IInv, SignaturesFit, SignatureOf
  <2>5. DummiesAwaitFinalizer'
    BY <2>1, <2>2 DEF IInv, DummiesAwaitFinalizer
  <2>6. FinalizedDummiesAreSigned'
    <3>1. Unsignable = {} => Carriers' = {}
      BY <2>2 DEF Taken
    <3>2. finalized => Carriers = {}
      BY DEF IInv, FinalizedDummiesAreSigned
    <3>3. ASSUME NEW i \in Dummies, spend_auth_sig'[i] # NoSig
          PROVE  io_sighash'[i] # NoSighash /\ spend_auth_sig'[i].msg = io_sighash'[i]
      <4>1. CASE i \in Taken
        <5>1. spend_auth_sig[i] = NoSig
          BY <2>2, <4>1 DEF IInv, DummiesAwaitFinalizer
        <5>2. spend_auth_sig'[i] = SignatureOf(i, h) /\ io_sighash'[i] = h
          BY <2>2, <3>3, <4>1, <5>1
        <5>3. QED
          BY <5>2, PcztAssumption DEF PcztAssumption, SignatureOf
      <4>2. CASE i \notin Taken
        BY <2>2, <3>3, <4>2 DEF IInv, FinalizedDummiesAreSigned
      <4>3. QED
        BY <4>1, <4>2
    <3>4. QED
      BY <2>2, <3>1, <3>2, <3>3 DEF FinalizedDummiesAreSigned
  <2>7. ExtractedIsComplete'
    <3> SUFFICES ASSUME tx # "none" PROVE ExtractedIsComplete'
      BY DEF ExtractedIsComplete
    <3>1. \A i \in Dummies : i \notin Carriers
      <4>1. ASSUME NEW i \in Dummies PROVE io_sighash[i] # NoSighash
        <5>1. tx_sigs[i] \in Sigs /\ tx_sigs[i].msg = io_sighash[i]
          BY <2>2 DEF IInv, TypeOK, ExtractedIsComplete
        <5>2. tx_sigs[i].msg \in Sighashes
          BY <5>1 DEF Sigs
        <5>3. QED
          BY <5>1, <5>2, PcztAssumption DEF PcztAssumption
      <4>2. QED
        BY <2>2, <4>1 DEF IInv, DummiesAwaitFinalizer
    <3>2. \A i \in Dummies : /\ spend_auth_sig'[i] = spend_auth_sig[i]
                             /\ dummy_ask'[i] = dummy_ask[i]
                             /\ io_sighash'[i] = io_sighash[i]
      BY <2>2, <3>1 DEF Kept, Dummies
    <3>3. LostDummies' = LostDummies
      BY <2>2, <3>2 DEF LostDummies
    <3>4. QED
      BY <2>2, <3>1, <3>2, <3>3 DEF IInv, ExtractedIsComplete
  <2>8. BoundLast'
    BY DEF IInv, BoundLast, AllVerify, Verify
  <2>9. QED
    BY <2>3, <2>4, <2>5, <2>6, <2>7, <2>8 DEF IInv
<1>3. QED
  BY <1>1, <1>2 DEF FinalizeIo

\* The Prover preserves it: proofs are added in order and never removed.
LEMMA ProverStep ==
  ASSUME IInv, CreateProofs
  PROVE  IInv'
<1> USE DEF CreateProofs
<1>1. \A i \in Spends : i \in Proven => proof_generation_key[i] # NoKey
  <2> SUFFICES ASSUME NEW i \in Spends, i \in Proven, proof_generation_key[i] = NoKey
               PROVE  FALSE
    OBVIOUS
  <2>1. i \in Unprovable
    BY DEF Unprovable, SpendProvable
  <2>2. i < i
    BY <2>1 DEF Proven
  <2>3. i \in Nat
    BY PcztAssumption DEF PcztAssumption, Spends
  <2>4. QED
    BY <2>2, <2>3
<1>2. Outputs \cap Proven # {} => \A i \in Spends : i \in Proven
  <2> SUFFICES ASSUME NEW o \in Outputs, o \in Proven, NEW i \in Spends
               PROVE  i \in Proven
    OBVIOUS
  <2>1. i \in Nat /\ o \in Nat /\ i < o
    BY PcztAssumption DEF PcztAssumption, Spends, Outputs
  <2>2. \A j \in Unprovable : j \in Nat
    BY PcztAssumption DEF PcztAssumption, Unprovable, Spends, Outputs
  <2>3. QED
    BY <2>1, <2>2 DEF Proven, Items
<1>3. TypeOK'
  <2>1. Dummies' = Dummies
    BY DEF Dummies
  <2>2. zkproof' \in [Spends -> Keys \cup {NoKey}]
    BY DEF IInv, TypeOK
  <2>3. output_proofs' # {} => \A i \in Spends : zkproof'[i] # NoKey
    BY <1>1, <1>2 DEF IInv, TypeOK
  <2>4. QED
    BY <2>1, <2>2, <2>3 DEF IInv, TypeOK
<1>4. ExtractedIsComplete'
  BY <1>1, <1>3 DEF IInv, TypeOK, ExtractedIsComplete, LostDummies, Dummies, Carriers
<1>5. QED
  BY <1>3, <1>4 DEF IInv, SignaturesFit, DummiesAwaitFinalizer, FinalizedDummiesAreSigned,
                    BoundLast, AllVerify, Verify, LostDummies, Dummies, Carriers

\* The Signer preserves it: it only puts a valid signature on a spend of one
\* of the wallet's keys, which is no dummy.
LEMMA SignerStep ==
  ASSUME IInv,
         \/ \E i \in Spends, ask \in Asks, h \in Sighashes : Sign(i, ask, h)
         \/ \E i \in Spends, sig \in Sigs, h \in Sighashes :
              sig.rk.ak \in Asks /\ ApplySignature(i, sig, h)
  PROVE  IInv'
<1>1. ASSUME UNCHANGED spend_auth_sig, result' \in SignerErrors,
             UNCHANGED <<bundleVars, present, proof_generation_key, dummy_ask, zkproof,
                         output_proofs, bsk, txVars, historyVars>>
      PROVE  IInv'
  BY <1>1 DEF IInv, TypeOK, SignaturesFit, DummiesAwaitFinalizer, FinalizedDummiesAreSigned,
              ExtractedIsComplete, BoundLast, AllVerify, Verify, LostDummies, Dummies, Carriers
<1>2. ASSUME NEW i \in Spends, NEW sig \in Sigs, sig.rk = rk[i], rk[i].ak \in Asks,
             spend_auth_sig' = [spend_auth_sig EXCEPT ![i] = sig], result' = "Ok",
             UNCHANGED <<bundleVars, present, proof_generation_key, dummy_ask, zkproof,
                         output_proofs, bsk, txVars, historyVars>>
      PROVE  IInv'
  <2>1. i \notin Dummies /\ Dummies' = Dummies
    BY <1>2, PcztAssumption DEF PcztAssumption, Dummies
  <2>2. \A j \in Dummies : spend_auth_sig'[j] = spend_auth_sig[j]
    BY <1>2, <2>1 DEF IInv, TypeOK, Dummies
  <2>3. LostDummies' = LostDummies
    BY <1>2, <2>1, <2>2 DEF LostDummies
  <2>4. TypeOK'
    BY <1>2, <2>1 DEF IInv, TypeOK
  <2>5. SignaturesFit'
    BY <1>2 DEF IInv, TypeOK, SignaturesFit
  <2>6. DummiesAwaitFinalizer' /\ FinalizedDummiesAreSigned'
    <3>1. Carriers' = Carriers
      BY <1>2 DEF Carriers
    <3>2. QED
      BY <1>2, <2>1, <2>2, <3>1 DEF IInv, DummiesAwaitFinalizer, FinalizedDummiesAreSigned
  <2>7. ExtractedIsComplete' /\ BoundLast'
    BY <1>2, <2>1, <2>3 DEF IInv, ExtractedIsComplete, BoundLast, AllVerify, Verify
  <2>8. QED
    BY <2>4, <2>5, <2>6, <2>7 DEF IInv
<1>3. ASSUME NEW i \in Spends, NEW ask \in Asks, NEW h \in Sighashes, Sign(i, ask, h)
      PROVE  IInv'
  <2>1. SignatureOf(i, h) \in Sigs /\ SignatureOf(i, h).rk = rk[i]
    BY SignatureOfType DEF IInv, TypeOK, SignatureOf
  <2>2. QED
    BY <1>1, <1>2, <1>3, <2>1 DEF Sign, SignerErrors
<1>4. ASSUME NEW i \in Spends, NEW sig \in Sigs, NEW h \in Sighashes,
             sig.rk.ak \in Asks, ApplySignature(i, sig, h)
      PROVE  IInv'
  BY <1>1, <1>2, <1>4 DEF ApplySignature, SignerErrors, Verify
<1>5. QED
  BY <1>3, <1>4

\* Extraction preserves it: extract succeeds only on a complete bundle.
LEMMA ExtractStep ==
  ASSUME IInv, NEW inV \in BOOLEAN, Extract(inV)
  PROVE  IInv'
<1> USE DEF Extract
<1>1. result' \in {"Ok"} \cup ExtractErrors
  BY DEF ExtractError, ExtractErrors
<1>2. CASE ExtractError(inV) # "Ok"
  BY <1>1, <1>2 DEF IInv, TypeOK, SignaturesFit, DummiesAwaitFinalizer,
              FinalizedDummiesAreSigned, ExtractedIsComplete, BoundLast, AllVerify, Verify,
              LostDummies, Dummies, Carriers
<1>3. CASE ExtractError(inV) = "Ok"
  <2>1. Lacking = {} /\ output_proofs = Outputs /\ bsk
    BY <1>3 DEF ExtractError
  <2>2. LostDummies = {} /\ LostDummies' = LostDummies /\ Dummies' = Dummies
    BY <2>1 DEF Lacking, LostDummies, Dummies, Carriers
  <2>3. TypeOK'
    BY <1>1, <1>3, <2>2 DEF IInv, TypeOK
  <2>4. ExtractedIsComplete'
    BY <1>3, <2>1, <2>2 DEF IInv, FinalizedDummiesAreSigned, ExtractedIsComplete, Lacking, Dummies
  <2>5. Carriers' = Carriers
    BY DEF Carriers
  <2>6. QED
    BY <1>3, <2>2, <2>3, <2>4, <2>5 DEF IInv, SignaturesFit, DummiesAwaitFinalizer,
                            FinalizedDummiesAreSigned, BoundLast
<1>4. QED
  BY <1>2, <1>3

\* apply_binding_signature preserves it: it binds the transaction or drops it.
LEMMA BindStep ==
  ASSUME IInv, NEW h \in Sighashes, ApplyBindingSignature(h)
  PROVE  IInv'
BY DEF ApplyBindingSignature, IInv, TypeOK, Unsigned, SignaturesFit, DummiesAwaitFinalizer,
       FinalizedDummiesAreSigned, ExtractedIsComplete, BoundLast, AllVerify, Verify,
       LostDummies, Dummies, Carriers

\* Every role's step preserves the inductive invariant.
LEMMA StepIInv == IInv /\ [Next]_vars => IInv'
<1> SUFFICES ASSUME IInv, [Next]_vars PROVE IInv'
  OBVIOUS
<1>1. CASE UNCHANGED vars
  BY <1>1 DEF vars, IInv, TypeOK, SignaturesFit, DummiesAwaitFinalizer,
              FinalizedDummiesAreSigned, ExtractedIsComplete, BoundLast, AllVerify, Verify,
              LostDummies, Dummies, Carriers
<1>2. QED
  BY <1>1, UpdateStep, FinalizeStep, ProverStep, SignerStep, ExtractStep, BindStep DEF Next

\* The inductive invariant holds throughout.
THEOREM InductiveInvariant == Spec => []IInv
BY InitIInv, StepIInv, PTL DEF Spec

\* A transaction comes out authorized only over one sighash, fully signed,
\* with the net value as its balance and the sighash the dummies fixed.
THEOREM AuthorizedSound == Spec => []AuthorizedIsSound
<1>1. IInv => AuthorizedIsSound
  BY DEF IInv, AuthorizedIsSound, BoundLast, AllVerify, Verify, ExtractedIsComplete,
         DummiesAwaitFinalizer, Dummies
<1>2. QED
  BY <1>1, InductiveInvariant, PTL

\* Once a dummy is lost it stays lost, and nothing is ever extracted again.
THEOREM LostDummiesFinal == Spec => LostDummiesAreFinal
<1>1. ASSUME IInv, [Next]_vars, LostDummies # {}
      PROVE  LostDummies' # {} /\ tx' = tx
  <2>1. tx = "none"
    BY <1>1 DEF IInv, ExtractedIsComplete
  <2>2. ASSUME NEW h \in Sighashes, IoFinalizer(h)
        PROVE  LostDummies \subseteq LostDummies' /\ tx' = tx
    <3>1. \A i \in LostDummies : i \notin Taken \ Unsignable
      BY DEF Taken, Unsignable, LostDummies, Dummies
    <3>2. \A i \in LostDummies : Kept[i] # DummyAsk
      BY PcztAssumption DEF PcztAssumption, Keys, Kept, LostDummies, Dummies
    <3>3. QED
      BY <2>2, <3>1, <3>2 DEF IoFinalizer, FinalizeIo, LostDummies, Dummies
  <2>3. ASSUME NEW i \in Spends, NEW ask \in Asks, NEW h \in Sighashes, Sign(i, ask, h)
        PROVE  LostDummies' = LostDummies /\ tx' = tx
    <3>1. i \in Dummies => rk[i].ak # ask
      BY PcztAssumption DEF PcztAssumption, Dummies
    <3>2. QED
      BY <1>1, <2>3, <3>1 DEF Sign, LostDummies, Dummies, Carriers, IInv, TypeOK
  <2>4. ASSUME NEW i \in Spends, NEW sig \in Sigs, NEW h \in Sighashes,
               sig.rk.ak \in Asks, ApplySignature(i, sig, h)
        PROVE  LostDummies' = LostDummies /\ tx' = tx
    <3>1. i \in Dummies => ~Verify(rk[i], h, sig)
      BY <2>4, PcztAssumption DEF PcztAssumption, Dummies, Verify
    <3>2. QED
      BY <1>1, <2>4, <3>1 DEF ApplySignature, LostDummies, Dummies, Carriers, IInv, TypeOK
  <2>5. ASSUME NEW inV \in BOOLEAN, Extract(inV)
        PROVE  LostDummies' = LostDummies /\ tx' = tx
    <3>1. Lacking # {}
      BY <1>1 DEF Lacking, LostDummies, Dummies, Carriers
    <3>2. ExtractError(inV) # "Ok"
      BY <3>1 DEF ExtractError
    <3>3. QED
      BY <2>5, <3>2 DEF Extract, LostDummies, Dummies, Carriers
  <2>6. ASSUME \/ \E i \in Spends, key \in UpdaterKeys : SetProofGenerationKey(i, key)
               \/ \E field \in Redactable : Redact(field)
               \/ CreateProofs
               \/ UNCHANGED vars
        PROVE  LostDummies' = LostDummies /\ tx' = tx
    BY <2>6 DEF SetProofGenerationKey, Redact, CreateProofs, vars, LostDummies, Dummies, Carriers
  <2>7. ASSUME NEW h \in Sighashes, ApplyBindingSignature(h)
        PROVE  FALSE
    BY <2>1, <2>7 DEF ApplyBindingSignature
  <2>8. QED
    BY <1>1, <2>2, <2>3, <2>4, <2>5, <2>6, <2>7 DEF Next
<1>2. QED
  <2>1. IInv /\ [Next]_vars => [LostDummies # {} => LostDummies' # {} /\ tx' = tx]_vars
    BY <1>1
  <2>2. QED
    BY <2>1, InductiveInvariant, PTL DEF Spec, LostDummiesAreFinal

-----------------------------------------------------------------------------

AbstractStatus == IF tx = "authorized" THEN "authorized" ELSE "open"
ValidForAll == [i \in Spends |-> ValidFor(i)]

\* A step that does not authorize collects proofs and signatures.
LEMMA OpenIsCollect ==
  ASSUME IInv, IInv', tx # "authorized", tx' # "authorized"
  PROVE  Abstract!Collect
<1>1. UNCHANGED <<AbstractStatus, tx_bound>>
  BY DEF IInv, BoundLast, AbstractStatus
<1>2. \A sig \in Sigs : sig.msg \in Sighashes
  BY DEF Sigs
<1>3. ValidForAll' \in [Spends -> Sighashes \cup {NoSighash}]
  BY <1>2 DEF IInv, TypeOK, ValidFor, ValidForAll
<1>4. ProvenItems' \subseteq Items
  BY DEF IInv, TypeOK, ProvenItems, Items
<1>5. QED
  BY <1>1, <1>3, <1>4 DEF Abstract!Collect, AbstractStatus, ValidForAll

\* apply_binding_signature authorizes over the sighash that it was given.
LEMMA BindIsAuthorize ==
  ASSUME IInv, IInv', tx # "authorized", tx' = "authorized"
  PROVE  \E h \in Sighashes : Abstract!Authorize(h)
<1>1. tx_bound' \in Sighashes
  BY DEF IInv, BoundLast
<1>2. \A i \in Spends : tx_sigs'[i] # NoSig /\ tx_sigs'[i].rk = rk'[i] /\ tx_sigs'[i].msg = tx_bound'
  BY DEF IInv, BoundLast, AllVerify, Verify, ExtractedIsComplete
<1>3. ValidForAll' = [i \in Spends |-> tx_bound']
  BY <1>2 DEF ValidFor, ValidForAll
<1>4. ProvenItems' = Items
  BY DEF ProvenItems
<1>5. Abstract!Authorize(tx_bound')
  BY <1>1, <1>3, <1>4 DEF Abstract!Authorize, ValidForAll
<1>6. QED
  BY <1>1, <1>5

\* Nothing that the roles do to the PCZT touches an authorized transaction.
LEMMA AuthorizedIsFinal ==
  ASSUME IInv, [Next]_vars, tx = "authorized"
  PROVE  UNCHANGED <<rk, tx, tx_sigs, tx_bound>>
BY DEF Next, SetProofGenerationKey, Redact, IoFinalizer, CreateProofs, Sign, ApplySignature,
       Extract, ApplyBindingSignature, vars

\* The roles, in any order and with any failures, implement Authorization.
THEOREM RefinesAuthorization == Spec => ImplementsAuthorization
<1>1. Init => Abstract!Init
  BY DEF Init, Unsigned, Abstract!Init, ValidFor, ProvenItems
<1>2. IInv /\ IInv' /\ [Next]_vars => [Abstract!Next]_Abstract!vars
  <2> SUFFICES ASSUME IInv, IInv', [Next]_vars PROVE [Abstract!Next]_Abstract!vars
    OBVIOUS
  <2>1. CASE tx = "authorized"
    <3>1. UNCHANGED <<rk, tx, tx_sigs, tx_bound>>
      BY <2>1, AuthorizedIsFinal
    <3>2. UNCHANGED <<ValidForAll, ProvenItems>>
      BY <2>1, <3>1 DEF ValidFor, ValidForAll, ProvenItems
    <3>3. QED
      BY <3>1, <3>2 DEF Abstract!vars, ValidForAll
  <2>2. CASE tx # "authorized" /\ tx' # "authorized"
    BY <2>2, OpenIsCollect DEF Abstract!Next
  <2>3. CASE tx # "authorized" /\ tx' = "authorized"
    BY <2>3, BindIsAuthorize DEF Abstract!Next
  <2>4. QED
    BY <2>1, <2>2, <2>3
<1>3. QED
  BY <1>1, <1>2, InductiveInvariant, PTL DEF Spec, ImplementsAuthorization, Abstract!Spec
=============================================================================
