-------------------------------- MODULE Pczt --------------------------------
(***************************************************************************)
(* The Sapling bundle of a partially created transaction, src/src/pczt.rs, *)
(* and the roles that work on it: Updater, IO Finalizer, Prover, Signer    *)
(* and Transaction Extractor.  Redaction, which the pczt crate does by     *)
(* serializing a bundle without some optional fields and parsing it again, *)
(* is external.                                                            *)
(*                                                                         *)
(* The roles mutate the bundle in place and in no fixed order, and a role  *)
(* that fails half-way leaves what it did.  Keys and signatures are        *)
(* symbolic as in Signing; value commitments are abstracted to what        *)
(* finalize_io compares, whether value_sum is the value that they commit   *)
(* to, some other value, or no 64-bit value at all.                        *)
(***************************************************************************)
EXTENDS Integers, FiniteSets, FiniteSetsExt

CONSTANTS
  NumSpends, NumOutputs,  \* how many descriptions the bundle has
  Asks, DummyAsk,         \* wallet keys, and the key of dummy notes
  UpdaterKeys,            \* what set_proof_generation_key may be given
  Alphas,                 \* spend authorization randomizers
  Sighashes, NoSighash, NoKey, NoSig,
  Redactable              \* which fields may be redacted

Spends == 1 .. NumSpends
Outputs == NumSpends + 1 .. NumSpends + NumOutputs
Items == Spends \cup Outputs

Keys == Asks \cup {DummyAsk}
RandomizedKeys == [ak : Keys, alpha : Alphas]
Sigs == [rk : RandomizedKeys, msg : Sighashes]

\* The optional fields the roles require; "note" is recipient, value, rseed.
Fields == Spends \X {"note", "alpha", "rcv", "witness"} \cup Outputs \X {"note", "rcv"}

ASSUME PcztAssumption ==
  /\ NumSpends \in Nat /\ NumOutputs \in Nat /\ NumSpends + NumOutputs > 0
  /\ DummyAsk \notin Asks /\ UpdaterKeys \subseteq Keys
  /\ NoSighash \notin Sighashes /\ NoKey \notin Keys /\ NoSig \notin Sigs
  /\ Redactable \subseteq Fields

VARIABLES
  rk,                    \* the randomized key of each spend
  value_sum,             \* "net", "other" or "out_of_range"
  present,               \* the optional fields that are there
  proof_generation_key,  \* of each spend: the key it belongs to, or NoKey
  dummy_ask,             \* of each spend: the spend authorizing key it carries, or NoKey
  zkproof,               \* of each spend: the key it was proven for, or NoKey
  output_proofs,         \* the outputs that have their proof
  spend_auth_sig,        \* of each spend: a signature or NoSig
  bsk,                   \* is the binding signature key set
  tx,                    \* "none", "unbound" or "authorized"
  tx_sigs, tx_bound,     \* its spend authorization and binding signatures
  result,                \* what the last role returned
  finalized,             \* history: has finalize_io returned Ok
  io_sighash             \* history, of each spend: the sighash of the finalize_io
                         \* that took its dummy_ask

bundleVars == <<rk, value_sum>>
txVars == <<tx, tx_sigs, tx_bound>>
historyVars == <<finalized, io_sighash>>
vars == <<rk, value_sum, present, proof_generation_key, dummy_ask, zkproof,
          output_proofs, spend_auth_sig, bsk, tx, tx_sigs, tx_bound, result,
          finalized, io_sighash>>

\* The spends that no wallet can sign for
Dummies == {i \in Spends : rk[i].ak = DummyAsk}
Unsigned == [i \in Spends |-> NoSig]

Verify(key, h, sig) == sig.rk = key /\ sig.msg = h

\* ask.randomize(alpha).sign(sighash)
SignatureOf(i, h) == [rk |-> rk[i], msg |-> h]

-----------------------------------------------------------------------------

\* The bundle that a Constructor hands on: from build_for_pczt a dummy, and no
\* other spend, comes with its own key, and value_sum may be too large.  In a
\* parsed bundle either may be anything, as parse compares them with nothing.
Init ==
  /\ rk \in [Spends -> RandomizedKeys]
  /\ value_sum \in {"net", "other", "out_of_range"}
  /\ present = Fields
  /\ proof_generation_key = [i \in Spends |-> IF i \in Dummies THEN DummyAsk ELSE NoKey]
  /\ dummy_ask \in [Spends -> Keys \cup {NoKey}]
  /\ zkproof = [i \in Spends |-> NoKey]
  /\ output_proofs = {}
  /\ spend_auth_sig = Unsigned
  /\ bsk = FALSE
  /\ tx = "none" /\ tx_sigs = Unsigned /\ tx_bound = NoSighash
  /\ result = "Ok"
  /\ finalized = FALSE
  /\ io_sighash = [i \in Spends |-> NoSighash]

\* Updater: set_proof_generation_key, which checks nothing
SetProofGenerationKey(i, key) ==
  /\ proof_generation_key' = [proof_generation_key EXCEPT ![i] = key]
  /\ result' = "Ok"
  /\ UNCHANGED <<bundleVars, present, dummy_ask, zkproof, output_proofs,
                 spend_auth_sig, bsk, txVars, historyVars>>

Redact(field) ==
  /\ field \in present
  /\ present' = present \ {field}
  /\ UNCHANGED <<bundleVars, proof_generation_key, dummy_ask, zkproof, output_proofs,
                 spend_auth_sig, bsk, txVars, result, historyVars>>

-----------------------------------------------------------------------------
(* IO Finalizer                                                             *)

\* A variant that does not compare the two forms of the binding key.
IoErrorUncompared ==
  IF \E i \in Items : <<i, "rcv">> \notin present THEN "MissingValueCommitTrapdoor"
  ELSE IF value_sum = "out_of_range" THEN "InvalidValueSum" ELSE "Ok"

\* What finalize_io returns before it changes anything, if it is an error
IoError ==
  IF \E i \in Items : <<i, "rcv">> \notin present THEN "MissingValueCommitTrapdoor"
  ELSE IF value_sum = "out_of_range" THEN "InvalidValueSum"
  ELSE IF value_sum = "other" THEN "ValueCommitMismatch" ELSE "Ok"

Carriers == {i \in Spends : dummy_ask[i] # NoKey}

\* The spends that finalize_io cannot sign: the randomizer is missing, or the
\* key they carry is not the one that rk was made from.
Unsignable ==
  {i \in Carriers : <<i, "alpha">> \notin present \/ rk[i].ak # dummy_ask[i]}

\* The spends whose key finalize_io takes: up to the first it cannot sign
Taken == {i \in Carriers : \A j \in Unsignable : i <= j}

\* A variant that leaves every key where it is.
KeptAll == dummy_ask

\* The keys that finalize_io leaves
Kept == [i \in Spends |-> IF i \in Taken THEN NoKey ELSE dummy_ask[i]]

FinalizeIo(h) ==
  \/ /\ IoError # "Ok"
     /\ result' = IoError
     /\ UNCHANGED <<dummy_ask, spend_auth_sig, bsk, historyVars>>
  \/ /\ IoError = "Ok"
     /\ bsk' = TRUE
     /\ dummy_ask' = Kept
     /\ spend_auth_sig' =
          [i \in Spends |-> IF i \in Taken \ Unsignable THEN SignatureOf(i, h)
                            ELSE spend_auth_sig[i]]
     /\ result' = IF Unsignable = {} THEN "Ok" ELSE "DummySignature"
     /\ finalized' = (finalized \/ Unsignable = {})
     /\ io_sighash' = [i \in Spends |-> IF i \in Taken THEN h ELSE io_sighash[i]]

IoFinalizer(h) ==
  /\ FinalizeIo(h)
  /\ UNCHANGED <<bundleVars, present, proof_generation_key, zkproof, output_proofs, txVars>>

-----------------------------------------------------------------------------
(* Prover                                                                   *)

SpendProvable(i) ==
  /\ proof_generation_key[i] # NoKey
  /\ {i} \X {"note", "alpha", "rcv", "witness"} \subseteq present

Unprovable ==
  {i \in Spends : ~SpendProvable(i)}
    \cup {j \in Outputs : ~({j} \X {"note", "rcv"} \subseteq present)}

\* create_proofs works through the spends, then the outputs, up to the first
\* that misses something it needs.
Proven == {i \in Items : \A j \in Unprovable : i < j}

CreateProofs ==
  /\ zkproof' = [i \in Spends |-> IF i \in Proven THEN proof_generation_key[i] ELSE zkproof[i]]
  /\ output_proofs' = output_proofs \cup (Outputs \cap Proven)
  /\ result' = IF Unprovable = {} THEN "Ok" ELSE "ProverError"
  /\ UNCHANGED <<bundleVars, present, proof_generation_key, dummy_ask, spend_auth_sig,
                 bsk, txVars, historyVars>>

-----------------------------------------------------------------------------
(* Signer                                                                   *)

\* Spend::sign, which signs over a signature that may already be there
Sign(i, ask, h) ==
  /\ \/ /\ <<i, "alpha">> \notin present
        /\ result' = "MissingSpendAuthRandomizer"
        /\ UNCHANGED spend_auth_sig
     \/ /\ <<i, "alpha">> \in present
        /\ rk[i].ak # ask
        /\ result' = "WrongSpendAuthorizingKey"
        /\ UNCHANGED spend_auth_sig
     \/ /\ <<i, "alpha">> \in present
        /\ rk[i].ak = ask
        /\ spend_auth_sig' = [spend_auth_sig EXCEPT ![i] = SignatureOf(i, h)]
        /\ result' = "Ok"
  /\ UNCHANGED <<bundleVars, present, proof_generation_key, dummy_ask, zkproof,
                 output_proofs, bsk, txVars, historyVars>>

\* Spend::apply_signature, with a signature made elsewhere
ApplySignature(i, sig, h) ==
  /\ IF Verify(rk[i], h, sig)
       THEN /\ spend_auth_sig' = [spend_auth_sig EXCEPT ![i] = sig]
            /\ result' = "Ok"
       ELSE /\ result' = "InvalidExternalSignature"
            /\ UNCHANGED spend_auth_sig
  /\ UNCHANGED <<bundleVars, present, proof_generation_key, dummy_ask, zkproof,
                 output_proofs, bsk, txVars, historyVars>>

-----------------------------------------------------------------------------
(* Transaction Extractor                                                    *)

\* A variant that does not ask for signatures.
LackingProof == {i \in Spends : zkproof[i] = NoKey}

\* The spends that cannot be extracted
Lacking == {i \in Spends : zkproof[i] = NoKey \/ spend_auth_sig[i] = NoSig}

\* The error that extract returns, for the first description that is lacking;
\* inV says whether the caller's type V takes the value of value_sum.
ExtractError(inV) ==
  IF Lacking # {}
    THEN IF zkproof[Min(Lacking)] = NoKey THEN "MissingProof" ELSE "MissingSpendAuthSig"
  ELSE IF output_proofs # Outputs THEN "MissingProof"
  ELSE IF value_sum = "out_of_range" \/ ~inV THEN "ValueSumOutOfRange"
  ELSE IF ~bsk THEN "MissingBindingSignatureSigningKey" ELSE "Ok"

\* extract copies the bundle, which the other roles may go on working with.
Extract(inV) ==
  /\ tx = "none"
  /\ result' = ExtractError(inV)
  /\ IF ExtractError(inV) = "Ok"
       THEN tx' = "unbound" /\ tx_sigs' = spend_auth_sig
       ELSE UNCHANGED <<tx, tx_sigs>>
  /\ UNCHANGED <<bundleVars, present, proof_generation_key, dummy_ask, zkproof,
                 output_proofs, spend_auth_sig, bsk, tx_bound, historyVars>>

\* A variant that only looks whether the signatures are there.
AllVerifyPresent(h) == \A i \in Spends : tx_sigs[i] # NoSig

AllVerify(h) == \A i \in Spends : Verify(rk[i], h, tx_sigs[i])

\* apply_binding_signature consumes the extracted bundle: it returns it bound,
\* or nothing.
ApplyBindingSignature(h) ==
  /\ tx = "unbound"
  /\ IF AllVerify(h)
       THEN tx' = "authorized" /\ tx_bound' = h /\ result' = "Ok" /\ UNCHANGED tx_sigs
       ELSE tx' = "none" /\ tx_sigs' = Unsigned /\ result' = "None" /\ UNCHANGED tx_bound
  /\ UNCHANGED <<bundleVars, present, proof_generation_key, dummy_ask, zkproof,
                 output_proofs, spend_auth_sig, bsk, historyVars>>

Next ==
  \/ \E i \in Spends, key \in UpdaterKeys : SetProofGenerationKey(i, key)
  \/ \E field \in Redactable : Redact(field)
  \/ \E h \in Sighashes : IoFinalizer(h)
  \/ CreateProofs
  \/ \E i \in Spends, ask \in Asks, h \in Sighashes : Sign(i, ask, h)
  \/ \E i \in Spends, sig \in Sigs, h \in Sighashes :
       sig.rk.ak \in Asks /\ ApplySignature(i, sig, h)
  \/ \E inV \in BOOLEAN : Extract(inV)
  \/ \E h \in Sighashes : ApplyBindingSignature(h)

Spec == Init /\ [][Next]_vars

-----------------------------------------------------------------------------
(* Properties                                                               *)

IoErrors == {"MissingValueCommitTrapdoor", "InvalidValueSum", "ValueCommitMismatch",
             "DummySignature"}
SignerErrors == {"MissingSpendAuthRandomizer", "WrongSpendAuthorizingKey",
                 "InvalidExternalSignature"}
ExtractErrors == {"MissingProof", "MissingSpendAuthSig", "ValueSumOutOfRange",
                  "MissingBindingSignatureSigningKey"}

\* Every field holds what it may hold; and as the Prover goes through the
\* spends before the outputs, a bundle with an output proof has all of its
\* spend proofs.
TypeOK ==
  /\ rk \in [Spends -> RandomizedKeys]
  /\ value_sum \in {"net", "other", "out_of_range"}
  /\ present \in SUBSET Fields
  /\ proof_generation_key \in [Spends -> Keys \cup {NoKey}]
  /\ dummy_ask \in [Spends -> Keys \cup {NoKey}]
  /\ zkproof \in [Spends -> Keys \cup {NoKey}]
  /\ output_proofs \in SUBSET Outputs
  /\ spend_auth_sig \in [Spends -> Sigs \cup {NoSig}]
  /\ bsk \in BOOLEAN
  /\ tx \in {"none", "unbound", "authorized"}
  /\ tx_sigs \in [Spends -> Sigs \cup {NoSig}]
  /\ tx_bound \in Sighashes \cup {NoSighash}
  /\ result \in {"Ok", "None", "ProverError"} \cup IoErrors \cup SignerErrors \cup ExtractErrors
  /\ finalized \in BOOLEAN
  /\ io_sighash \in [Spends -> Sighashes \cup {NoSighash}]
  /\ output_proofs # {} => \A i \in Spends : zkproof[i] # NoKey

\* A signature is for the spend that holds it, in the PCZT and in what was
\* extracted from it.
SignaturesFit ==
  \A i \in Spends : /\ spend_auth_sig[i] # NoSig => spend_auth_sig[i].rk = rk[i]
                    /\ tx_sigs[i] # NoSig => tx_sigs[i].rk = rk[i]

\* A dummy that carries a key is still to be signed; no key is taken until
\* the checks of finalize_io have passed on a value_sum that is the net value,
\* and a key that was taken never comes back.
DummiesAwaitFinalizer ==
  /\ \A i \in Dummies \cap Carriers : spend_auth_sig[i] = NoSig
  /\ \A i \in Spends : io_sighash[i] # NoSighash => bsk /\ i \notin Carriers
  /\ bsk => value_sum = "net"

\* The dummies that can not be signed any more: their key was taken by a
\* finalize_io that could not sign, or they never carried the right one.
LostDummies ==
  {i \in Dummies : dummy_ask[i] # DummyAsk /\ spend_auth_sig[i] = NoSig}

\* After finalize_io has returned Ok no spend authorizing key is left in the
\* PCZT, and a dummy that is signed stays signed for the sighash of the
\* finalize_io that took its key, whatever was redacted, signed or retried.
FinalizedDummiesAreSigned ==
  /\ finalized => bsk /\ Carriers = {}
  /\ \A i \in Dummies :
       spend_auth_sig[i] # NoSig =>
         io_sighash[i] # NoSighash /\ spend_auth_sig[i].msg = io_sighash[i]

\* What was extracted has every proof and signature, a finalize_io passed its
\* checks before, and its dummies are signed for the sighash that was given.
ExtractedIsComplete ==
  tx # "none" =>
    /\ bsk /\ LostDummies = {}
    /\ output_proofs = Outputs
    /\ \A i \in Spends : zkproof[i] # NoKey /\ tx_sigs[i] # NoSig
    /\ \A i \in Dummies : tx_sigs[i].msg = io_sighash[i]

\* The binding signature comes last, over a sighash that every spend
\* authorization signature is valid for.
BoundLast ==
  /\ tx # "authorized" => tx_bound = NoSighash
  /\ tx = "authorized" => tx_bound \in Sighashes /\ AllVerify(tx_bound)

IInv ==
  /\ TypeOK
  /\ SignaturesFit
  /\ DummiesAwaitFinalizer
  /\ FinalizedDummiesAreSigned
  /\ ExtractedIsComplete
  /\ BoundLast

\* Roles may run in any order, repeat and fail: a transaction that comes out
\* authorized is nevertheless over one sighash, with a valid signature for
\* every spend, and its value balance is the one the commitments add up to,
\* so that the binding signature verifies.  Only the IO Finalizer can sign for
\* a dummy, and it does so once: the transaction can only be over the sighash
\* that each dummy's key was taken for, by one finalize_io or by several.
AuthorizedIsSound ==
  tx = "authorized" =>
    /\ \A i \in Spends : Verify(rk[i], tx_bound, tx_sigs[i])
    /\ value_sum = "net"
    /\ \A i \in Dummies : io_sighash[i] = tx_bound

\* A retry does not bring back a dummy that was lost: nothing is ever
\* extracted from the PCZT any more, although finalize_io may return Ok.
LostDummiesAreFinal ==
  [][LostDummies # {} => LostDummies' # {} /\ tx' = tx]_vars

\* The sighash that the spends' signatures count for: those of the extracted
\* transaction once there is one, else those of the PCZT
ValidFor(i) ==
  LET sig == IF tx = "none" THEN spend_auth_sig[i] ELSE tx_sigs[i]
  IN IF sig # NoSig /\ sig.rk = rk[i] THEN sig.msg ELSE NoSighash

ProvenItems ==
  IF tx = "none" THEN {i \in Spends : zkproof[i] # NoKey} \cup output_proofs ELSE Items

Abstract == INSTANCE Authorization WITH
  status <- IF tx = "authorized" THEN "authorized" ELSE "open",
  valid_for <- [i \in Spends |-> ValidFor(i)],
  proven <- ProvenItems,
  bound <- tx_bound

\* The roles together authorize a bundle the way Authorization promises.
ImplementsAuthorization == Abstract!Spec

=============================================================================
