------------------------------ MODULE PcztFields ------------------------------
(***************************************************************************)
(* The contents of a PCZT's Sapling bundle, where module Pczt has its flow:*)
(* what parse makes of an encoding (pczt/parse.rs), the checks of a Signer *)
(* (pczt/verify.rs, Zip32Derivation in pczt.rs), the proofs that           *)
(* create_proofs makes of the fields, the descriptions that extract makes  *)
(* of them, and their way through the v5 format, which splits descriptions *)
(* (bundle.rs).                                                            *)
(*                                                                         *)
(* A bundle of one spend and one output, past its IO Finalizer, arrives    *)
(* with up to two of its fields redacted, replaced or malformed.  The pczt *)
(* crate, which splits the encoding into fields, and the order in which a  *)
(* Signer makes its checks are external.                                   *)
(***************************************************************************)
EXTENDS SaplingStatements

CONSTANTS
  Spenders,    \* proof generation keys of the notes that are spent
  DummyKey,    \* expanded spending key of a dummy note
  Accounts,    \* expanded spending keys of the Signer's accounts, by index
  Recipient,   \* the address paid
  NoteValues,
  Deviations   \* of a field: <<"spend", "output" or "bundle", field, encoding>>

\* Bytes that do not decode
Malformed == <<"malformed", "encoding">>

\* What does: an address has a valid diversifier, an ak is not of small order,
\* and a position is a u32, that of some leaf.  Every value is one.
Decodes(field, x) ==
  /\ field = "value" => x = None \/ x = Some(x[1])
  /\ x \notin {None, Malformed} =>
       /\ field = "recipient" => x[1].diversifier \in ValidDiversifiers
       /\ field = "proof_generation_key" => x[1].ak # SmallOrderPoint
       /\ field = "witness" => x[1].position \in 0 .. 2 ^ NOTE_COMMITMENT_TREE_DEPTH - 1

ASSUME FieldsAssumption ==
  /\ NoteValues \subseteq Nat
  /\ DOMAIN Accounts \subseteq Nat
  /\ \A pgk \in Spenders : Decodes("proof_generation_key", Some(pgk))
  /\ Decodes("recipient", Some(Recipient))
  /\ \A d \in Deviations : Decodes(d[2], d[3])

VARIABLES
  scenario,    \* the note that the Constructor spends
  deviations,  \* of the encoding from what the Constructor's would be
  pczt,        \* Option: the parsed bundle
  parsing,     \* what parse returned, or None
  approved,    \* history: the account that the Signer has signed for, or None
  tx           \* Option: the extracted descriptions
fieldVars == <<scenario, deviations, pczt, parsing, approved, tx>>

hardened(i) == FirstHardened + i
SeedFp == <<"seed_fp", "wallet">>
CoinType == hardened(1)

\* The first of these that is an error
FirstError(results) ==
  LET errors == {i \in DOMAIN results : results[i] # "Ok"}
  IN  IF errors = {} THEN "Ok"
      ELSE results[CHOOSE i \in errors : \A j \in errors : i <= j]
Missing(field, error) == IF field = None THEN error ELSE "Ok"
Bad(field, error) == IF field = Malformed THEN error ELSE "Ok"

-----------------------------------------------------------------------------
(* The Constructor (builder.rs)                                             *)

\* A note of one of the keys, or a dummy note
Scenarios ==
  [pgk : Spenders, value : NoteValues, zip212 : BOOLEAN, dummy : {FALSE}]
    \cup [pgk : {proof_generation_key(DummyKey)}, value : {0}, zip212 : {TRUE}, dummy : {TRUE}]

SpentNote(s) ==
  Note(ToPaymentAddress(Ivk(to_viewing_key(s.pgk)), CHOOSE d \in ValidDiversifiers : TRUE)[1],
       s.value, IF s.zip212 THEN AfterZip212(<<"r">>) ELSE BeforeZip212(<<"r">>))
NoteTree(s) == <<<<"another cmu">>, cmu(SpentNote(s))>>

\* SpendInfo::dummy makes up its path.
NoteWitness(s) ==
  IF s.dummy THEN [position |-> 0, path_elems |-> [l \in Levels |-> <<"random", l>>]]
  ELSE MerklePathOf(NoteTree(s), 1)

\* PreparedSpendInfo::into_pczt, the derivation that an Updater adds, and the
\* IO Finalizer's signature of a dummy
SpendOf(s) ==
  LET note == SpentNote(s)
      vk == to_viewing_key(s.pgk)
      alpha == <<"alpha">>
      rcv == <<"rcv">>
      witness == NoteWitness(s)
  IN  [cv |-> ValueCommit(note.value, rcv),
       nullifier |-> nf(note, vk.nk, witness.position),
       rk |-> randomize(vk.ak, alpha),
       recipient |-> Some(note.recipient), value |-> Some(note.value),
       rcm |-> IF s.zip212 THEN None ELSE Some(<<"r">>),
       rseed |-> IF s.zip212 THEN Some(<<"r">>) ELSE None,
       rcv |-> Some(rcv),
       proof_generation_key |-> IF s.dummy THEN Some(s.pgk) ELSE None,
       witness |-> Some(witness), alpha |-> Some(alpha),
       zip32_derivation |->
         IF s.dummy THEN None
         ELSE Some([seed_fingerprint |-> SeedFp,
                    derivation_path |-> <<hardened(32), CoinType, hardened(0)>>]),
       dummy_ask |-> None, zkproof |-> None,
       spend_auth_sig |-> IF s.dummy THEN Some(randomize(vk.ak, alpha)) ELSE None]

\* PreparedOutputInfo::into_pczt
OutputOf(value) ==
  LET note == Note(Recipient, value, AfterZip212(<<"s">>))
      rcv == <<"output_rcv">>
      g_d == diversify_hash(note.recipient.diversifier)[1]
  IN  [cv |-> ValueCommit(value, rcv), cmu |-> cmu(note),
       ephemeral_key |-> ka_sapling_derive_public(generate_or_derive_esk(note, <<"random">>), g_d),
       enc_ciphertext |-> <<"enc">>, out_ciphertext |-> <<"out">>,
       recipient |-> Some(note.recipient), value |-> Some(value), rseed |-> Some(<<"s">>),
       rcv |-> Some(rcv), ock |-> None, zip32_derivation |-> None, zkproof |-> None]

\* What arrives
Encoding ==
  LET honest == [spend |-> SpendOf(scenario), output |-> OutputOf(scenario.value),
                 bundle |-> [anchor |-> RootOf(NoteTree(scenario)), bsk |-> Some(<<"bsk">>)]]
      Deviant(part, field) == {d \in deviations : d[1] = part /\ d[2] = field}
  IN  [part \in {"spend", "output", "bundle"} |->
         [field \in DOMAIN honest[part] |->
            IF Deviant(part, field) = {} THEN honest[part][field]
            ELSE (CHOOSE d \in Deviant(part, field) : TRUE)[3]]]

FieldsInit ==
  /\ scenario \in Scenarios
  /\ deviations \in {{}} \cup {{d, e} : d, e \in Deviations}
  /\ \A d, e \in deviations : d = e \/ d[1] # e[1] \/ d[2] # e[2]
  /\ pczt = None /\ parsing = None /\ approved = None /\ tx = None

-----------------------------------------------------------------------------
(* Parsing (pczt/parse.rs)                                                  *)

\* rcm and rseed: at most one of them
SeedError(e) ==
  IF e.rcm # None /\ e.rseed # None THEN "MixedNoteCommitRandomnessAndRseed"
  ELSE Bad(e.rcm, "InvalidNoteCommitRandomness")

\* A variant that reads rcm as the seed it would be derived from.
RcmAsSeed(e) ==
  IF e.rcm # None THEN Some(AfterZip212(e.rcm[1]))
  ELSE IF e.rseed # None THEN Some(AfterZip212(e.rseed[1])) ELSE None
SeedOf(e) ==
  IF e.rcm # None THEN Some(BeforeZip212(e.rcm[1]))
  ELSE IF e.rseed # None THEN Some(AfterZip212(e.rseed[1])) ELSE None

\* Zip32Derivation::parse
derivation_error(derivation) ==
  IF derivation # None /\ \E i \in DOMAIN derivation[1].derivation_path :
                             derivation[1].derivation_path[i] < FirstHardened
  THEN "InvalidZip32Derivation" ELSE "Ok"

\* Spend::parse.  A nullifier, a value, a seed and a proof are any bytes.
spend_error(e) ==
  FirstError(<<derivation_error(e.zip32_derivation),
               Bad(e.cv, "InvalidValueCommitment"), Bad(e.rk, "InvalidRandomizedKey"),
               Bad(e.recipient, "InvalidRecipient"), SeedError(e),
               Bad(e.rcv, "InvalidValueCommitTrapdoor"),
               Bad(e.proof_generation_key, "InvalidProofGenerationKey"),
               Bad(e.witness, "InvalidWitness"), Bad(e.alpha, "InvalidSpendAuthRandomizer"),
               Bad(e.dummy_ask, "InvalidDummySpendAuthorizingKey")>>)

\* Output::parse.  An ephemeral key and an ock are any bytes.
output_error(e) ==
  FirstError(<<derivation_error(e.zip32_derivation),
               Bad(e.cv, "InvalidValueCommitment"),
               Bad(e.cmu, "InvalidExtractedNoteCommitment"),
               Bad(e.enc_ciphertext, "InvalidEncCiphertext"),
               Bad(e.out_ciphertext, "InvalidOutCiphertext"),
               Bad(e.recipient, "InvalidRecipient"),
               Bad(e.rcv, "InvalidValueCommitTrapdoor")>>)

\* Bundle::parse
bundle_error(e) ==
  FirstError(<<Bad(e.anchor, "InvalidAnchor"),
               Bad(e.bsk, "InvalidBindingSignatureSigningKey")>>)

Parse ==
  LET error == FirstError(<<spend_error(Encoding.spend), output_error(Encoding.output),
                            bundle_error(Encoding.bundle)>>)
  IN  /\ parsing = None
      /\ parsing' = Some(error)
      /\ pczt' = IF error # "Ok" THEN None
                 ELSE Some([spend |-> [Encoding.spend EXCEPT !.rcm = None,
                                                            !.rseed = SeedOf(Encoding.spend)],
                            output |-> Encoding.output, anchor |-> Encoding.bundle.anchor,
                            bsk |-> Encoding.bundle.bsk])
      /\ UNCHANGED <<scenario, deviations, approved, tx>>

Bundle == pczt[1]

-----------------------------------------------------------------------------
(* Updater                                                                  *)

\* set_proof_generation_key: its check is still to be written.
SetProofGenerationKey(pgk) ==
  /\ pczt # None
  /\ pczt' = Some([Bundle EXCEPT !.spend.proof_generation_key = Some(pgk)])
  /\ UNCHANGED <<scenario, deviations, parsing, approved, tx>>

-----------------------------------------------------------------------------
(* Checks (pczt/verify.rs).  fvk: the viewing key that the caller expects,  *)
(* or None                                                                  *)

\* verify_cv of a spend and of an output
verify_cv(item) ==
  LET missing == FirstError(<<Missing(item.value, "MissingValue"),
                              Missing(item.rcv, "MissingValueCommitTrapdoor")>>)
  IN  IF missing # "Ok" THEN missing
      ELSE IF ValueCommit(item.value[1], item.rcv[1]) = item.cv THEN "Ok"
      ELSE "InvalidValueCommitment"

vk_for_validation(spend, fvk) ==
  IF spend.proof_generation_key = None THEN fvk[1]
  ELSE to_viewing_key(spend.proof_generation_key[1])

\* A variant that ignores the expected key as soon as there is another.
vk_error_unexpected(spend, fvk) ==
  IF spend.proof_generation_key = None /\ fvk = None THEN "MissingProofGenerationKey"
  ELSE "Ok"

\* The error that vk_for_validation returns: the expected key must be that of
\* proof_generation_key, but for a note without value.
vk_error(spend, fvk) ==
  IF spend.proof_generation_key = None
  THEN IF fvk = None THEN "MissingProofGenerationKey" ELSE "Ok"
  ELSE IF \/ fvk = None
          \/ to_viewing_key(spend.proof_generation_key[1]) = fvk[1]
          \/ spend.value = Some(0)
       THEN "Ok" ELSE "MismatchedFullViewingKey"

SpendNote(spend) == Note(spend.recipient[1], spend.value[1], spend.rseed[1])

Owns(vk, address) == ToPaymentAddress(Ivk(vk), address.diversifier) = Some(address)

verify_nullifier(spend, fvk) ==
  LET missing == FirstError(<<vk_error(spend, fvk), Missing(spend.recipient, "MissingRecipient"),
                              Missing(spend.value, "MissingValue"),
                              Missing(spend.rseed, "MissingRandomSeed")>>)
      vk == vk_for_validation(spend, fvk)
  IN  IF missing # "Ok" THEN missing
      ELSE IF ~Owns(vk, spend.recipient[1]) THEN "WrongFvkForNote"
      ELSE IF spend.witness = None THEN "MissingWitness"
      ELSE IF nf(SpendNote(spend), vk.nk, spend.witness[1].position) = spend.nullifier
      THEN "Ok" ELSE "InvalidNullifier"

verify_rk(spend, fvk) ==
  LET missing == FirstError(<<vk_error(spend, fvk),
                              Missing(spend.alpha, "MissingSpendAuthRandomizer")>>)
  IN  IF missing # "Ok" THEN missing
      ELSE IF randomize(vk_for_validation(spend, fvk).ak, spend.alpha[1]) = spend.rk THEN "Ok"
      ELSE "InvalidRandomizedVerificationKey"

OutputNote(output) ==
  Note(output.recipient[1], output.value[1], AfterZip212(output.rseed[1]))

verify_note_commitment(output) ==
  LET missing == FirstError(<<Missing(output.recipient, "MissingRecipient"),
                              Missing(output.value, "MissingValue"),
                              Missing(output.rseed, "MissingRandomSeed")>>)
  IN  IF missing # "Ok" THEN missing
      ELSE IF cmu(OutputNote(output)) = output.cmu THEN "Ok"
      ELSE "InvalidExtractedNoteCommitment"

-----------------------------------------------------------------------------
(* Signer                                                                   *)

\* Zip32Derivation::extract_account_index
extract_account_index(derivation, seed_fp, expected_coin_type) ==
  IF /\ derivation.seed_fingerprint = seed_fp
     /\ Len(derivation.derivation_path) = 3
     /\ derivation.derivation_path[1] = hardened(32)
     /\ derivation.derivation_path[2] = expected_coin_type
  THEN Some(derivation.derivation_path[3] - FirstHardened) ELSE None

\* The account that the spend says it belongs to
AccountOf(spend) ==
  IF spend.zip32_derivation = None THEN None
  ELSE extract_account_index(spend.zip32_derivation[1], SeedFp, CoinType)

\* Spend::sign
sign_error(spend, ask) ==
  IF spend.alpha = None THEN "MissingSpendAuthRandomizer"
  ELSE IF randomize(SpendValidatingKey(ask), spend.alpha[1]) = spend.rk THEN "Ok"
  ELSE "WrongSpendAuthorizingKey"

KeyOf(account) == proof_generation_key(Accounts[account])

\* The first check that fails, of a Signer that makes every check there is
signer_error(account) ==
  LET spend == Bundle.spend
      output == Bundle.output
      fvk == Some(to_viewing_key(KeyOf(account)))
  IN  FirstError(<<verify_cv(spend), verify_nullifier(spend, fvk), verify_rk(spend, fvk),
                   verify_cv(output), verify_note_commitment(output),
                   sign_error(spend, Accounts[account].ask)>>)

\* It signs for its accounts, and must reject a PCZT with a dummy_ask.
Sign(account) ==
  /\ pczt # None
  /\ Bundle.spend.dummy_ask = None /\ AccountOf(Bundle.spend) = Some(account)
  /\ signer_error(account) = "Ok"
  /\ pczt' = Some([Bundle EXCEPT !.spend.spend_auth_sig = Some(Bundle.spend.rk)])
  /\ approved' = Some(account)
  /\ UNCHANGED <<scenario, deviations, parsing, tx>>

-----------------------------------------------------------------------------
(* Prover (pczt/prover.rs)                                                  *)

spend_prover_error(spend) ==
  LET missing == FirstError(<<Missing(spend.proof_generation_key, "MissingProofGenerationKey"),
                              Missing(spend.recipient, "MissingRecipient"),
                              Missing(spend.value, "MissingValue"),
                              Missing(spend.rseed, "MissingRandomSeed"),
                              Missing(spend.alpha, "MissingSpendAuthRandomizer"),
                              Missing(spend.rcv, "MissingValueCommitTrapdoor"),
                              Missing(spend.witness, "MissingWitness")>>)
  IN  IF missing # "Ok" THEN missing
      ELSE IF spend.recipient[1].diversifier \notin ValidDiversifiers THEN "InvalidDiversifier"
      ELSE "Ok"

\* The spend's proof, of its fields and the bundle's anchor
prove_spend(spend, anchor) ==
  LET note == SpendNote(spend)
  IN  ProveSpend(PrepareSpend(spend.proof_generation_key[1], note.recipient.diversifier,
                              note.rseed, note.value, spend.alpha[1], spend.rcv[1], anchor,
                              spend.witness[1])[1])

output_prover_error(output) ==
  FirstError(<<Missing(output.recipient, "MissingRecipient"),
               Missing(output.value, "MissingValue"), Missing(output.rseed, "MissingRandomSeed"),
               Missing(output.rcv, "MissingValueCommitTrapdoor")>>)

\* esk is derived again from the seed.
prove_output(output) ==
  LET note == OutputNote(output)
  IN  ProveOutput(PrepareOutput(generate_or_derive_esk(note, <<"other_random">>),
                                note.recipient, rcm_of(note.rseed), note.value, output.rcv[1]))

\* Fails at the first description that lacks a field, having proven the
\* spend if it is the output.
CreateProofs ==
  /\ pczt # None
  /\ spend_prover_error(Bundle.spend) = "Ok"
  /\ pczt' = Some([Bundle EXCEPT
       !.spend.zkproof = Some(prove_spend(Bundle.spend, Bundle.anchor)),
       !.output.zkproof = IF output_prover_error(Bundle.output) # "Ok" THEN @
                          ELSE Some(prove_output(Bundle.output))])
  /\ UNCHANGED <<scenario, deviations, parsing, approved, tx>>

-----------------------------------------------------------------------------
(* Transaction Extractor (pczt/tx_extractor.rs), and the v5 format          *)

SpendDescription(spend, anchor, zkproof) ==
  [cv |-> spend.cv, anchor |-> anchor, nullifier |-> spend.nullifier, rk |-> spend.rk,
   zkproof |-> zkproof, spend_auth_sig |-> spend.spend_auth_sig[1]]
OutputDescription(output, zkproof) ==
  [cv |-> output.cv, cmu |-> output.cmu, ephemeral_key |-> output.ephemeral_key,
   enc_ciphertext |-> output.enc_ciphertext, out_ciphertext |-> output.out_ciphertext,
   zkproof |-> zkproof]

extract_error ==
  FirstError(<<Missing(Bundle.spend.zkproof, "MissingProof"),
               Missing(Bundle.spend.spend_auth_sig, "MissingSpendAuthSig"),
               Missing(Bundle.output.zkproof, "MissingProof"),
               Missing(Bundle.bsk, "MissingBindingSignatureSigningKey")>>)

\* extract, to_tx_data; the balance is that of module Pczt.
Extract ==
  /\ pczt # None /\ tx = None
  /\ extract_error = "Ok"
  /\ tx' = Some([spend |-> SpendDescription(Bundle.spend, Bundle.anchor, Bundle.spend.zkproof[1]),
                 output |-> OutputDescription(Bundle.output, Bundle.output.zkproof[1])])
  /\ UNCHANGED <<scenario, deviations, pczt, parsing, approved>>

\* SpendDescriptionV5::into_spend_description
into_spend_description(v5, anchor, zkproof, sig) ==
  [cv |-> v5.cv, anchor |-> anchor, nullifier |-> v5.nullifier, rk |-> v5.rk,
   zkproof |-> zkproof, spend_auth_sig |-> sig]

\* OutputDescriptionV5::into_output_description
into_output_description(v5, zkproof) ==
  [cv |-> v5.cv, cmu |-> v5.cmu, ephemeral_key |-> v5.ephemeral_key,
   enc_ciphertext |-> v5.enc_ciphertext, out_ciphertext |-> v5.out_ciphertext,
   zkproof |-> zkproof]

\* A v5 transaction is written and read.  It has room for one anchor for all
\* of its spends: the reader supplies that one, or by mistake another.
ReadV5(anchor) ==
  LET spend == tx[1].spend
      output == tx[1].output
      v5 == [cv |-> spend.cv, nullifier |-> spend.nullifier, rk |-> spend.rk]
      output_v5 == [cv |-> output.cv, cmu |-> output.cmu, ephemeral_key |-> output.ephemeral_key,
                    enc_ciphertext |-> output.enc_ciphertext,
                    out_ciphertext |-> output.out_ciphertext]
  IN  /\ tx # None
      /\ tx' = Some([spend |-> into_spend_description(v5, anchor, spend.zkproof,
                                                      spend.spend_auth_sig),
                     output |-> into_output_description(output_v5, output.zkproof)])
      /\ UNCHANGED <<scenario, deviations, pczt, parsing, approved>>

OtherAnchor == RootOf(<<>>)

FieldsNext ==
  \/ Parse
  \/ \E pgk \in Spenders : SetProofGenerationKey(pgk)
  \/ \E account \in DOMAIN Accounts : Sign(account)
  \/ CreateProofs
  \/ Extract
  \/ pczt # None /\ \E anchor \in {Bundle.anchor, OtherAnchor} : ReadV5(anchor)

FieldsSpec == FieldsInit /\ [][FieldsNext]_fieldVars

-----------------------------------------------------------------------------
(* Properties                                                               *)

\* What a Signer has signed for is what its fields say: a note of its account,
\* of the shown value and place in the tree, that the nullifier and the value
\* commitment reveal, and an output of the shown value to the shown address,
\* whatever proof generation key the Updater put in.  Only a note without
\* value may be somebody else's.
ApprovedIsOwn ==
  approved # None =>
    LET spend == Bundle.spend
        output == Bundle.output
        vk == to_viewing_key(KeyOf(approved[1]))
    IN  /\ AccountOf(spend) = approved
        /\ spend.cv = ValueCommit(spend.value[1], spend.rcv[1])
        /\ spend.value # Some(0) =>
             /\ Owns(vk, spend.recipient[1])
             /\ spend.nullifier = nf(SpendNote(spend), vk.nk, spend.witness[1].position)
        /\ output.cmu = cmu(OutputNote(output))
        /\ output.cv = ValueCommit(output.value[1], output.rcv[1])

\* The conditions that no method checks: the witness leads to the anchor, and
\* the ephemeral key is the note's.
Anchored(spend, anchor) ==
  spend.value = Some(0) \/
    SpendRoot(PrepareSpend(spend.proof_generation_key[1], spend.recipient[1].diversifier,
                           spend.rseed[1], spend.value[1], spend.alpha[1], spend.rcv[1],
                           anchor, spend.witness[1])[1]) = anchor
KeyIsTheNotes(output) ==
  output.ephemeral_key =
    ka_sapling_derive_public(generate_or_derive_esk(OutputNote(output), <<"random">>),
                             diversify_hash(output.recipient[1].diversifier)[1])

\* The Prover checks nothing: the proof it makes is valid exactly if the checks
\* pass without an expected key, and two conditions hold that they leave out.
\* Of the recipient only its diversifier is proven, so this is about a
\* proof_generation_key that owns the note.
ChecksAreExact ==
  pczt # None =>
    LET spend == Bundle.spend
        output == Bundle.output
    IN  /\ (/\ spend_prover_error(spend) = "Ok"
            /\ Owns(to_viewing_key(spend.proof_generation_key[1]), spend.recipient[1]))
             => SpendVerifies([cv |-> spend.cv, anchor |-> Bundle.anchor, rk |-> spend.rk,
                               nullifier |-> spend.nullifier,
                               zkproof |-> prove_spend(spend, Bundle.anchor)])
                  = (/\ FirstError(<<verify_cv(spend), verify_nullifier(spend, None),
                                     verify_rk(spend, None)>>) = "Ok"
                     /\ Anchored(spend, Bundle.anchor))
        /\ output_prover_error(output) = "Ok"
             => OutputVerifies([cv |-> output.cv, cmu |-> output.cmu,
                                ephemeral_key |-> output.ephemeral_key,
                                zkproof |-> prove_output(output)])
                  = (/\ FirstError(<<verify_cv(output), verify_note_commitment(output)>>) = "Ok"
                     /\ KeyIsTheNotes(output))

\* A bundle that arrives as it was built is good for every role, whichever
\* form its randomness has: it parses, the Signer of its account approves it
\* with and without a proof generation key, and with the right one its proofs
\* verify, a dummy's with a made-up path too.
HonestSucceeds ==
  deviations = {} =>
    /\ parsing \in {None, Some("Ok")}
    /\ pczt # None /\ Bundle.spend.proof_generation_key \in {None, Some(scenario.pgk)} =>
         LET spend == [Bundle.spend EXCEPT !.proof_generation_key = Some(scenario.pgk)]
             output == Bundle.output
         IN  /\ AccountOf(spend) # None /\ scenario.pgk = KeyOf(AccountOf(spend)[1])
                  => signer_error(AccountOf(spend)[1]) = "Ok"
             /\ spend_prover_error(spend) = "Ok" /\ output_prover_error(output) = "Ok"
             /\ SpendVerifies([cv |-> spend.cv, anchor |-> Bundle.anchor, rk |-> spend.rk,
                               nullifier |-> spend.nullifier,
                               zkproof |-> prove_spend(spend, Bundle.anchor)])
             /\ OutputVerifies([cv |-> output.cv, cmu |-> output.cmu,
                                ephemeral_key |-> output.ephemeral_key,
                                zkproof |-> prove_output(output)])

\* Reading a v5 transaction changes it only if the reader supplies another
\* anchor.  Then the spend's proof is not valid under both anchors, not even
\* that of a note without value, which has no anchor to match; the output's
\* is as valid as it was.
V5KeepsProofs ==
  [][tx # None /\ tx' # tx =>
       /\ tx'[1].spend.anchor # tx[1].spend.anchor
       /\ ~(SpendVerifies(tx[1].spend) /\ SpendVerifies(tx'[1].spend))
       /\ OutputVerifies(tx'[1].output) = OutputVerifies(tx[1].output)]_fieldVars

=============================================================================
