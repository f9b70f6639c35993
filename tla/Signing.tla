------------------------------ MODULE Signing ------------------------------
(***************************************************************************)
(* The in-progress bundle of src/src/builder.rs, from Builder::build to    *)
(* Bundle<Authorized>: create_proofs, prepare, sign, append_signatures,    *)
(* finalize and apply_signatures.                                          *)
(*                                                                         *)
(* Keys and signatures are symbolic.  A spend authorizing key stands for   *)
(* its validating key; a randomized key is the pair of a validating key    *)
(* and the randomizer alpha; a signature names the randomized key that     *)
(* made it and the sighash it is over, and verifies for exactly these.     *)
(*                                                                         *)
(* Every method takes the bundle by value: while a method runs nothing     *)
(* else can touch it, and an error drops it, unless the caller kept a      *)
(* clone (Bundle is Clone) to carry on from.                               *)
(***************************************************************************)
EXTENDS Integers, Sequences

CONSTANTS
  NumSpends, NumOutputs,  \* how many descriptions the bundle has
  Asks,                   \* spend authorizing keys
  Alphas,                 \* spend authorization randomizers
  Sighashes, NoSighash, NoSig,
  SignatureLists,         \* what append_signatures may be given
  AskSets                 \* what apply_signatures may be given

Spends == 1 .. NumSpends
Items == 1 .. NumSpends + NumOutputs  \* spends first, as map_authorization goes

RandomizedKeys == [ak : Asks, alpha : Alphas]
Sigs == [rk : RandomizedKeys, msg : Sighashes]

ASSUME SigningAssumption ==
  /\ NumSpends \in Nat /\ NumOutputs \in Nat /\ NumSpends + NumOutputs > 0
  /\ NoSighash \notin Sighashes
  /\ NoSig \notin Sigs
  /\ SignatureLists \subseteq Seq(Sigs)
  /\ AskSets \subseteq SUBSET Asks

VARIABLES
  parts,      \* SigningParts of each spend: its ak and alpha, hence its rk
  dummies,    \* the spends that carry their own spend authorizing key
  stage,      \* "unsigned", "partial", "authorized" or "dropped"
  proving,    \* "no", "running" or "done"
  proofs,     \* the descriptions whose proof has been made
  progress,   \* what the progress notifier was last told, of Len(Items)
  sighash,    \* the sighash loaded by prepare
  auth,       \* MaybeSigned of each spend: a signature, or NoSig
  bound,      \* the sighash under the binding signature
  appending,  \* is append_signatures running
  queue,      \* the signatures it has still to fold in
  clone,      \* auth when it was called, in case the caller kept a clone
  result,     \* what the last call returned
  used        \* history: the keys given to sign

bundleVars == <<parts, dummies>>
proofVars == <<proving, proofs, progress>>
appendVars == <<appending, queue, clone>>
vars == <<parts, dummies, stage, proving, proofs, progress, sighash, auth, bound,
          appending, queue, clone, result, used>>

Verify(rk, h, sig) == sig.rk = rk /\ sig.msg = h

\* ask.randomize(alpha).sign(sighash)
SignatureOf(i, h) == [rk |-> parts[i], msg |-> h]

\* A method owns the bundle it was called on until it returns.
Idle == proving # "running" /\ ~appending

Unsigned == [i \in Spends |-> NoSig]

-----------------------------------------------------------------------------

\* The bundle as Builder::build returns it.  The randomizers come from the
\* caller's generator, so nothing rules out that two of them coincide.
Init ==
  /\ parts \in [Spends -> RandomizedKeys]
  /\ dummies \in SUBSET Spends
  /\ stage = "unsigned"
  /\ proving = "no"
  /\ proofs = {}
  /\ progress = 0
  /\ sighash = NoSighash
  /\ auth = Unsigned
  /\ bound = NoSighash
  /\ appending = FALSE
  /\ queue = <<>>
  /\ clone = Unsigned
  /\ result = "Ok"
  /\ used = {}

\* create_proofs, on an unsigned or partially authorized bundle
BeginCreateProofs ==
  /\ Idle
  /\ stage \in {"unsigned", "partial"}
  /\ proving = "no"
  /\ proving' = "running"
  /\ UNCHANGED <<bundleVars, stage, proofs, progress, sighash, auth, bound,
                 appendVars, result, used>>

\* map_spend_proof, map_output_proof and the notification they send
MapProof ==
  /\ proving = "running"
  /\ progress < NumSpends + NumOutputs
  /\ proofs' = proofs \cup {progress + 1}
  /\ progress' = progress + 1
  /\ UNCHANGED <<bundleVars, stage, proving, sighash, auth, bound, appendVars,
                 result, used>>

EndCreateProofs ==
  /\ proving = "running"
  /\ progress = NumSpends + NumOutputs
  /\ proving' = "done"
  /\ result' = "Ok"
  /\ UNCHANGED <<bundleVars, stage, proofs, progress, sighash, auth, bound,
                 appendVars, used>>

\* The signatures right after prepare: dummies are signed with their own key.
Prepared(h) ==
  [i \in Spends |-> IF i \in dummies THEN SignatureOf(i, h) ELSE NoSig]

Prepare(h) ==
  /\ Idle
  /\ stage = "unsigned"
  /\ stage' = "partial"
  /\ sighash' = h
  /\ auth' = Prepared(h)
  /\ bound' = h
  /\ result' = "Ok"
  /\ UNCHANGED <<bundleVars, proofVars, appendVars, used>>

\* A variant of sign that stops at the first spend of its key.
SignedByFirst(before, asks, h) ==
  [i \in Spends |-> IF /\ before[i] = NoSig /\ parts[i].ak \in asks
                       /\ \A j \in 1 .. i - 1 : parts[j].ak # parts[i].ak
                    THEN SignatureOf(i, h) ELSE before[i]]

\* The signatures after sign with each of the given keys over a sighash
SignedBy(before, asks, h) ==
  [i \in Spends |-> IF before[i] = NoSig /\ parts[i].ak \in asks
                    THEN SignatureOf(i, h) ELSE before[i]]

Sign(ask) ==
  /\ Idle
  /\ stage = "partial"
  /\ auth' = SignedBy(auth, {ask}, sighash)
  /\ used' = used \cup {ask}
  /\ result' = "Ok"
  /\ UNCHANGED <<bundleVars, stage, proofVars, sighash, bound, appendVars>>

BeginAppendSignatures(signatures) ==
  /\ Idle
  /\ stage = "partial"
  /\ appending' = TRUE
  /\ queue' = signatures
  /\ clone' = auth
  /\ UNCHANGED <<bundleVars, stage, proofVars, sighash, auth, bound, result,
                 used>>

\* A variant that compares the randomized keys and nothing else.
ValidForKey(sig) == {i \in Spends : sig.rk = parts[i]}

\* A variant that compares the validating keys, as if they were not randomized.
ValidForUnrandomized(sig) ==
  {i \in Spends : auth[i] = NoSig /\ sig.rk.ak = parts[i].ak /\ sig.msg = sighash}

\* The unsigned spends a signature is valid for
ValidFor(sig) ==
  {i \in Spends : auth[i] = NoSig /\ Verify(parts[i], sighash, sig)}

\* try_fold stops at the first error: the bundle is dropped, or the caller
\* goes on with the clone made before the call.
AppendFails(error) ==
  /\ result' = error
  /\ appending' = FALSE
  /\ queue' = <<>>
  /\ \/ stage' = "dropped" /\ UNCHANGED auth
     \/ auth' = clone /\ UNCHANGED stage
  /\ clone' = Unsigned

\* append_signature on the next signature of the list
AppendSignature ==
  /\ appending
  /\ queue # <<>>
  /\ \/ /\ ValidFor(Head(queue)) = {}
        /\ AppendFails("InvalidExternalSignature")
     \/ /\ \E i \in Spends :
             /\ ValidFor(Head(queue)) = {i}
             /\ auth' = [auth EXCEPT ![i] = Head(queue)]
        /\ queue' = Tail(queue)
        /\ UNCHANGED <<stage, appending, clone, result>>
     \/ /\ \E i, j \in ValidFor(Head(queue)) : i # j
        /\ AppendFails("DuplicateSignature")
  /\ UNCHANGED <<bundleVars, proofVars, sighash, bound, used>>

EndAppendSignatures ==
  /\ appending
  /\ queue = <<>>
  /\ appending' = FALSE
  /\ clone' = Unsigned
  /\ result' = "Ok"
  /\ UNCHANGED <<bundleVars, stage, proofVars, sighash, auth, bound, queue,
                 used>>

MissingSignatures == result' = "MissingSignatures" /\ stage' \in {"dropped", stage}

\* finalize, on a proven and partially authorized bundle
Finalize ==
  /\ Idle
  /\ stage = "partial"
  /\ proving = "done"
  /\ \/ /\ \A i \in Spends : auth[i] # NoSig
        /\ stage' = "authorized"
        /\ result' = "Ok"
     \/ /\ \E i \in Spends : auth[i] = NoSig
        /\ MissingSignatures
  /\ UNCHANGED <<bundleVars, proofVars, sighash, auth, bound, appendVars, used>>

\* apply_signatures, on a proven and unsigned bundle: prepare, sign with each
\* key, finalize.  The order of the keys does not matter, as a key only signs
\* for its own validating key.
ApplySignatures(h, asks) ==
  LET signed == SignedBy(Prepared(h), asks, h) IN
  /\ Idle
  /\ stage = "unsigned"
  /\ proving = "done"
  /\ \/ /\ \A i \in Spends : signed[i] # NoSig
        /\ stage' = "authorized"
        /\ sighash' = h
        /\ auth' = signed
        /\ bound' = h
        /\ result' = "Ok"
     \/ /\ \E i \in Spends : signed[i] = NoSig
        /\ MissingSignatures
        /\ UNCHANGED <<sighash, auth, bound>>
  /\ UNCHANGED <<bundleVars, proofVars, appendVars, used>>

CreateProofsLoop == MapProof \/ EndCreateProofs
AppendSignaturesLoop == AppendSignature \/ EndAppendSignatures

Next ==
  \/ BeginCreateProofs
  \/ CreateProofsLoop
  \/ \E h \in Sighashes : Prepare(h)
  \/ \E ask \in Asks : Sign(ask)
  \/ \E signatures \in SignatureLists : BeginAppendSignatures(signatures)
  \/ AppendSignaturesLoop
  \/ Finalize
  \/ \E h \in Sighashes, asks \in AskSets : ApplySignatures(h, asks)

Spec == Init /\ [][Next]_vars

-----------------------------------------------------------------------------
(* Properties                                                               *)

TypeOK ==
  /\ parts \in [Spends -> RandomizedKeys]
  /\ dummies \in SUBSET Spends
  /\ stage \in {"unsigned", "partial", "authorized", "dropped"}
  /\ proving \in {"no", "running", "done"}
  /\ proofs \in SUBSET Items
  /\ progress \in 0 .. NumSpends + NumOutputs
  /\ sighash \in Sighashes \cup {NoSighash}
  /\ auth \in [Spends -> Sigs \cup {NoSig}]
  /\ bound \in Sighashes \cup {NoSighash}
  /\ appending \in BOOLEAN
  /\ queue \in Seq(Sigs)
  /\ clone \in [Spends -> Sigs \cup {NoSig}]
  /\ result \in {"Ok", "InvalidExternalSignature", "DuplicateSignature",
                 "MissingSignatures"}
  /\ used \in SUBSET Asks

\* However a signature got in, by a dummy's key, a wallet's key or from
\* outside, it is valid for the spend that holds it, under the one sighash
\* that prepare loaded and the binding signature commits to.
SignaturesValid ==
  stage \in {"partial", "authorized"} =>
    /\ sighash \in Sighashes
    /\ bound = sighash
    /\ \A i \in Spends : auth[i] # NoSig => Verify(parts[i], sighash, auth[i])

\* An authorized bundle is complete: every spend is signed for its own key
\* under the sighash of the binding signature, every description has a proof.
AuthorizedIsComplete ==
  stage = "authorized" =>
    /\ bound = sighash
    /\ \A i \in Spends : Verify(parts[i], sighash, auth[i])
    /\ proofs = Items

\* The wallet never has to sign for a dummy, and sign with a key leaves no
\* spend of that key without a signature, whatever external signatures were
\* appended or rejected around it.
KeysSignEverySpend ==
  stage \in {"partial", "authorized"} =>
    \A i \in Spends :
      i \in dummies \/ parts[i].ak \in used => auth[i] # NoSig

\* DuplicateSignature is reported only if two spends share a randomized key
\* (the error's doc: this "should never happen if alpha is sampled correctly").
DuplicateMeansReuse ==
  result = "DuplicateSignature" =>
    \E i, j \in Spends : i # j /\ parts[i] = parts[j]

\* The progress notifier is never told of a proof that is not made, and the
\* bundle counts as proven only with a proof for every description.
ProgressIsHonest ==
  /\ proofs = 1 .. progress
  /\ proving = "done" => proofs = Items

\* A signature in place is never replaced or taken away: the only way back
\* is the caller's own clone, after append_signatures failed.
SignaturesArePermanent ==
  [][\A i \in Spends : auth[i] # NoSig =>
       \/ auth'[i] = auth[i]
       \/ appending /\ ~appending' /\ result' # "Ok" /\ auth' = clone]_vars

\* What the methods rely on from one another.  Nothing is signed before prepare;
\* a running loop pins the stage; only a proven bundle is authorized; and the
\* clone that a failed append_signatures may leave the caller with is as
\* sound as the bundle it was taken from.
IInv ==
  /\ TypeOK
  /\ SignaturesValid /\ KeysSignEverySpend /\ ProgressIsHonest
  /\ stage = "unsigned" => used = {} /\ \A i \in Spends : auth[i] = NoSig
  /\ proving = "running" => stage \in {"unsigned", "partial"}
  /\ stage = "authorized" => proving = "done" /\ \A i \in Spends : auth[i] # NoSig
  /\ appending =>
       /\ stage = "partial"
       /\ proving # "running"
       /\ \A i \in Spends :
            /\ clone[i] # NoSig => Verify(parts[i], sighash, clone[i])
            /\ i \in dummies \/ parts[i].ak \in used => clone[i] # NoSig

\* How far the bundle is, to an outside observer
Status ==
  IF stage = "authorized" THEN "authorized"
  ELSE IF stage = "dropped" THEN "abandoned" ELSE "open"

\* The sighash for which a spend's signature is valid, if it has a valid one
ValidSighash(i) ==
  IF auth[i] # NoSig /\ auth[i].rk = parts[i] THEN auth[i].msg ELSE NoSighash

BoundSighash == IF stage = "authorized" THEN bound ELSE NoSighash

Abstract == INSTANCE Authorization WITH
  status <- Status,
  valid_for <- [i \in Spends |-> ValidSighash(i)],
  proven <- proofs,
  bound <- BoundSighash

\* The in-progress bundle authorizes the way Authorization promises: in one
\* step, over one sighash, with every signature valid and every proof made.
ImplementsAuthorization == Abstract!Spec

=============================================================================
