# A TLA+ development of sapling-crypto

This directory models `sapling-crypto`: building a Sapling bundle, proving and
signing it, passing it through the roles of a partially created transaction
(PCZT), and verifying it, alone or in a batch; the hierarchy of keys and what a
wallet does with it; the encryption of notes; and, under these, the gadgets of
the circuits, the statements they make up, and what those statements promise a
chain that accepts every proof of them. TLC checks the models on small
instances; TLAPS proves every safety property that a passing run checks, for every
instance.

Paths below are relative to the repository root; the crate's code is under
`src/src/`. `PROJECT.json` lists every component, run, property, hazard and
theorem, and maps each definition to the lines it models.

## 1. The system

| Component | Source | State it keeps | Operations |
|---|---|---|---|
| Values and commitments | `value.rs`, `value/sums.rs` | none (pure) | checked sums of u64 values in an i128, narrowing to i64, trapdoor and commitment sums, `into_bvk` |
| Builder | `builder.rs` 42-921, `util.rs` | running `value_balance`, lists of spends and outputs, fixed type, anchor and ZIP 212 rule | `new`, `add_spend`, `add_output`, `value_balance`, `build`, `build_for_pczt`; the free function `bundle` |
| In-progress bundle | `builder.rs` 923-1296, `bundle.rs` | proof state, `Unsigned`/`PartiallyAuthorized`, one `MaybeSigned` per spend, sighash | `create_proofs`, `prepare`, `sign`, `append_signatures`, `finalize`, `apply_signatures` |
| PCZT | `pczt.rs`, `pczt/*.rs` | optional fields of each spend and output, `bsk`, `value_sum` | `parse`, updater setters, `verify_*`, `finalize_io`, `create_proofs`, `sign`, `apply_signature`, `extract`, `apply_binding_signature`, the v5 format |
| Single verifier | `verifier.rs`, `verifier/single.rs` | sum of value commitments | `check_spend`, `check_output`, `final_check` |
| Batch verifier | `verifier.rs`, `verifier/batch.rs` | three queues, `bundles_added` | `check_bundle`, `validate` |
| Hierarchical keys | `zip32.rs`, `keys.rs`, `address.rs`, `spec.rs` | depth, tag, index, key parts | `master`, `derive_child`, `derive_internal`, encodings, diversifier search, addresses in both scopes, `decrypt_diversifier` |
| Notes and encryption | `note.rs`, `note/*.rs`, `note_encryption.rs` | none (pure) | plaintext versions, trial decryption, recovery, nullifiers |
| Commitment tree | `tree.rs` | none (an instance of `incrementalmerkletree`) | node hashes, empty roots, anchors |
| Circuits, prover | `circuit.rs`, `circuit/*.rs`, `prover.rs` | the constraints and witness being synthesized | point and hash gadgets, the statements of a spend and an output, `prepare_circuit`, `create_proof` |
| Hashes, constants | `pedersen_hash.rs`, `group_hash.rs`, `constants.rs` | none | Pedersen hash, group hash |

How they interact. A `Builder` accumulates requests and is consumed by `build`,
which hands over an unproven, unsigned `Bundle`, or by `build_for_pczt`, which
hands over a PCZT bundle. The in-progress bundle and the PCZT are two routes to
the same `Bundle<Authorized>`: along the first, methods take the bundle by value
and the type says what may be called; along the second, independent roles mutate
one structure in place, in no fixed order, possibly on different machines. Both
end in a bundle that the verifiers must accept: the binding signature key summed
from the trapdoors on the building side is the key the verifiers derive from the
commitments and the value balance. What the verifiers check of a description is a
proof of a circuit's statement; consensus adds that a nullifier is new and an
anchor was a root of the tree.

There are no threads, no clocks and no persistent state in the crate. What is
hard is the order of calls: an operation that changes state and then fails, a
retry, a signature delivered twice or for something else, a field removed before
the role that needs it, a caller that keeps a clone, a batch that shares queues
between bundles; fields of a PCZT that each role reads and none owns; provers
that choose their witnesses; and a few arithmetic edges (the least i64, sums of
u64 values, incomplete addition formulas, chunks and windows that end early).

What makes each component correct:

- Values: the two forms of the binding key agree for every balance an i64 holds.
- Builder: what is built is what was requested: its balance, its values and
  the positions reported for each request, through padding and shuffling.
- In-progress bundle: whatever is in the place of a signature is a valid
  signature over one sighash; an authorized bundle is complete.
- PCZT: roles in any order cannot produce an unsound authorized bundle; dummies
  are signed exactly once; the `verify_*` checks let a Signer sign what is its own
  and a Prover prove what will verify.
- Verifiers: they accept exactly the valid bundles, and bundles that share a
  batch do not affect one another.
- Keys: spending and viewing keys derive the same internal key, no two keys or
  scopes share a viewing key, depth and index are consistent and survive an
  encoding, found diversifiers are the next valid ones, a key recognises its own
  addresses.
- Circuits: each gadget has one satisfying output, the value the native code
  computes; together the statements let nobody spend a note that is not theirs,
  or one twice, and the owner can always spend it.
- Note encryption: a recipient finds what it was sent and nothing that it could
  not spend; every way to read an output, alone, in a batch, compact, full or by
  its sender, gives the same note.

## 2. The modules

```
SaplingValue ──┬── Builder ──────────── MCBuilder, Builder_proofs
               └── VerifierRules ─┬──── SingleVerifier ── MCSingleVerifier ─┐
                                  └──── BatchVerifier ─── MCBatchVerifier ──┴─ MCVerifier
Authorization ◁─┬─ Signing ──────────── MCSigning
                └─ Pczt ─────────────── MCPczt, Pczt_proofs
SaplingKeys ─┬─ Zip32 ───────────────── MCZip32
             └─ SaplingStatements ─┬─── PcztFields ──── MCPcztFields
                                   └─── ShieldedPool ── MCShieldedPool
Jubjub ── CircuitEcc ── PedersenHash ── Gadgets ── MCGadgets
             └── Jubjub_proofs ──────────── Gadgets_proofs
NoteEncryption ──────────────────────── MCNoteEncryption, NoteEncryption_proofs
Signatures_proofs: about Signing, BatchVerifier and SingleVerifier
Statements_proofs: about Zip32, ShieldedPool and PcztFields
Induction:         lemmas on sums, finite sets, powers and division
```

**SaplingValue** (pure). The widths i64, u64, i128 are scaled by one constant:
`I64Max` is `i64::MAX`, `u64` has one more bit of magnitude, `i128` twice the
width. A Jubjub point is its pair of coefficients over the value generator and
the randomness generator, so sums of commitments are exact and a value balance
that is off by anything gives a different key. `AbsValue` keeps the code's
separate case for the least i64.

**Builder**. Variables are the fields of `Builder`, the phase of its life and
what the last call returned. `AddSpend` and `AddOutput` are the whole methods,
with the assignment of `value_balance` before the range check (`Accumulate`).
`Build`, `BuildForPczt` and `BundleFromLists` (the public function `bundle`)
each model everything from the structure checks of `build_bundle` to the
finisher: padding, both shuffles (every permutation), trapdoors (every choice),
metadata, checked sums, key lookup and errors in the order of the code. The type
parameters are parameters here: `V` is the set of balances that the caller's type
takes, `SP` the notes for which the caller's prover prepares no circuit. A note
is its identity, owner, value and the root of its path.

**Signing**. `stage` stands for the type parameter (`Unsigned`,
`PartiallyAuthorized`, `Authorized`), `proving` for the other (`Unproven`,
`Proven`). `create_proofs` and `append_signatures` are loops with callbacks and
failures half-way and have one action per iteration; the others are one action
each. As the methods take the bundle by value nothing interleaves with a running
loop (`Idle`). An error drops the bundle (`stage = "dropped"`) or, if the caller
kept a clone, the bundle of before the call goes on.

**Pczt**. One action per role method, with its effect up to the point of
failure. `Redact` removes an optional field; it happens outside this crate,
between roles, and is marked external. `value_sum` is abstracted to what
`finalize_io` and `extract` compare: the net of the commitments, another
64-bit value, or none. A spend may come with any key in its `dummy_ask`, as `parse`
compares it with nothing: with its own, with that of another (`finalize_io` then
takes it and cannot sign, `Unsignable`), or with none. `extract` copies the bundle;
`apply_binding_signature` acts on the copy while the roles may go on with the
original. Wallet signatures come from `Asks`; only the PCZT itself holds the key of
a dummy. Two history variables say whether `finalize_io` has succeeded and for
which sighash it took the key of each spend.

**Authorization** (abstract). What both routes promise: descriptions get proofs,
spends get signatures, and in one step, once every proof is there and every
signature is valid for one sighash, the bundle is bound to that sighash, after
which nothing changes. `Signing` and `Pczt` each define the mapping (`Abstract`)
and are checked to implement it.

**VerifierRules**, **SingleVerifier**, **BatchVerifier**. `Valid` is the
reference: every signature and proof verifies, no key of small order, the
binding signature verifies under the key of the sums. `SingleVerifier` models
the context with a caller that checks descriptions in any order, skips, repeats
and goes on after a refusal. `BatchVerifier` queues as `check_bundle` does, up
to the first refused description. A proof is the statement it proves, a
signature the key and sighash it is for: a batch equation is taken as the
conjunction of its items, with the soundness error of randomised batches left
out. The statement is all that the checks hand to the proof: `rk`, `cv`, anchor and
nullifier of a spend, `cv`, `epk` and `cmu` of an output. Encodings that cannot be
read are symbolic too.

**SaplingKeys** (pure). Keys are symbolic terms: a hash is the tuple of its
personalization and its inputs, so two keys are equal exactly when they are made
of the same parts. A scalar is the set of the terms added up to it, a point that
scalar over its generator; this makes `ask`/`ak` and `nsk`/`nk` commute with
addition as they do in the group. A diversifier key picks one of `Ciphers`, the
permutations of the diversifier space (FF1 in the code). Both derivations of the
internal keys (`ExtendedSpendingKey::derive_internal` and
`sapling_derive_internal_fvk`) are written out, hash by hash, as the code has both and
nothing but tests keeps them together. `from_bytes` and `read` are both there: they
meet the errors of an encoding in different orders. The depth is a u8: one more than the greatest is either `Overflow` (a panic) or 0, as the code
may be built with or without overflow checks.

**Zip32**. A wallet that holds keys by path. `Master`, `DeriveChild`,
`DeriveInternalKey`, `FromBytes` and `ReadKey` add keys; any key may be derived from any
other in any order, as nothing in the code says which key is internal.
`FindAddressFrom` (also `default_address`), `ChangeAddress` and
`DiversifiedAddress` (both scopes) hand out addresses, and `DecryptDiversifier`
is asked about any address handed out by any key. What the methods do is pure;
`keys`, `issued` and `answer` are the wallet's record of it, and `cipher` fixes
the permutation of a diversifier key when it is first used.

**NoteEncryption**. A chain of outputs, the senders that add to it and a wallet
that scans it. `Send` is `OutputInfo::prepare` with the note encryption of
`build_inner`; `Scan` is one batch over what is new (`BatchDecryption`), of
compact or of full outputs. `Advance` moves the ZIP 212 enforcement, so an output
may be scanned under a later rule than it was made for. `Alter` stands for outputs of
other software: consensus looks at the commitment and the ephemeral key but not
inside the ciphertexts, so the fields of an output need not fit one another; the
unit tests alter outputs in the same way. Trial decryption and recovery follow the
`zcash_note_encryption` crate, whose calls into `SaplingDomain` fix what it does
(marked external in the map). A point is its base, the scalars it was
multiplied by and whether it has a component of small order; a ciphertext is its
key and plaintext, with a tag that a compact one lacks. With another key a
compact ciphertext decrypts to noise, which may parse but opens no commitment.
The batch is modelled down to the positions of its keys. Value and memo travel
with the randomness; the value commitment, which only enters the sender's key, is
left out.

**Jubjub**, **CircuitEcc**, **PedersenHash** (pure). The curve is a parameter: a
twisted Edwards curve with the properties of Jubjub that the code relies on
(`CurveAssumption`, `MontgomeryAssumption`). A gadget is the set of outputs that
satisfy its constraints for given inputs, and the denominators by which the code
computes the prover's own witness. `double`, `add`, `into_edwards` and
`montgomery_add` are translated constraint by constraint; the tables and both
versions of the Pedersen hash (8-bit windows of a scalar in `pedersen_hash.rs`,
3-bit windows of points in `circuit/`) from their loops.

**Gadgets**. The synthesis of `mul`, `fixed_base_multiplication`, the circuit's
`pedersen_hash`, `assert_not_small_order` and conversions between curve forms, one
action per iteration. At each step the outputs may be any that satisfy the
constraints, as a prover may choose them; a witness that cannot be computed ends
in `DivisionByZero`, an `assert!` or `expect` in `panic`. The denominators are those
of every gadget that a step synthesizes (`MulGadgets` to `MontgomeryGadgets`): the
doublings and additions of both multiplications, those within a segment of the hash,
at its end and between segments, and the doublings and the inverse of
`assert_not_small_order`. So `ExceptionsAreDocumented` says of all of them that only
the documented additions and conversions divide by zero, and `SmallOrderIsExact` (a
part of `PointGadgetsAreExact`) that a point of small order is refused, by a
constraint or by the inverse that a prover cannot compute.

**SaplingStatements** (pure, extends SaplingKeys). Notes, commitments, nullifiers,
the commitment tree, and the statements of `Spend::synthesize` and
`Output::synthesize` over a witness, with the inputs they expose and what
`prepare_circuit` makes a witness from. Points are symbolic terms, a point of small
order being one of its own that forgets what it is multiplied by. A proof is the
public inputs of its witness and whether the witness satisfies the statement:
`create_proof` does not look.

**PcztFields**. One spend and one output of a PCZT by the contents of their
fields. It starts as `into_pczt` makes them, with up to two fields replaced
(`Deviations`); then `Parse`, `SetProofGenerationKey`, `Sign` after all checks of
`verify.rs`, `CreateProofs`, `Extract` and `ReadV5`, in any order their guards
allow. The errors of each method come in the order of the code. `Sign` is a
Signer as `pczt.rs` describes it: it refuses a spend with a `dummy_ask` and asks
`extract_account_index` for the account. (`Pczt` has the same roles as an order of
calls with all spends; here it is the data.)

**ShieldedPool**. A chain that accepts any output or spend whose proof verifies,
whose nullifier is new and whose anchor was a root. `WalletSpends` is a wallet
that uses the crate (`build_inner`, `prepare_circuit`, `Note::nf`); `OtherSpends`
and `AddOutput` are made by others with any witness at all, who know every `nsk`
(proving may be delegated) and every `ask` but the wallet's; `g_d`, `pk_d` and, beside
the wallet's `nsk`, `ak` may be of small order. The history
variables `spent` and `taken` say which leaf a proof was for; the properties
compare them with what the nullifiers prevent.

A definition with a comment "A variant ..." is not part of a specification: it is
the neighbouring definition with a plausible mistake in it, and shows that the
property named for it in `PROJECT.json` fails when the code is wrong that way.

## 3. What is checked

| Run | Instance | Shows |
|---|---|---|
| `builder` | `I64Max = 1`, four notes, two outputs, three calls, lists of two, two types of balance, two provers | everything `Builder` promises, errors included |
| `builder_panic` | two calls | `value_balance()` can panic |
| `signing` | 2 spends, 1 output, 2 keys, 2 randomizers, 2 sighashes | safety of signing; refinement of `Authorization` |
| `pczt` | 2 spends, each with its own key, another or none in `dummy_ask`, 1 output, 2 sighashes, 4 fields that may be redacted | safety of the roles; refinement of `Authorization` |
| `single_verifier` | 14 bundles, 5 checks | verdict = validity |
| `batch_verifier` | 14 bundles, 2 sighashes, 3 bundles to a batch | batch verdict = validity |
| `zip32` | depths 0..1, 3 diversifiers of which 2 are valid, 2 permutations, 3 keys of one seed and 6 encodings | everything about keys and addresses |
| `zip32_decrypt` | the same, 2 keys | change addresses are not recognised |
| `note_encryption` | 2 outputs, one altered once; a wallet of 2 keys and a stranger; 2 valid diversifiers of 3; 2 seeds of which 1 is a scalar | what a wallet and a sender read from outputs |
| `gadgets` | a curve of 8 * 2203 points, 3 segments of 3 chunks, 4 windows | gadgets are exact; both hashes agree |
| `pczt_fields` | 1 spend of each kind of note and key, 1 output, pairs of some 60 deviations | checks, proofs and signatures fit one another |
| `shielded_pool` | tree of depth 2, 3 leaves, 2 spends, 2 keys | no double spend, no theft, no stuck note |

Bounds, and why they are enough.

- `I64Max = 1` makes i64 the range -2..1, u64 0..3 and i128 -8..7. Three calls
  with the greatest u64 leave i128 (3 * 3 > 8), two leave i64, and two outputs of
  value 1 reach the least i64. Every branch of the range checks is taken.
- Three calls give bundles of up to three spends or outputs, so permutations
  that are not their own inverse occur (an index table that holds the
  permutation instead of its inverse is caught only from three items on).
- Two spends, two keys and two randomizers give all relations between two
  spends: same randomized key, same key with another randomizer, different
  keys. Lists of up to two signatures are enough for one placed and one
  failing; two sighashes for a stale one. Longer lists repeat the same step.
- The PCZT instance has a spend before and after one another (a failure at the
  first or the second), an output, and fields that make each of IO Finalizer,
  Prover and Signer fail. One wallet key and one randomizer suffice: the wallet's key
  and the dummies' are already two, either of which may be where the other belongs,
  and a randomized key is compared as a whole. The Updater is given the wallet's key
  only, as whose key a proof is for matters to no property here (`PcztFields` is
  about that).
- A batch of three bundles has a refused one before, between and after accepted
  ones. Each bundle has one fault at a position after sound descriptions, so
  that some of its items are queued before it is refused.

- `MaxDepth = 1` lets three keys in a row reach the level where the depth wraps;
  the counting itself is proved for every width. Three keys make siblings, a
  parent with child and internal key, the internal key of a child and the child
  of an internal key, and a key read from an encoding beside one of the seed.
  Of the six encodings one is good and each other has one of the faults that
  `from_bytes` looks for.
- Three diversifiers, of which 1 is invalid, under two permutations that agree
  nowhere: a search that succeeds at once, later, at the last index, and one
  that runs past it. Three diversifier keys may be used (`MaxUsed`), which is
  one key with its internal one and a stranger. One address at a time is
  remembered (`MaxIssued`), as no answer depends on two.

- Two outputs put every fault before, after and beside an honest output in one
  batch, and two viewing keys make a shift of the batch's keys visible within one
  output and across two. One alteration per chain suffices as each is made both
  with and without fitting the rest to it. One seed is not the encoding of a
  scalar, so a version 1 plaintext may fail there and a version 2 one not.

- The curve of `gadgets` has 17624 points of which 2203 times 8 form the whole
  group, so that every order there is on Jubjub (1, 2, 4, 8 and the prime times
  these) occurs; -1 is a square and `d` is not, as there. Scalars of 12 bits reach
  below, at and above the group order; a fixed base scalar of 13 bits is longer than
  its 4 windows. Messages end after one, two and three bits of a chunk, at the end
  of a segment and one bit beyond the last generator. 4 (1 + 16 + 256) is below
  half of 2203, as 63 chunks are below half of Jubjub's order: `SegmentsAreInjective`
  rests on just that.
- Two deviations in `pczt_fields` let a wrong field be made to fit by a second one,
  which is how a check that compares two fields goes wrong; every field that a
  role reads has at least an absent and a wrong form, and where the code decodes it
  a malformed one.
- A tree of depth 2 has a left and a right child on both levels, and positions
  that are not their own reversal. Three leaves make a note of the wallet, a second
  with the same contents and one of another; two spends suffice for one to get in
  the way of the other.

Symmetry is used in `note_encryption`, for the two valid diversifiers, whose
names nothing depends on (the noise of a wrong key opens no commitment, whatever
diversifier it has), and in `pczt` for the two sighashes, which are only ever
compared; its properties are all safety properties. The other large runs have no
symmetric constants or need no symmetry.
Deadlock is not checked where the system may stop: a consumed builder, an
authorized bundle, a PCZT nobody works on, a batch that has been validated, a
wallet that has reached its bounds.

Fairness. None is assumed, and no liveness is claimed: every method is a finite call
that waits for nothing, and nothing obliges a caller to make the next one. What a
caller that does go on can count on is stated as safety (`WalletIsNeverRefused`,
`HonestSucceeds`, `OwnNotesFound`).

### Disagreements met

Each of the first two is a run that ends in a counterexample.

1. `builder_panic` (`builder.rs` 617, 644, 662): a failed `add_spend` or
   `add_output` leaves the value counted and the request not listed;
   `value_balance()` is then wrong, and panics at an `expect` that says the case
   was excluded. `build` sums the lists again and is not affected
   (`BuiltBalanceIsNet`). `DriftOnlyOnInvalidAmount` shows there is no other cause.
2. `zip32_decrypt` (`zip32.rs` 826): `decrypt_diversifier` promises to try an
   address with the internal and the external part of the key, but compares both
   attempts with an external address. The second attempt never succeeds (lemma
   `InternalNeverFound` of `Statements_proofs` shows this for every key and address),
   so the change addresses of a key are taken for a stranger's.
   `DecryptIsInverse` shows that nothing else is wrong with it.
   `IncomingViewingKey::decrypt_diversifier` has the same comment, but no
   internal part it could try.
3. Three places where a comment says more than the code does, and a property of a
   passing run shows what is left of it. `set_proof_generation_key` (`pczt/updater.rs`
   62) documents an error for a key that does not match and does not check it (a
   TODO): `ApprovedIsOwn` and `ChecksAreExact` hold for any key it stores.
   `append_signatures` (`builder.rs` 1239) documents an error for a signature that
   is valid for no input, and reports the same for one that is valid for an input
   signed already; `SignaturesArePermanent` holds. `pczt.rs` 183 says that
   `dummy_ask` is cleared once used, and `finalize_io` also clears it when signing
   with it fails; what follows is `LostDummiesAreFinal`.

## 4. What is proved

| Module | About | Theorems |
|---|---|---|
| `Builder_proofs` | `Builder` | `InductiveInvariant`, `RequestsLocated`, `ShapeKept`, `BalanceIsNet`, `KeysAgree`, `DriftReported` |
| `Signatures_proofs` | `Signing` | `InductiveInvariant`, `TypeCorrect`, `SignaturesAlwaysValid`, `KeysAlwaysSign`, `AuthorizedComplete`, `SignaturesPermanent`, `DuplicateIsReuse`, `RefinesAuthorization` |
| `Pczt_proofs` | `Pczt` | `InductiveInvariant`, `AuthorizedSound`, `LostDummiesFinal`, `RefinesAuthorization` |
| `Signatures_proofs` | `BatchVerifier`, `SingleVerifier` | `BatchInvariant`, `AcceptedValid`, `RefusedInvalid`, `VerdictValidity`, `FailureCulprit`; `SingleInvariant`, `SingleVerdict`, `SkippedCaught` |
| `Statements_proofs` | `Zip32` | `KeysInvariant`, `EncodingsReadBack`, `DecryptInverse`, `FoundLeast`, `KeysSeparate` |
| `NoteEncryption_proofs` | `NoteEncryption` | `NotesInvariant`, `RoutesGiveTheSame`, `OwnFound` |
| `Statements_proofs` | `ShieldedPool`, `PcztFields` | `PoolInvariant`, `PoolStaysBacked`, `NobodyElseSpends`, `NeverRefused`; `FieldsInvariant`, `SignedIsOwn`, `ChecksExact`, `HonestPasses`, `V5Keeps` |
| `Jubjub_proofs` | `Jubjub`, `CircuitEcc` | `PointsAreAGroup`; lemmas on each gadget of a point |
| `Gadgets_proofs` | `PedersenHash`, `Gadgets` | `InductiveInvariant`, `PointGadgetsExact`, `CircuitHashNative`, `ExceptionsDocumented`, `SegmentsInjective`, `MontgomeryIsExact` |
| `Induction` | lemmas only | |

They hold for any number of requests, descriptions, keys, randomizers, sighashes,
bundles, outputs, leaves, deviations and calls, any depth of the tree, any curve and
any length of a message, from named assumptions in the modules. Each is an
assumption about constants, and TLC evaluates it on every run of its module:

- that counts are naturals and lists are sequences, that values fit a u64 and that
  placeholders differ from real values (`I64MaxAssumption`, `BuilderAssumption`,
  `SigningAssumption`, `PcztAssumption`, `BundlesAssumption`, `WalletAssumption`,
  `NoteAssumption`, `NoneAssumption`, `TreeAssumption`);
- that the ciphers are permutations and there is a valid diversifier
  (`KeysAssumption`), and that what cannot be read as a proof or a point proves
  nothing (`BatchAssumption`);
- that a key read from elsewhere is not by chance one of a seed, nor one read from
  another backup (`ElsewhereAssumption`), and that others cannot put the wallet's
  `ask` together from scalars they know (`SecretAssumption`);
- that no more leaves are added than the tree has room for (`PoolAssumption`);
- what is known of Jubjub (`CurveAssumption`, `MontgomeryAssumption`): the order of
  the field and that of the subgroup are primes, `d` is not a square, -1 is one and
  so is -(1 + d), the root of which `constants.rs` has as `MONTGOMERY_SCALE`;
- what is known of the tables (`PedersenAssumption`, `ChunksAssumption`): generators
  have the order of the subgroup; the scalars of a segment, sums of chunks up to
  4 (1 + 16 + ...), stay below half of it, as `PEDERSEN_HASH_CHUNKS_PER_GENERATOR`
  is chosen for; a scalar fits in `Fr::NUM_BITS`;
- that the inputs of a gadget are what its types admit, and that every point of the
  curve has an order that divides 8 times that of the subgroup
  (`InputAssumption`). How many points a curve has is nothing the model can count;
- that what parses has the values which the decoding gives (`Decodes` in
  `FieldsAssumption`): an address has a valid diversifier
  (`PaymentAddress::from_parts`), an `ak` is of the subgroup and not the identity
  (`SpendValidatingKey::from_bytes`), a position is that of a leaf (a u32 in a tree
  of depth 32, `pczt/parse.rs`). Fields that are malformed or absent are free of it.
  Circuits take more from it: `ChecksExact` would fail for an `ak` of small order,
  which the statement refuses and `verify_rk` does not look at.

What recursion computes. Sums, roots, paths and positions are recursive
functions; what they compute is proved by induction over a set of naturals
(`SetInduction` in `Induction`, a first-order form: a set with 0 and every
successor holds all naturals). A recursive function is a `CHOOSE`, so each proof
first shows by induction that such a function exists and then unfolds it one step
(`SumExists`, `RunningSums`, `EmptyRoots`, `RootIsAscended`). `Induction` proves
of the sums over finite sets that the folds of the community modules do not
depend on the order (`AnyOrder`), and what follows: sums of unions, of bijective
images, of differences and of concatenated lists.

*Builder.* `IInv` is the type invariant with what `add_spend` guarantees and `build`
checks again, that every listed note with a value has its path to the anchor, and
what follows for the anchors of what is built. It also says that an open builder has
built nothing, without which a later request could change what the metadata is
compared with. The argument has three layers: a padded and shuffled list keeps
track of its items for any permutation (`ShuffleKeepsTrack`: an index table is
the permutation's inverse, and only dummies are left out of it); so do both
finishers, whose descriptions are made item by item (`BuiltLocates`,
`BuiltAnchored`, `BuiltCounts`); and each way of using the builder up ends with
an error or with such a bundle (`Finished`), which gives `RequestsLocated` and
`ShapeKept`. That the type invariant leaves out `WrongSpendingKey` is proved as
well (`NoWrongKey`): the code's guard against a key that does not fit is never met.

The balance goes along the same layers with sums in the place of positions. A
permutation keeps a sum, and padding adds dummies of value 0
(`PreparedKeepsSum`), so the net of what is built is the net of what was requested
(`BalanceIsNet`); `bsk` and the commitments add up the same trapdoors
(`TrapdoorsFit`, `SumOfCvs`), so `into_bvk` of the one is the public key of the
other (`KeysAgree`). For `DriftReported` every step but a failed one that reports
`InvalidAmount` moves `value_balance` and the net of the lists by the same amount
(`ListedMovesNet`): the drift of `builder_panic` has no other cause, after any
number of requests.

*Signing.* `TypeOK` is not inductive: `sign` writes a signature over `sighash`,
which is a sighash only once `prepare` has run. `IInv`, which the run checks as a
whole, adds what the methods rely on from one another:

- `SignaturesValid`, `KeysSignEverySpend`, `ProgressIsHonest` themselves;
- before `prepare` nothing is signed and no key is recorded as used;
- a running loop pins the stage: `create_proofs` runs on an unsigned or partial
  bundle, `append_signatures` on a partial one, never both;
- `authorized` means proven and signed everywhere;
- while `append_signatures` runs, the clone is as sound as the bundle was: its
  signatures verify and it has one for each dummy and each key used. Without this
  the return to the clone after an error would break both safety properties.

From `IInv` follow `SignaturesAlwaysValid`, `KeysAlwaysSign`,
`AuthorizedComplete`, `SignaturesPermanent` (an action property), `DuplicateIsReuse`
and `RefinesAuthorization`: each step of `Signing` is a step of `Authorization`
or a stutter under the mapping.

*Pczt.* What makes the roles safe is spread over three of them, so that no
property of one is inductive alone. `IInv` ties them together:

- a dummy that carries a key is not signed yet, and a key that `finalize_io` took,
  after its checks had passed, never comes back (`DummiesAwaitFinalizer`);
- a dummy that is signed is signed for the sighash of the `finalize_io` that took its
  key, and after one that returned `Ok` no key is left at all
  (`FinalizedDummiesAreSigned`), so nothing can sign it for another;
- what was extracted is a complete copy of such a PCZT (`ExtractedIsComplete`): an
  extraction cannot have succeeded with a lost dummy, as it wants every signature;
- the binding signature is over a sighash all of them verify for (`BoundLast`).

`finalize_io` and `create_proofs` stop at the first item that fails; that there is
a first one is a fact about finite sets of naturals (`FirstExists`).
`AuthorizedSound` follows from `IInv`, `LostDummiesFinal` from `IInv` and a case for
each role, and `RefinesAuthorization` maps each role to collecting proofs and
signatures, to authorizing, or to a stutter: redaction and failures lose nothing
that the abstract bundle has.

*BatchVerifier.* `BatchIInv` relates the queues to the history of verdicts in both
directions: all items of an accepted bundle are queued, and every queued item
comes from a bundle that was checked. The first direction gives `AcceptedValid`,
the second `FailureCulprit`. `RefusedInvalid` rests on `BatchAssumption`;
both together are `VerdictValidity`.

*SingleVerifier.* `ContextIInv` says that `passed` is exactly that all that was
checked, in whatever order and however often, passes, and that the context's sum is
then the net of what was checked, with repetitions. (After a refusal for a small
order it is not, as the commitment is left out; that is why the clause has a
premise.) A check moves one count by one, and so the net by one commitment
(`NetWithCheck`). Where every count is one, the net is that of the bundle and
`final_check` decides as `Valid` does (`SingleVerdict`); as two commitment sums give
the same key only if they are equal (`BvkIsInjective`), nobody gets a valid bundle
accepted with a net that is off (`SkippedCaught`).

*Zip32.* `Zip32IInv` says of each key that it is well formed, that its depth is the
number of its levels modulo the width of the depth, that it has an index exactly
below a root, and that its internal key is the same by both derivations. A key
is only as sound as what it was derived from or decoded from, so each way to a
key has a lemma (`MasterSound`, `ChildSound`, `InternalSound`, `DecodedSound`);
the wrap of the depth rests on a little arithmetic of remainders.
`InternalRoutesAgree` needs no invariant: it holds for every key.
`EncodingsReadBack` follows from `Zip32IInv` and gives the exact exception, the keys
whose depth has wrapped to 0. `DecryptInverse` rests on permutations having
inverses. `FoundLeast` follows the search from index to index (`FirstFromStep`,
`FindsFirst`): what it returns is valid and none before it is.

That no two keys or scopes share a viewing key (`KeysSeparate`) needs an invariant of
its own, `Lineage`: every key is a root or derived from a key that is held, each term
of its scalar `nsk` was added by a derivation of a key at its path or further up, or
comes from the root, and keys at different paths differ in `nsk`. A derivation adds a
term that no other derivation makes and that no root has (`TermsDiffer`), so a new key
differs from all that are held (`RootLineage`, `DerivedLineage`). The scope of an
internal address adds such a term once more, which only the internal key and what is
derived from it have (`InternalBelow`); so two scopes coincide only if they are the
external scope of an internal key and the internal scope of its parent
(`ExternalInternal`, `InternalInternal`), as they should. `ElsewhereAssumption` is
what this needs of keys that were read.

*NoteEncryption.* `IInv` is the type invariant, in which what was scanned is a
prefix of the chain, with `FoundIsSpendable`, `OutputsAreSent` (an output that
nobody altered is what a sender made of a note for some key, under a seed that its
version can use) and `FoundIsFirst` (what a scan has found is what its viewing keys
find first, one after the other and alone). Soundness does not need the order of the
batch's keys: what `DecryptWithKey` returns has passed the checks of
`ParseNotePlaintext` and `CheckNoteValidity` (`ParsedNote`, `DecryptedNote`), so a
misplaced key can lose a note but not make one up. That none is lost needs it. A
batch normalises the points of all outputs that have one (an ephemeral key may
encode none) and puts the results back by counting: the rank of an item among those
kept is its place (`RanksCount`, `AffineKeepsPlaces`), hence each item is tried with
its own key (`KeyOfItem`) and the batch returns the first hit (`BatchIsFirst`). For
`RoutesGiveTheSame` a full output reads as its compact form does (`FullIsCompact`),
and the sender's recovery and the recipient's decryption end in the same note as
both open one commitment (`CommitmentBinds`). `OwnFound` follows the fields of an
output that nobody altered through every check (`HonestTrial`, `HonestRecovery`).

*ShieldedPool.* The argument has two halves about the tree, for any depth. Soundness
(`LeafOfRoot`): a path that hashes to the root of a tree starts from the leaf at the
position its bits spell, by induction from the root down, as a node binds its
children and its level. Completeness (`RootOfLeaf`): the path that the tree gives for
a leaf hashes to its root, from the leaf up. From the first it follows that a spend
whose proof is accepted opens a leaf with the values its own witness has
(`SpendOfLeaf`, `CommitmentsBind`), or has no value. The invariant `IInv` then needs
more than the three properties, none of which is inductive alone:

- `SpentAreRevealed`: of each position that was spent the nullifier of the note's one
  owner is known, without which a position could be spent twice and `PoolIsBacked`
  would break. What a note is paid to tells its viewing key (`OneOwner`);
- `TakenAreOthers`: what others spent they own; as nobody else holds a key with the
  wallet's `ak` (`WalletIsAlone`), this gives `NobodyElseSpends`;
- `RevealedByOwners`: a nullifier was revealed by others for a note of theirs or by
  the wallet for one it tried, so that nobody can make the wallet's next nullifier
  appear before it does (`NullifiersBind`); with the second half `NeverRefused`.

*PcztFields.* `FieldsIInv` has `ApprovedIsOwn` and three parts: what was parsed has
all its fields and decodes (`WellParsed`); a bundle without deviations stays as it
was built but for the fields that the roles set (`BuiltStays`); an extracted
bundle consists of nothing but what the v5 format keeps (`TxIsDescriptions`,
without which its reader could lose a field). Every check is characterised once
(`VerifyCvOk`, `VerifyNullifierOk`, `VerifyRkOk`, `VerifyNoteCommitmentOk`,
`SpendProverOk`, `OutputProverOk`): it returns no error exactly if its fields are
there and fit. `SignedIsOwn` then holds since no role sets a field that an approval is
about; `proof_generation_key`, which the Updater may set later, is not one, as the
approval is for the account's own key. For `ChecksExact` the statement is
unfolded over the witness that `prepare_circuit` makes of the fields
(`PreparedSpend`); the position comes back from its bits (`BitsSpell`), so the
nullifier of the statement is the one that `verify_nullifier` computes. `HonestPasses`
uses `RootOfLeaf` for the note's path and the exception for notes without value
for a dummy's. `PcztFields` names its specification `FieldsSpec`, `Zip32` its
`Zip32Spec`, `BatchVerifier` its `BatchSpec` and `SingleVerifier` its `ContextSpec`,
so that one module of proofs can extend several of them.

*Jubjub.* A field element is an integer from 0 to Q - 1, and the operations take
remainders, which no prover can reason about at length. So an equation of the field
is carried over to the integers: it says that a polynomial in the coordinates
vanishes, that is, is a multiple of Q (`Vanishes`), and it is proved by writing
that polynomial as a sum of multiples of others that vanish (`Combination`). What is
taken from the field is that a product vanishes only with a factor
(`NoZeroDivisors`) and that the model's division, a recursion on the remainder of Q,
is one (`InvertExact`); both use that Q is prime.

- The denominators of the addition law never vanish (`Completeness`): if one did, d
  would be the square of a quotient of coordinates.
- The sum of two points is on the curve (`PlusOnCurve`).
- The law is associative (`PlusAssociative`). As an identity between quotients this
  is out of reach. The cross products of both sides differ, on the curve, by terms
  of low and of high degree, which are zero as polynomials over the integers
  (`LowIdentity`, `HighIdentity`, `CrossProductsVanish`), and what both sides are
  divided by does not vanish (`QuotientsAgree`).

That is `PointsAreAGroup`. By it multiples count (`TimesCounts`: the
double-and-add recursion of `Times` adds up as numbers do), a point of the subgroup
has no neutral multiple short of its order (`OrderIsPrime`), multiples by numbers
less than the order apart differ (`MultiplesDiffer`), and points of the subgroup
that share a u-coordinate are equal (`UDetermines`). A gadget whose constraints are
divisions by what is never zero has one assignment (`SolveDetermined`), so `double`
and `add` admit only the sum (`DoubleIsExact`, `AddIsExact`), for every pair of points.

*Gadgets.* `IInv` says of each gadget where in its loop it is, and that its curve
points are the multiples that the bits read so far spell. For the hash it has one
clause for the finished segments, whose points are summed up in Edwards form, and one
for the segment being read, of whose chunks the sum is held in Montgomery form. The
properties about the hash are not inductive: they speak of its end and of the native
hash, and nothing of the Montgomery form, in which the hazards are.

The Montgomery addition has exceptions. Away from them it is the group's
(`ChordAdds`: the chord through two points, carried over from Edwards coordinates, is
again a polynomial identity modulo the curve's equation), and the conversion back has
one result (`ConversionIsExact`), which is `MontgomeryIsExact` and, with the pairs
that `ecc.rs` documents left over, `ExceptionsDocumented`. That the hash never
meets one of them is arithmetic: after m chunks the sum lies within
4 (16^m - 1) / 15 (`PartialBounds`) and the next chunk is at least 16^m, so both are
different and not opposite, and their sum stays below half of the order; hence the
points differ in v (`DistinctX`) and no sum is neutral (`NonzeroMultiple`).

`CircuitHashNative` needs the other side too. The scalar of a segment, reduced modulo
the order at each step, names the same multiple as the circuit's sum of chunks
(`ScalarIsPartial`), and the windows read from the tables add up to that multiple,
the last and incomplete one included (`WindowsCover`, `DigitsAddUp`,
`ExponentiateIsExact`). `SegmentsInjective` compares the sums: digits from -4 to 4
without 0 at the weights 16^j spell a number in one way (`PartialDetermines`), equal
u-coordinates mean equal points and so, below half of the order, equal numbers, and a
personalization is read from its six bits (`PersonalizationsDiffer`).

TLC has checked each of these invariants on the instance of its run: those that a
component's module defines as properties of that run, those of `Statements_proofs`
(`IInv`, `FieldsIInv`, `Lineage`) and of `Gadgets_proofs` (`IInv`) when they were found.

Only model-checked: the two counterexamples. Bounded by the model is what it leaves symbolic: that hashes
(but for the Pedersen hash of `Gadgets`), commitments and ciphers are terms is an
assumption of the models and no result. `SaplingStatements` takes the gadgets as
terms too; that the constraints of `Gadgets` are what these terms stand for is not
stated as a refinement.

## 5. What is not modelled

- The arithmetic of the jubjub, bls12_381, redjubjub and bellman crates, BLAKE2, the
  ciphers and the AES of FF1: parameters or symbolic terms with the usual ideal
  properties (a commitment binds, a signature or proof verifies only for what it
  was made for).
- The 255-bit constants: generators, curve parameters and tables are inputs of
  `Gadgets`. That the numbers in `constants.rs` are what their derivation says is
  what the crate's own tests compute.
- Byte encodings, except where a decoding error changes what happens next
  (extended spending keys, note plaintexts, PCZT fields). Of viewing keys, nodes,
  anchors, proofs and parameters they are left out: each is a fixed layout without
  a branch. `EdwardsPoint::repr` and the bits of a note inside the circuit are
  such a layout too.
- `extract_effects` (`extract` without proofs and signatures), the deprecated address
  methods of `ExtendedFullViewingKey`, getters, formatting, memory accounting.
- Test vectors and the mock prover. Parallel proof verification (`multicore`) is a
  detail of the batch verifiers of other crates.

## 6. What would come next

1. One run through `Builder`, `Signing` and `SingleVerifier`: what is built and
   authorized verifies. The parts meet today in the value commitments
   (`BindingKeysAgree`) and in `Authorization`.
2. Encodings of the viewing keys of `zip32.rs` and `keys.rs`, for the errors that
   `FullViewingKey::read` distinguishes.
3. The statements of `SaplingStatements` over the points of `Gadgets` in the place of
   terms, so that what is proved of the gadgets carries over to a spend.
