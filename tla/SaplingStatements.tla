-------------------------- MODULE SaplingStatements --------------------------
(***************************************************************************)
(* What Sapling proofs state: notes, their commitments and nullifiers      *)
(* (note.rs, note/*.rs, spec.rs), the note commitment tree (tree.rs), the  *)
(* statements of the two circuits (circuit.rs), the witnesses that the     *)
(* prover makes for them (prover.rs) and the public inputs the verifier    *)
(* compares (verifier.rs).                                                 *)
(*                                                                         *)
(* Hashes, keys and points are symbolic as in SaplingKeys.  A circuit is   *)
(* the relation its constraints state, over any witness that somebody may  *)
(* supply, which need not be one that prepare_circuit makes; the gadgets   *)
(* it is built from are taken to compute what module Gadgets shows.        *)
(***************************************************************************)
EXTENDS SaplingKeys

CONSTANT NOTE_COMMITMENT_TREE_DEPTH

ASSUME TreeAssumption == NOTE_COMMITMENT_TREE_DEPTH \in Nat \ {0}

Levels == 1 .. NOTE_COMMITMENT_TREE_DEPTH

-----------------------------------------------------------------------------
(* Points (spec.rs, keys.rs)                                                *)

\* A point that no honest party computes
SmallOrderPoint == <<"small_order">>

diversify_hash(d) == IF d \in ValidDiversifiers THEN Some(<<"g_d", d>>) ELSE None

\* [sk] b.  Multiples of a point of small order have small order: they forget
\* the scalar (the cofactor clears even the little they keep).
ka_sapling_derive_public(sk, b) ==
  IF b = SmallOrderPoint THEN SmallOrderPoint ELSE <<"pk_d", sk, b[2]>>

\* SpendValidatingKey::randomize
randomize(ak, alpha) == <<"G", ak[2] \cup {alpha}>>

\* ProofGenerationKey::to_viewing_key
to_viewing_key(pgk) == [ak |-> pgk.ak, nk |-> NullifierDerivingKey(pgk.nsk)]

proof_generation_key(expsk) == [ak |-> SpendValidatingKey(expsk.ask), nsk |-> expsk.nsk]

-----------------------------------------------------------------------------
(* Notes                                                                    *)

\* A point made of a hash and multiples of two generators: that of the
\* commitment's randomness and that of positions
windowed_pedersen_commit(personalization, s, r) ==
  [hash |-> <<personalization, s>>, r |-> r, position |-> 0]

\* NoteCommitment::derive
NoteCommit(g_d, pk_d, v, rcm) ==
  windowed_pedersen_commit("NoteCommitment", <<v, g_d, pk_d>>, rcm)

\* A variant that forgets the position.
unmixed_pedersen_hash(cm, position) == cm
mixing_pedersen_hash(cm, position) == [cm EXCEPT !.position = @ + position]

prf_nf(nk, rho) == <<"nf", nk, rho>>

\* Injective, as commitments are in the subgroup of prime order
extract_p(cm) == <<"u", cm>>

\* Rseed: BeforeZip212(r) and AfterZip212(r)
BeforeZip212(r) == <<"BeforeZip212", r>>
AfterZip212(r) == <<"AfterZip212", r>>
rcm_of(rseed) == IF rseed[1] = "BeforeZip212" THEN rseed[2] ELSE <<"rcm", rseed[2]>>

Note(recipient, value, rseed) == [recipient |-> recipient, value |-> value, rseed |-> rseed]

cm_full_point(note) ==
  NoteCommit(diversify_hash(note.recipient.diversifier)[1], note.recipient.pk_d,
             note.value, rcm_of(note.rseed))
cmu(note) == extract_p(cm_full_point(note))

\* Note::nf, Nullifier::derive
nf(note, nk, position) == prf_nf(nk, mixing_pedersen_hash(cm_full_point(note), position))

\* generate_or_derive_esk: what one gets, of the given random ones
generate_or_derive_esk(note, random) ==
  IF note.rseed[1] = "BeforeZip212" THEN random ELSE <<"esk", note.rseed[2]>>

\* ValueCommitment::derive
ValueCommit(value, rcv) == <<"cv", value, rcv>>

-----------------------------------------------------------------------------
(* The note commitment tree (tree.rs)                                       *)

empty_leaf == <<"uncommitted">>
combine(level, lhs, rhs) == <<"MerkleTree", level, lhs, rhs>>
EMPTY_ROOTS ==
  LET v[d \in 0 .. NOTE_COMMITMENT_TREE_DEPTH] ==
        IF d = 0 THEN empty_leaf ELSE combine(d - 1, v[d - 1], v[d - 1])
  IN  v

\* The nodes of the tree over a sequence of leaves, by level and index
NodesOf(leaves) ==
  LET at[l \in 0 .. NOTE_COMMITMENT_TREE_DEPTH] ==
        [i \in 0 .. 2 ^ (NOTE_COMMITMENT_TREE_DEPTH - l) - 1 |->
           IF i * 2 ^ l >= Len(leaves) THEN EMPTY_ROOTS[l]
           ELSE IF l = 0 THEN leaves[i + 1]
           ELSE combine(l - 1, at[l - 1][2 * i], at[l - 1][2 * i + 1])]
  IN  at

RootOf(leaves) == NodesOf(leaves)[NOTE_COMMITMENT_TREE_DEPTH][0]

Sibling(i) == IF i % 2 = 0 THEN i + 1 ELSE i - 1

\* The path of a position; positions are counted from 0.
MerklePathOf(leaves, position) ==
  LET nodes == NodesOf(leaves)
  IN  [position |-> position,
       path_elems |-> [l \in Levels |-> nodes[l - 1][Sibling(position \div 2 ^ (l - 1))]]]

-----------------------------------------------------------------------------
(* The statement of a spend (circuit.rs)                                    *)

\* assert_not_small_order
assert_not_small_order(p) == p # SmallOrderPoint

\* A variant that exposes the randomizer only.
UnboundRk(w) == <<"G", {w.ar}>>
\* ak and its randomization
SpendRk(w) == randomize(w.proof_generation_key.ak, w.ar)

SpendNk(w) == NullifierDerivingKey(w.proof_generation_key.nsk)
SpendIvk(w) == Ivk([ak |-> w.proof_generation_key.ak, nk |-> SpendNk(w)])

\* expose_value_commitment
expose_value_commitment(w) == ValueCommit(w.value, w.rcv)

\* pk_d is computed and not witnessed: the note is one of the witnessed keys.
SpendCm(w) ==
  NoteCommit(w.g_d, ka_sapling_derive_public(SpendIvk(w), w.g_d), w.value, w.rcm)

\* Ascends the authentication path, whose entries are <<node, is on the right>>.
SpendRoot(w) ==
  LET cur[l \in 0 .. Len(w.auth_path)] ==
        IF l = 0 THEN extract_p(SpendCm(w))
        ELSE LET element == w.auth_path[l][1]
             IN  IF w.auth_path[l][2] THEN combine(l - 1, element, cur[l - 1])
                 ELSE combine(l - 1, cur[l - 1], element)
  IN  cur[Len(w.auth_path)]

\* A variant that takes the first bit for the most significant one.
PositionFromTop(auth_path) ==
  LET sum[l \in 0 .. Len(auth_path)] ==
        IF l = 0 THEN 0 ELSE 2 * sum[l - 1] + (IF auth_path[l][2] THEN 1 ELSE 0)
  IN  sum[Len(auth_path)]

\* The position that the bits of the path spell
PositionOf(auth_path) ==
  LET sum[l \in 0 .. Len(auth_path)] ==
        IF l = 0 THEN 0 ELSE sum[l - 1] + (IF auth_path[l][2] THEN 2 ^ (l - 1) ELSE 0)
  IN  sum[Len(auth_path)]

SpendNf(w) == prf_nf(SpendNk(w), mixing_pedersen_hash(SpendCm(w), PositionOf(w.auth_path)))

\* A variant without the condition on the root.
AnyAnchor(w) == TRUE
\* (cur - rt) * value = 0
AnchorFits(w) == w.value = 0 \/ SpendRoot(w) = w.anchor

SpendSatisfied(w) ==
  /\ assert_not_small_order(w.proof_generation_key.ak)
  /\ assert_not_small_order(w.g_d)
  /\ AnchorFits(w)

\* In the order of inputize and pack_into_inputs
SpendInputs(w) == <<SpendRk(w), expose_value_commitment(w), w.anchor, SpendNf(w)>>

-----------------------------------------------------------------------------
(* The statement of an output: pk_d may be anything.                        *)

OutputEpk(w) == ka_sapling_derive_public(w.esk, w.g_d)
OutputCmu(w) == extract_p(NoteCommit(w.g_d, w.pk_d, w.value, w.rcm))

OutputSatisfied(w) == assert_not_small_order(w.g_d)
OutputInputs(w) == <<expose_value_commitment(w), OutputEpk(w), OutputCmu(w)>>

-----------------------------------------------------------------------------
(* Proofs (prover.rs, verifier.rs).  create_random_proof makes a proof of   *)
(* whatever it is given; one of an unsatisfied witness does not verify.     *)

\* SpendProver::prepare_circuit: the note is that of the key and diversifier.
PrepareSpend(pgk, diversifier, rseed, value, alpha, rcv, anchor, merkle_path) ==
  LET address == ToPaymentAddress(Ivk(to_viewing_key(pgk)), diversifier)
  IN  IF address = None THEN None
      ELSE Some([value |-> value, rcv |-> rcv, proof_generation_key |-> pgk,
                 g_d |-> diversify_hash(diversifier)[1], rcm |-> rcm_of(rseed), ar |-> alpha,
                 auth_path |->
                   [l \in Levels |-> <<merkle_path.path_elems[l],
                                       (merkle_path.position \div 2 ^ (l - 1)) % 2 = 1>>],
                 anchor |-> anchor])

\* OutputProver::prepare_circuit
PrepareOutput(esk, address, rcm, value, rcv) ==
  [value |-> value, rcv |-> rcv, g_d |-> diversify_hash(address.diversifier)[1],
   pk_d |-> address.pk_d, rcm |-> rcm, esk |-> esk]

ProveSpend(w) == [satisfied |-> SpendSatisfied(w), inputs |-> SpendInputs(w)]
ProveOutput(w) == [satisfied |-> OutputSatisfied(w), inputs |-> OutputInputs(w)]

ProofVerifies(proof, inputs) == proof.satisfied /\ proof.inputs = inputs

\* A variant that does not compare the anchor.
AnchorIgnored(d) ==
  ProofVerifies(d.zkproof, <<d.rk, d.cv, d.zkproof.inputs[3], d.nullifier>>)
\* The proof that check_spend has verified, over the description's own fields
SpendVerifies(d) == ProofVerifies(d.zkproof, <<d.rk, d.cv, d.anchor, d.nullifier>>)
\* and check_output
OutputVerifies(d) ==
  /\ d.ephemeral_key # SmallOrderPoint
  /\ ProofVerifies(d.zkproof, <<d.cv, d.ephemeral_key, d.cmu>>)

=============================================================================
