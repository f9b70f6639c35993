----------------------------- MODULE ShieldedPool -----------------------------
(***************************************************************************)
(* What the two statements are for: a chain that accepts outputs and       *)
(* spends only by their proofs, a wallet that spends its notes with the    *)
(* crate, and others who spend with any witness that they can put together.*)
(*                                                                         *)
(* Consensus is external: it knows the roots the tree has had and refuses  *)
(* a nullifier that it has seen.  The signatures under rk and the binding  *)
(* signature, and with them the value of cv, are checked as in             *)
(* VerifierRules.  Each transaction has one output paid from outside the   *)
(* pool, or one spend paid out of it.                                      *)
(***************************************************************************)
EXTENDS SaplingStatements

CONSTANTS
  WalletKey,     \* expanded spending key of the wallet
  OtherKeys,     \* those of others
  Diversifiers,  \* in use, all valid
  Values, Rseeds,
  MaxLeaves, MaxSpends

ASSUME PoolAssumption ==
  /\ Diversifiers \subseteq ValidDiversifiers
  /\ Values \subseteq Nat
  /\ MaxLeaves \in 0 .. 2 ^ NOTE_COMMITMENT_TREE_DEPTH /\ MaxSpends \in Nat

VARIABLES
  outputs,     \* the openings of the leaves of the tree
  nullifiers,  \* revealed so far
  pool,        \* what was paid in and not yet paid out
  spent,       \* history: the positions that spends with a value were proven for
  taken,       \* history: those of them that others spent
  attempted,   \* the wallet's notes that it has spent or tried to
  refused      \* history: those whose spend was refused
vars == <<outputs, nullifiers, pool, spent, taken, attempted, refused>>

Keys == {WalletKey} \cup OtherKeys

\* Proving may be left to others: they know every nsk, and ak of whomever; the
\* wallet's nsk they may also put beside an ak of small order.
ProofGenerationKeys ==
  {[ak |-> SpendValidatingKey(k.ask), nsk |-> j.nsk] : k, j \in Keys}
    \cup {[ak |-> SmallOrderPoint, nsk |-> WalletKey.nsk]}

Alpha == <<"alpha">>
Rcv == <<"rcv">>
Esk == <<"random_esk">>

\* The scalars that others can sign with
KnownScalars == {Alpha} \cup UNION {k.ask : k \in OtherKeys}
CanSign(rk) == rk[2] \subseteq KnownScalars

\* The wallet's ask is secret: others cannot put it together.
ASSUME SecretAssumption == ~(WalletKey.ask \subseteq KnownScalars)

GeneratorPoints == {diversify_hash(d)[1] : d \in Diversifiers} \cup {SmallOrderPoint}
TransmissionKeys ==
  {ka_sapling_derive_public(Ivk(to_viewing_key(pgk)), g) :
     pgk \in ProofGenerationKeys, g \in GeneratorPoints}

Leaves == [i \in DOMAIN outputs |-> OutputCmu(outputs[i])]
Positions == 0 .. Len(outputs) - 1
Anchors == {RootOf(SubSeq(Leaves, 1, k)) : k \in 0 .. Len(outputs)}

Init ==
  /\ outputs = <<>> /\ nullifiers = {} /\ pool = 0
  /\ spent = {} /\ taken = {} /\ attempted = {} /\ refused = {}

-----------------------------------------------------------------------------
(* Outputs                                                                  *)

OutputWitnesses ==
  [value : Values, rcv : {Rcv}, g_d : GeneratorPoints, pk_d : TransmissionKeys,
   rcm : {rcm_of(r) : r \in Rseeds}, esk : {Esk}]

\* check_output of a proof for the witness
AddOutput(w) ==
  LET proof == ProveOutput(w)
  IN  /\ Len(outputs) < MaxLeaves
      /\ OutputVerifies([cv |-> expose_value_commitment(w), ephemeral_key |-> OutputEpk(w),
                         cmu |-> OutputCmu(w), zkproof |-> proof])
      /\ outputs' = Append(outputs, w)
      /\ pool' = pool + w.value
      /\ UNCHANGED <<nullifiers, spent, taken, attempted, refused>>

-----------------------------------------------------------------------------
(* Spends                                                                   *)

\* What consensus asks of a spend: check_spend, and its own two rules
Accepts(d) ==
  /\ d.nullifier \notin nullifiers
  /\ d.anchor \in Anchors
  /\ SpendVerifies(d)

Accept(d, value, position) ==
  /\ nullifiers' = nullifiers \cup {d.nullifier}
  /\ pool' = pool - value
  /\ spent' = IF value = 0 THEN spent ELSE spent \cup {position}

\* The wallet's notes: those it received, as trial decryption finds them
WalletVk == to_viewing_key(proof_generation_key(WalletKey))
WalletNotes ==
  {<<p, Note(ToPaymentAddress(Ivk(WalletVk), d)[1], outputs[p + 1].value, r)>> :
     p \in Positions, d \in Diversifiers, r \in Rseeds}
IsWalletNote(p, note) == cmu(note) = Leaves[p + 1]

\* SpendInfo::new with a witness over k leaves, build_inner, create_proofs
WalletDescription(note, position, k) ==
  LET tree == SubSeq(Leaves, 1, k)
      w == PrepareSpend(proof_generation_key(WalletKey), note.recipient.diversifier,
                        note.rseed, note.value, Alpha, Rcv, RootOf(tree),
                        MerklePathOf(tree, position))[1]
  IN  [cv |-> ValueCommit(note.value, Rcv), anchor |-> RootOf(tree),
       nullifier |-> nf(note, WalletVk.nk, position), rk |-> randomize(WalletVk.ak, Alpha),
       zkproof |-> ProveSpend(w)]

WalletSpends(p, note, k) ==
  LET d == WalletDescription(note, p, k)
  IN  /\ Cardinality(nullifiers) < MaxSpends
      /\ IsWalletNote(p, note)
      /\ p \notin attempted
      /\ attempted' = attempted \cup {p}
      /\ IF Accepts(d)
         THEN Accept(d, note.value, p) /\ UNCHANGED refused
         ELSE refused' = refused \cup {p} /\ UNCHANGED <<nullifiers, pool, spent>>
      /\ UNCHANGED <<outputs, taken>>

\* A path of the tree over k leaves, with the bits of any position
AuthPath(k, p, bits) ==
  LET path == MerklePathOf(SubSeq(Leaves, 1, k), p)
  IN  [l \in Levels |-> <<path.path_elems[l], (bits \div 2 ^ (l - 1)) % 2 = 1>>]

\* A witness for the tree over k leaves: the anchor fits no other
SpendWitnesses(k, path) ==
  [value : Values, rcv : {Rcv}, ar : {Alpha}, g_d : GeneratorPoints,
   proof_generation_key : ProofGenerationKeys, rcm : {rcm_of(r) : r \in Rseeds},
   anchor : {RootOf(SubSeq(Leaves, 1, k))}, auth_path : {path}]

\* A spend by others: with a proof for any witness, under a key they hold
OtherSpends(w) ==
  /\ Cardinality(nullifiers) < MaxSpends
  /\ SpendSatisfied(w) /\ CanSign(SpendRk(w))
  /\ LET d == [cv |-> expose_value_commitment(w), anchor |-> w.anchor,
               nullifier |-> SpendNf(w), rk |-> SpendRk(w), zkproof |-> ProveSpend(w)]
         position == PositionOf(w.auth_path)
     IN  /\ Accepts(d)
         /\ Accept(d, w.value, position)
         /\ taken' = IF w.value = 0 THEN taken ELSE taken \cup {position}
  /\ UNCHANGED <<outputs, attempted, refused>>

Next ==
  \/ \E w \in OutputWitnesses : AddOutput(w)
  \/ \E n \in WalletNotes : \E k \in n[1] + 1 .. Len(outputs) : WalletSpends(n[1], n[2], k)
  \/ \E k \in 1 .. Len(outputs) :
       \E p \in 0 .. k - 1, bits \in 0 .. 2 ^ NOTE_COMMITMENT_TREE_DEPTH - 1 :
         \E w \in SpendWitnesses(k, AuthPath(k, p, bits)) : OtherSpends(w)

Spec == Init /\ [][Next]_vars

-----------------------------------------------------------------------------
(* Properties                                                               *)

\* The value of the positions in a set
ValueAt(positions) ==
  LET sum[n \in 0 .. Len(outputs)] ==
        IF n = 0 THEN 0
        ELSE sum[n - 1] + (IF n - 1 \in positions THEN outputs[n].value ELSE 0)
  IN  sum[Len(outputs)]

\* The pool holds exactly the value of the notes that have not been spent: no
\* note is spent twice, none is spent that is not in the tree or for another
\* value, whatever keys, points of small order, position bits, old roots and
\* repeated notes a prover makes use of.
PoolIsBacked == spent \subseteq Positions /\ pool = ValueAt(Positions \ spent)

\* Nobody else can spend a note of the wallet, not even who knows the nsk that
\* proving takes.
OnlyTheWalletSpends ==
  \A n \in WalletNotes : IsWalletNote(n[1], n[2]) => n[1] \notin taken

\* The nullifier that the crate computes is the one its circuit does, and it
\* is new: neither a second note with the same contents nor the nullifiers of
\* others' notes and of notes without value make a note unspendable.
WalletIsNeverRefused == refused = {}

=============================================================================
