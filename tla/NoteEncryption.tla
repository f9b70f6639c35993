---------------------------- MODULE NoteEncryption ----------------------------
(***************************************************************************)
(* In-band secret distribution of src/src/note_encryption.rs: senders put  *)
(* notes into outputs, a wallet scans the outputs of a chain with its      *)
(* incoming viewing keys, and a sender recovers what it sent.  The flow of *)
(* trial decryption and recovery is that of the zcash_note_encryption      *)
(* crate, which calls back into SaplingDomain.                             *)
(*                                                                         *)
(* Points are symbolic: a base, the scalars it was multiplied by, and      *)
(* whether a component of small order was added.  A hash is the record of  *)
(* its inputs.  The 32 bytes of a plaintext that carry the randomness      *)
(* stand for the value and the memo too, which travel with them.           *)
(***************************************************************************)
EXTENDS Integers, Sequences, FiniteSets

CONSTANTS
  Keys,               \* incoming viewing keys
  Ivks,               \* those of the wallet that scans, in its order
  Diversifiers,
  ValidDiversifiers,  \* those for which g_d exists
  Seeds,              \* 32 random bytes
  ScalarSeeds,        \* those that are canonical encodings of a scalar
  Ovks,
  None,               \* no value, or bytes that encode none
  MaxOutputs,         \* bound on the outputs of the chain
  MaxAlterations      \* bound on the fields that differ from an honest output

ASSUME NoteAssumption ==
  /\ Ivks \in Seq(Keys) /\ Len(Ivks) \in Nat
  /\ ValidDiversifiers \subseteq Diversifiers
  /\ ScalarSeeds \subseteq Seeds
  /\ None \notin Keys \cup Diversifiers \cup Seeds \cup Ovks
  /\ {MaxOutputs, MaxAlterations} \subseteq Nat

VARIABLES
  zip212,       \* the enforcement in force at the tip of the chain
  compact,      \* whether the wallet scans compact outputs
  outputs,      \* [desc, note, ovk, altered] in the order of the chain
  found,        \* [zip212, hit] of each output scanned so far
  alterations

vars == <<zip212, compact, outputs, found, alterations>>

-----------------------------------------------------------------------------
(* Key agreement                                                            *)

Point(base) == [base |-> base, by |-> {}, torsion |-> FALSE]
Identity == Point(None)

GD(d) == IF d \in ValidDiversifiers THEN Point(d) ELSE None

DerivePublic(k, P) == IF P = Identity THEN P ELSE [P EXCEPT !.by = @ \cup {k}]

\* [8 k] P: what is left has prime order.
Agree(k, P) == [DerivePublic(k, P) EXCEPT !.torsion = FALSE]

Kdf(secret, ek) == [secret |-> secret, ek |-> ek]

\* The value commitment is hashed too; it is left out of the outputs.
PrfOck(ovk, cmu, ek) == [ovk |-> ovk, cmu |-> cmu, ek |-> ek]

\* The transmission key of k for d
TransmissionKeyOf(k, d) == IF GD(d) = None THEN None ELSE DerivePublic(k, GD(d))

-----------------------------------------------------------------------------
(* Notes                                                                    *)

RandomEsk(r) == [prf |-> FALSE, of |-> r]

\* Before ZIP 212 the bytes are the trapdoor, and later they are expanded to it.
Rcm(rseed) == [prf |-> rseed.v2, of |-> rseed.seed]

Cmu(note) ==
  [diversifier |-> note.diversifier, pk_d |-> note.pk_d, rcm |-> Rcm(note.rseed)]

\* After ZIP 212 the ephemeral key is determined by the note.
DeriveEsk(note) == IF note.rseed.v2 THEN [prf |-> TRUE, of |-> note.rseed.seed] ELSE None

\* A variant that always draws a fresh key.
AlwaysRandomEsk(note, r) == RandomEsk(r)

GenerateOrDeriveEsk(note, r) ==
  IF DeriveEsk(note) = None THEN RandomEsk(r) ELSE DeriveEsk(note)

\* The randomness that a sender may draw under an enforcement
Rseeds(enforcement) ==
  IF enforcement = "Off" THEN {[v2 |-> FALSE, seed |-> r] : r \in ScalarSeeds}
  ELSE {[v2 |-> TRUE, seed |-> r] : r \in Seeds}

Address(k, d, rseed) ==
  [diversifier |-> d, pk_d |-> TransmissionKeyOf(k, d), rseed |-> rseed]

\* What scalars, points, plaintexts and notes may be.  The seed of noise is none.
Scalars == Keys \cup [prf : BOOLEAN, of : Seeds]
Points == [base : Diversifiers \cup {None}, by : SUBSET Scalars, torsion : BOOLEAN]
Plaintexts == [lead : 0 .. 2, diversifier : Diversifiers, seed : Seeds \cup {None}]
Notes ==
  [diversifier : Diversifiers, pk_d : Points,
   rseed : [v2 : BOOLEAN, seed : Seeds \cup {None}]]

\* The placeholder is none of them, nor a key or a hit made of them.
ASSUME NoneAssumption ==
  /\ None \notin Scalars \cup Points \cup Plaintexts \cup Notes
  /\ None \notin [secret : Points, ek : Points] \cup [viewer : Nat, note : Notes]
  /\ None \notin [ovk : Ovks, cmu : [diversifier : Diversifiers, pk_d : Points,
                                     rcm : [prf : BOOLEAN, of : Seeds]], ek : Points]

-----------------------------------------------------------------------------
(* Encryption                                                               *)

NotePlaintext(note) ==
  [lead |-> IF note.rseed.v2 THEN 2 ELSE 1,
   diversifier |-> note.diversifier, seed |-> note.rseed.seed]

Epk(note, esk) == DerivePublic(esk, GD(note.diversifier))

Encrypt(note, esk, ovk) ==
  LET ek == Epk(note, esk)
  IN [cmu |-> Cmu(note), ephemeral_key |-> ek,
      enc |-> [key |-> Kdf(Agree(esk, note.pk_d), ek), plain |-> NotePlaintext(note),
               intact |-> TRUE],
      out |-> [key |-> IF ovk = None THEN None ELSE PrfOck(ovk, Cmu(note), ek),
               pk_d |-> note.pk_d, esk |-> esk]]

-----------------------------------------------------------------------------
(* Decryption                                                               *)

\* A variant that accepts every version from the grace period on.
LaxVersion(enforcement, lead) ==
  IF enforcement = "Off" THEN lead = 1 ELSE lead \in {1, 2}

VersionIsValid(enforcement, lead) ==
  \/ lead = 1 /\ enforcement \in {"Off", "GracePeriod"}
  \/ lead = 2 /\ enforcement \in {"GracePeriod", "On"}

\* pk_d is what the caller's get_pk_d gives for the diversifier.
ParseNotePlaintext(enforcement, plain, pk_d) ==
  IF \/ ~VersionIsValid(enforcement, plain.lead)
     \/ plain.lead = 1 /\ plain.seed \notin ScalarSeeds
     \/ pk_d \in {None, Identity}
  THEN None
  ELSE [diversifier |-> plain.diversifier, pk_d |-> pk_d,
        rseed |-> [v2 |-> plain.lead # 1, seed |-> plain.seed]]

ParseIvk(enforcement, ivk, plain) ==
  ParseNotePlaintext(enforcement, plain, TransmissionKeyOf(ivk, plain.diversifier))

ParseOvk(enforcement, pk_d, plain) ==
  ParseNotePlaintext(enforcement, plain,
                     IF GD(plain.diversifier) = None THEN None ELSE pk_d)

CheckNoteValidity(note, ek, cmu) ==
  /\ Cmu(note) = cmu
  /\ note.rseed.v2 => Epk(note, DeriveEsk(note)) = ek

\* Without its tag, a ciphertext under another key decrypts to noise.
Noise == [lead |-> 2, diversifier |-> CHOOSE d \in Diversifiers : TRUE, seed |-> None]

CompactPlaintext(enc, key) == IF enc.key = key THEN enc.plain ELSE Noise

FullPlaintext(enc, key) == IF enc.key = key /\ enc.intact THEN enc.plain ELSE None

DecryptWithKey(enforcement, ivk, o, key, form) ==
  LET plain == IF form THEN CompactPlaintext(o.enc, key) ELSE FullPlaintext(o.enc, key)
      note == IF plain = None THEN None ELSE ParseIvk(enforcement, ivk, plain)
  IN IF note # None /\ CheckNoteValidity(note, o.ephemeral_key, o.cmu) THEN note ELSE None

\* try_sapling_note_decryption and try_sapling_compact_note_decryption
TryNoteDecryption(enforcement, ivk, o, form) ==
  IF o.ephemeral_key = None THEN None
  ELSE DecryptWithKey(enforcement, ivk, o,
                      Kdf(Agree(ivk, o.ephemeral_key), o.ephemeral_key), form)

\* What the sender reads must be derived from what it put aside.
ReadBySender(enforcement, o, plain) ==
  LET note == ParseOvk(enforcement, o.out.pk_d, plain)
  IN IF /\ note # None
        /\ DeriveEsk(note) \in {None, o.out.esk}
        /\ CheckNoteValidity(note, o.ephemeral_key, o.cmu)
     THEN note ELSE None

\* try_sapling_output_recovery, which is that with_ock once the key is derived
TryOutputRecovery(enforcement, ovk, o) ==
  IF \/ o.out.key # PrfOck(ovk, o.cmu, o.ephemeral_key)
     \/ None \in {o.out.pk_d, o.out.esk}
  THEN None
  ELSE LET plain == FullPlaintext(o.enc, Kdf(Agree(o.out.esk, o.out.pk_d), o.ephemeral_key))
       IN IF plain = None THEN None ELSE ReadBySender(enforcement, o, plain)

-----------------------------------------------------------------------------
(* Batched trial decryption                                                 *)

Present(secrets) == {k \in DOMAIN secrets : secrets[k] # None}

\* How many of the places that have a point are not after k
Rank(present, k) == Cardinality({m \in present : m <= k})

\* The points that exist, in their order
Filtered(secrets) ==
  LET present == Present(secrets)
  IN [n \in 1 .. Cardinality(present) |->
        secrets[CHOOSE k \in present : Rank(present, k) = n]]

\* A variant that does not leave the places of the missing points.
AffineInOrder(secrets) ==
  LET affine == Filtered(secrets)
  IN [k \in DOMAIN secrets |-> IF k \in DOMAIN affine THEN affine[k] ELSE None]

\* Only the points that exist are normalised; each place that had one takes the
\* next of the results.
BatchToAffine(secrets) ==
  LET present == Present(secrets)
      affine == Filtered(secrets)
  IN [k \in DOMAIN secrets |->
        IF k \in present THEN affine[Rank(present, k)] ELSE None]

BatchKdf(secrets, eks) ==
  LET affine == BatchToAffine(secrets)
  IN [k \in DOMAIN secrets |-> IF affine[k] = None THEN None ELSE Kdf(affine[k], eks[k])]

\* batch_epk
BatchEpk(os) == [i \in DOMAIN os |-> os[i].ephemeral_key]

\* One key for each output and viewing key: those of output i are the items
\* from (i - 1) * n + 1 to i * n.
BatchKeys(os) ==
  LET n == Len(Ivks)
      items == 1 .. Len(os) * n
      eks == [k \in items |-> BatchEpk(os)[((k - 1) \div n) + 1]]
      secrets == [k \in items |->
                    IF eks[k] = None THEN None ELSE Agree(Ivks[((k - 1) % n) + 1], eks[k])]
  IN BatchKdf(secrets, eks)

\* What the viewing keys find in output o with their keys
Trials(enforcement, o, keys, form) ==
  [v \in DOMAIN Ivks |->
     IF keys[v] = None THEN None ELSE DecryptWithKey(enforcement, Ivks[v], o, keys[v], form)]

\* The first viewing key that finds a note
FirstHit(trials) ==
  LET hits == {v \in DOMAIN trials : trials[v] # None}
      first == CHOOSE v \in hits : \A w \in hits : v <= w
  IN IF hits = {} THEN None ELSE [viewer |-> first, note |-> trials[first]]

BatchDecryption(enforcement, os, form) ==
  LET n == Len(Ivks)
      keys == BatchKeys(os)
      KeysOf(i) == [v \in 1 .. n |-> keys[(i - 1) * n + v]]
  IN [i \in DOMAIN os |-> FirstHit(Trials(enforcement, os[i], KeysOf(i), form))]

-----------------------------------------------------------------------------
(* The chain                                                                *)

Init ==
  /\ zip212 = "Off" /\ compact \in BOOLEAN
  /\ outputs = <<>> /\ found = <<>>
  /\ alterations = 0

\* A sender, told the enforcement in force, sends a note to an address.
Send(k, d, rseed, r, ovk) ==
  LET note == Address(k, d, rseed)
  IN /\ Len(outputs) < MaxOutputs
     /\ outputs' = Append(outputs,
          [desc |-> Encrypt(note, GenerateOrDeriveEsk(note, r), ovk),
           note |-> note, ovk |-> ovk, altered |-> FALSE])
     /\ UNCHANGED <<zip212, compact, found, alterations>>

\* The enforcement advances with the height of the chain.
Advance ==
  /\ zip212 # "On"
  /\ zip212' = IF zip212 = "Off" THEN "GracePeriod" ELSE "On"
  /\ UNCHANGED <<compact, outputs, found, alterations>>

\* Bytes that are not the ephemeral key ek: no point, and one of another order
OtherKeys(ek) == {None, [ek EXCEPT !.torsion = TRUE]}

\* Notes to the same key
OtherNotes(note) ==
  [diversifier : ValidDiversifiers, pk_d : {note.pk_d},
   rseed : [v2 : BOOLEAN, seed : Seeds]]

\* An output that differs from o in one respect, whether or not the rest was
\* fitted to it.  Other software builds such outputs, and consensus does not
\* look inside the ciphertexts.
Variants(o, note, ovk) ==
  {[o EXCEPT !.ephemeral_key = ek] : ek \in OtherKeys(o.ephemeral_key)}
  \cup {[o EXCEPT !.ephemeral_key = ek, !.enc.key.ek = ek] :
           ek \in OtherKeys(o.ephemeral_key)}
  \cup {[o EXCEPT !.enc.intact = FALSE]}
  \cup {[o EXCEPT !.enc.plain.lead = l] : l \in 0 .. 2}
  \cup {[o EXCEPT !.enc.plain.diversifier = d] : d \in Diversifiers}
  \cup {[o EXCEPT !.cmu = Cmu(n)] : n \in OtherNotes(note)}
  \cup {[o EXCEPT !.cmu = Cmu(n), !.enc.plain = NotePlaintext(n),
                   !.out.key = PrfOck(ovk, Cmu(n), o.ephemeral_key)] :
           n \in OtherNotes(note)}
  \cup {[o EXCEPT !.out.pk_d = pk] : pk \in {None, Identity}}
  \cup {[o EXCEPT !.out.esk = None]}
  \cup {Encrypt(note, RandomEsk(r), ovk) : r \in Seeds}

Alter ==
  LET last == outputs[Len(outputs)]
  IN /\ Len(found) < Len(outputs)
     /\ alterations < MaxAlterations
     /\ last.desc.ephemeral_key # None
     /\ \E o \in Variants(last.desc, last.note, last.ovk) :
          outputs' = [outputs EXCEPT ![Len(outputs)].desc = o,
                                     ![Len(outputs)].altered = TRUE]
     /\ alterations' = alterations + 1
     /\ UNCHANGED <<zip212, compact, found>>

\* The wallet scans what is new on the chain, in one batch.
Scan ==
  LET new == [i \in 1 .. Len(outputs) - Len(found) |-> outputs[Len(found) + i].desc]
      hits == BatchDecryption(zip212, new, compact)
  IN /\ Len(found) < Len(outputs)
     /\ found' = [i \in 1 .. Len(outputs) |->
          IF i \in DOMAIN found THEN found[i]
          ELSE [zip212 |-> zip212, hit |-> hits[i - Len(found)]]]
     /\ UNCHANGED <<zip212, compact, outputs, alterations>>

Next ==
  \/ \E k \in Keys, d \in ValidDiversifiers, rseed \in Rseeds(zip212), r \in ScalarSeeds,
        ovk \in Ovks \cup {None} : Send(k, d, rseed, r, ovk)
  \/ Advance
  \/ Alter
  \/ Scan

Spec == Init /\ [][Next]_vars

-----------------------------------------------------------------------------
(* Properties                                                               *)

IsSequence(s) == s \in Seq({s[i] : i \in DOMAIN s})

\* The shape of the state: what was scanned is a prefix of the chain.
TypeOK ==
  /\ zip212 \in {"Off", "GracePeriod", "On"} /\ compact \in BOOLEAN
  /\ IsSequence(outputs) /\ IsSequence(found)
  /\ Len(found) <= Len(outputs)
  /\ alterations \in Nat

\* A hit of a viewing key in output o, scanned under an enforcement, is a note
\* at an address of that key, to which the output commits, of a version that
\* was allowed and, after ZIP 212, with the ephemeral key that it determines.
Spendable(hit, o, enforcement) ==
  /\ hit.viewer \in DOMAIN Ivks
  /\ hit.note.diversifier \in ValidDiversifiers
  /\ hit.note.pk_d = DerivePublic(Ivks[hit.viewer], Point(hit.note.diversifier))
  /\ Cmu(hit.note) = o.cmu
  /\ IF hit.note.rseed.v2
     THEN enforcement # "Off" /\ o.ephemeral_key = Epk(hit.note, DeriveEsk(hit.note))
     ELSE enforcement # "On"

\* Whatever the outputs of the chain hold, what the wallet finds in them it can
\* spend.
FoundIsSpendable ==
  \A i \in DOMAIN found :
    found[i].hit # None => Spendable(found[i].hit, outputs[i].desc, found[i].zip212)

\* Whether a record has the fields of an output description
IsDescription(o) ==
  /\ o = [cmu |-> o.cmu, ephemeral_key |-> o.ephemeral_key,
          enc |-> [key |-> o.enc.key, plain |-> o.enc.plain, intact |-> o.enc.intact],
          out |-> o.out]
  /\ o.ephemeral_key \in Points \cup {None}
  /\ o.enc.plain \in Plaintexts

\* Whether a sender made an output: it is for a note at an address, and unless
\* it was altered, it is the encryption of this note.
IsSent(sent) ==
  /\ DOMAIN sent = {"desc", "note", "ovk", "altered"}
  /\ \E k \in Keys, d \in ValidDiversifiers, v2 \in BOOLEAN :
       \E seed \in IF v2 THEN Seeds ELSE ScalarSeeds :
         sent.note = Address(k, d, [v2 |-> v2, seed |-> seed])
  /\ sent.ovk \in Ovks \cup {None}
  /\ ~sent.altered => \E r \in ScalarSeeds :
       sent.desc = Encrypt(sent.note, GenerateOrDeriveEsk(sent.note, r), sent.ovk)

OutputsAreSent ==
  \A i \in DOMAIN outputs : IsSent(outputs[i]) /\ IsDescription(outputs[i].desc)

\* What each viewing key finds in an output on its own
TrialsOf(enforcement, o, form) ==
  [v \in DOMAIN Ivks |-> TryNoteDecryption(enforcement, Ivks[v], o, form)]

\* What a batch found in an output is what a wallet that tries one viewing key
\* after the other finds first.
FoundIsFirst ==
  \A i \in DOMAIN found :
    found[i].hit = FirstHit(TrialsOf(found[i].zip212, outputs[i].desc, compact))

\* The inductive invariant
IInv == TypeOK /\ FoundIsSpendable /\ OutputsAreSent /\ FoundIsFirst

\* A wallet finds every honest output sent to it, and no other, as long as the
\* version its sender chose is still allowed when it is scanned; the sender
\* recovers the same note with the outgoing viewing key it used.
OwnNotesFound ==
  \A i \in DOMAIN found :
    LET sent == outputs[i]
        allowed == {"GracePeriod", IF sent.note.rseed.v2 THEN "On" ELSE "Off"}
        viewers == {v \in DOMAIN Ivks : sent.note.pk_d.by = {Ivks[v]}}
    IN ~sent.altered /\ found[i].zip212 \in allowed =>
         /\ IF viewers = {} THEN found[i].hit = None
            ELSE /\ found[i].hit # None
                 /\ found[i].hit.viewer \in viewers
                 /\ found[i].hit.note = sent.note
         /\ \A ovk \in Ovks :
              TryOutputRecovery(found[i].zip212, ovk, sent.desc) =
                IF ovk = sent.ovk THEN sent.note ELSE None

\* Every way to read an output gives the same note: a batch finds what the
\* first successful trial of a viewing key would, a full ciphertext holds
\* nothing that its compact form does not, and a sender recovers no other
\* note than the recipient's.
RoutesAgree ==
  \A i \in DOMAIN found :
    LET o == outputs[i].desc
        hit == found[i].hit
        Trial(v, form) == TryNoteDecryption(found[i].zip212, Ivks[v], o, form)
        viewers == {v \in DOMAIN Ivks : Trial(v, compact) # None}
    IN /\ IF viewers = {} THEN hit = None
          ELSE /\ hit # None
               /\ hit.viewer \in viewers /\ \A v \in viewers : hit.viewer <= v
               /\ hit.note = Trial(hit.viewer, compact)
       /\ \A v \in DOMAIN Ivks : Trial(v, FALSE) \in {None, Trial(v, TRUE)}
       /\ hit # None =>
            \A ovk \in Ovks : TryOutputRecovery(found[i].zip212, ovk, o) \in {None, hit.note}
=============================================================================
