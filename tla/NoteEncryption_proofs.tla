------------------------ MODULE NoteEncryption_proofs ------------------------
(***************************************************************************)
(* Proofs about NoteEncryption, for any keys, any diversifiers and chains  *)
(* of any length.                                                          *)
(***************************************************************************)
EXTENDS NoteEncryption, Induction, SequenceTheorems

\* The first hit is one of the trials that succeeded.
LEMMA FirstHitIsTrial ==
  ASSUME NEW trials, DOMAIN trials \subseteq Nat, FirstHit(trials) # None
  PROVE  \E v \in DOMAIN trials :
           trials[v] # None /\ FirstHit(trials) = [viewer |-> v, note |-> trials[v]]
<1> DEFINE hits == {v \in DOMAIN trials : trials[v] # None}
           first == CHOOSE v \in hits : \A w \in hits : v <= w
<1>1. hits # {} /\ FirstHit(trials) = [viewer |-> first, note |-> trials[first]]
  BY DEF FirstHit
<1>2. \E v \in hits : \A w \in hits : v <= w
  BY <1>1, LeastExists
<1>3. first \in hits
  BY <1>2
<1>4. QED
  BY <1>1, <1>3

\* A plaintext that parses has an allowed version and a valid diversifier,
\* and its address is the viewing key's.
LEMMA ParsedNote ==
  ASSUME NEW enforcement, NEW ivk, NEW plain, ParseIvk(enforcement, ivk, plain) # None
  PROVE  LET note == ParseIvk(enforcement, ivk, plain)
         IN /\ note.diversifier \in ValidDiversifiers
            /\ note.pk_d = DerivePublic(ivk, Point(note.diversifier))
            /\ note.rseed.v2 => enforcement # "Off"
            /\ ~note.rseed.v2 => enforcement # "On"
<1> DEFINE pk_d == TransmissionKeyOf(ivk, plain.diversifier)
           note == ParseIvk(enforcement, ivk, plain)
<1>1. /\ VersionIsValid(enforcement, plain.lead)
      /\ pk_d # None
      /\ note = [diversifier |-> plain.diversifier, pk_d |-> pk_d,
                 rseed |-> [v2 |-> plain.lead # 1, seed |-> plain.seed]]
  BY DEF ParseIvk, ParseNotePlaintext
<1>2. note.diversifier = plain.diversifier /\ note.pk_d = pk_d
      /\ note.rseed.v2 = (plain.lead # 1)
  BY <1>1
<1>3. /\ plain.diversifier \in ValidDiversifiers
      /\ pk_d = DerivePublic(ivk, Point(plain.diversifier))
  BY <1>1 DEF TransmissionKeyOf, GD
<1>4. /\ plain.lead # 1 => enforcement # "Off"
      /\ plain.lead = 1 => enforcement # "On"
  BY <1>1 DEF VersionIsValid
<1> HIDE DEF note
<1>5. QED
  BY <1>2, <1>3, <1>4 DEF note

\* Whatever key decrypts an output, the note that comes out is spendable.
LEMMA DecryptedNote ==
  ASSUME NEW enforcement, NEW v \in DOMAIN Ivks, NEW o, NEW key, NEW form,
         DecryptWithKey(enforcement, Ivks[v], o, key, form) # None
  PROVE  LET note == DecryptWithKey(enforcement, Ivks[v], o, key, form)
         IN Spendable([viewer |-> v, note |-> note], o, enforcement)
<1> DEFINE plain == IF form THEN CompactPlaintext(o.enc, key) ELSE FullPlaintext(o.enc, key)
           note == DecryptWithKey(enforcement, Ivks[v], o, key, form)
           hit == [viewer |-> v, note |-> note]
<1>1. /\ note = ParseIvk(enforcement, Ivks[v], plain)
      /\ CheckNoteValidity(note, o.ephemeral_key, o.cmu)
  BY DEF DecryptWithKey
<1>2. /\ note.diversifier \in ValidDiversifiers
      /\ note.pk_d = DerivePublic(Ivks[v], Point(note.diversifier))
      /\ note.rseed.v2 => enforcement # "Off"
      /\ ~note.rseed.v2 => enforcement # "On"
  BY <1>1, ParsedNote
<1>3. /\ Cmu(note) = o.cmu
      /\ note.rseed.v2 => o.ephemeral_key = Epk(note, DeriveEsk(note))
  BY <1>1 DEF CheckNoteValidity
<1> HIDE DEF note
<1>4. hit.viewer = v /\ hit.note = note
  OBVIOUS
<1> HIDE DEF hit
<1>5. Spendable(hit, o, enforcement)
  BY <1>2, <1>3, <1>4 DEF Spendable
<1>6. QED
  BY <1>5 DEF hit, note

\* A batch finds only spendable notes, whichever keys it computed.
LEMMA BatchIsSound ==
  ASSUME NEW enforcement, NEW os, NEW form, NEW i \in DOMAIN os
  PROVE  LET hit == BatchDecryption(enforcement, os, form)[i]
         IN hit # None => Spendable(hit, os[i], enforcement)
<1> DEFINE KeysOf(k) == [v \in 1 .. Len(Ivks) |-> BatchKeys(os)[(k - 1) * Len(Ivks) + v]]
           trials == Trials(enforcement, os[i], KeysOf(i), form)
           hit == FirstHit(trials)
<1>1. BatchDecryption(enforcement, os, form)[i] = hit
  BY DEF BatchDecryption
<1>2. SUFFICES ASSUME hit # None PROVE Spendable(hit, os[i], enforcement)
  BY <1>1
<1>3. DOMAIN trials = DOMAIN Ivks /\ DOMAIN Ivks \subseteq Nat
  BY NoteAssumption DEF NoteAssumption, Trials
<1>4. PICK v \in DOMAIN Ivks : trials[v] # None /\ hit = [viewer |-> v, note |-> trials[v]]
  BY <1>2, <1>3, FirstHitIsTrial
<1>5. trials[v] = DecryptWithKey(enforcement, Ivks[v], os[i], KeysOf(i)[v], form)
  BY <1>4 DEF Trials
<1>6. QED
  BY <1>4, <1>5, DecryptedNote

-----------------------------------------------------------------------------
(* What a batch computes                                                    *)

\* Each place that has a point has a rank of its own.
LEMMA RanksCount ==
  ASSUME NEW P \in SUBSET Nat, IsFiniteSet(P), NEW k \in P
  PROVE  /\ Rank(P, k) \in 1 .. Cardinality(P)
         /\ \A j \in P : Rank(P, j) = Rank(P, k) => j = k
<1> DEFINE Up(j) == {m \in P : m <= j}
<1>1. \A j \in P : /\ IsFiniteSet(Up(j)) /\ Cardinality(Up(j)) \in Nat
                   /\ Cardinality(Up(j)) <= Cardinality(P)
                   /\ Cardinality(Up(j)) # 0
  <2> TAKE j \in P
  <2>1. Up(j) \in SUBSET P /\ j \in Up(j)
    OBVIOUS
  <2> HIDE DEF Up
  <2>2. IsFiniteSet(Up(j)) /\ Cardinality(Up(j)) <= Cardinality(P)
    BY <2>1, FS_Subset
  <2>3. QED
    BY <2>1, <2>2, FS_CardinalityType, FS_EmptySet
<1>2. Cardinality(P) \in Nat
  BY FS_CardinalityType
<1>3. ASSUME NEW i \in P, NEW j \in P, i < j
      PROVE  Cardinality(Up(i)) # Cardinality(Up(j))
  <2>1. Up(i) \in SUBSET Up(j) /\ j \in Up(j) /\ j \notin Up(i)
    <3>1. \A m \in P : m \in Nat
      OBVIOUS
    <3>2. i \in Nat /\ j \in Nat /\ j <= j /\ ~(j <= i)
      BY <1>3, <3>1
    <3>3. \A m \in P : m <= i => m <= j
      BY <1>3, <3>1, <3>2
    <3>4. QED
      BY <3>2, <3>3
  <2> HIDE DEF Up
  <2>2. QED
    BY <1>1, <2>1, FS_Subset
<1>4. \A j \in P : Rank(P, j) = Cardinality(Up(j))
  BY DEF Rank
<1> HIDE DEF Up
<1>5. Rank(P, k) \in 1 .. Cardinality(P)
  BY <1>1, <1>2, <1>4
<1>6. \A j \in P : Rank(P, j) = Rank(P, k) => j = k
  <2> TAKE j \in P
  <2>1. ~(j < k) /\ ~(k < j) => j = k
    OBVIOUS
  <2>2. QED
    BY <1>3, <1>4, <2>1
<1>7. QED
  BY <1>5, <1>6

\* The normalised points are back in their places.
LEMMA AffineKeepsPlaces ==
  ASSUME NEW N \in Nat, NEW secrets, DOMAIN secrets = 1 .. N, NEW k \in 1 .. N
  PROVE  BatchToAffine(secrets)[k] = secrets[k]
<1> DEFINE P == Present(secrets)
           place(n) == CHOOSE j \in P : Rank(P, j) = n
<1>1. P \in SUBSET (1 .. N) /\ P \in SUBSET Nat
  BY DEF Present
<1>2. IsFiniteSet(P)
  BY <1>1, FS_Interval, FS_Subset
<1>3. BatchToAffine(secrets)[k] = IF k \in P THEN Filtered(secrets)[Rank(P, k)] ELSE None
  BY DEF BatchToAffine
<1>4. k \notin P => secrets[k] = None
  BY DEF Present
<1>5. ASSUME k \in P
      PROVE  Filtered(secrets)[Rank(P, k)] = secrets[k]
  <2>1. Rank(P, k) \in 1 .. Cardinality(P) /\ \A j \in P : Rank(P, j) = Rank(P, k) => j = k
    <3> HIDE DEF P
    <3>1. QED
      BY <1>1, <1>2, <1>5, RanksCount
  <2>2. place(Rank(P, k)) = k
    <3> HIDE DEF P
    <3>1. QED
      BY <1>5, <2>1
  <2>3. Filtered(secrets)[Rank(P, k)] = secrets[place(Rank(P, k))]
    BY <2>1 DEF Filtered
  <2>4. QED
    BY <2>2, <2>3
<1> HIDE DEF P
<1>6. QED
  BY <1>3, <1>4, <1>5

\* x is the item of output i and viewing key v, of N outputs and n keys.
IsItem(x, i, v, N, n) ==
  /\ x \in 1 .. N * n
  /\ ((x - 1) \div n) + 1 = i
  /\ ((x - 1) % n) + 1 = v

LEMMA ItemOf ==
  ASSUME NEW n \in Nat \ {0}, NEW N \in Nat, NEW i \in 1 .. N, NEW v \in 1 .. n
  PROVE  IsItem((i - 1) * n + v, i, v, N, n)
<1>1. PICK q \in Nat, r \in 0 .. n - 1 : q = i - 1 /\ r = v - 1
  OBVIOUS
<1>2. PICK d \in Nat : N = q + 1 + d
  <2>1. N - i \in Nat /\ N = (i - 1) + 1 + (N - i)
    OBVIOUS
  <2>2. QED
    BY <1>1, <2>1
<1>3. N * n = q * n + n + d * n /\ d * n \in Nat /\ q * n \in Nat /\ n * q = q * n
  BY <1>2
<1>4. PICK p \in Nat : p = q * n + r
  BY <1>3
<1>5. p \div n = q /\ p % n = r
  <2>1. p = n * q + r
    BY <1>3, <1>4
  <2>2. QED
    BY <2>1, DivisionUnique
<1>6. (i - 1) * n + v - 1 = p /\ (i - 1) * n + v = p + 1
  BY <1>1, <1>3, <1>4
<1>7. p + 1 \in 1 .. N * n
  BY <1>1, <1>3, <1>4
<1>8. QED
  BY <1>1, <1>5, <1>6, <1>7 DEF IsItem

\* Points stay points.
LEMMA PointsOfKeys ==
  ASSUME NEW k \in Scalars, NEW P \in Points
  PROVE  /\ DerivePublic(k, P) \in Points /\ Agree(k, P) \in Points
         /\ Agree(k, P) # None /\ DerivePublic(k, P) # None
<1>1. DerivePublic(k, P) \in Points
  BY DEF DerivePublic, Points
<1>2. Agree(k, P) \in Points
  BY <1>1 DEF Agree, Points
<1>3. QED
  BY <1>1, <1>2, NoneAssumption DEF NoneAssumption

\* Whether os are n outputs, each with an ephemeral key or with bytes that
\* encode none
AreOutputs(os, n) ==
  /\ n \in Nat /\ Len(os) = n /\ DOMAIN os = 1 .. n
  /\ \A i \in 1 .. n : os[i].ephemeral_key \in Points \cup {None}

\* The key with which a viewing key would try an output on its own
KeyOf(ivk, o) ==
  IF o.ephemeral_key = None THEN None
  ELSE Kdf(Agree(ivk, o.ephemeral_key), o.ephemeral_key)

\* A batch tries each viewing key with the key of its own for each output,
\* whichever outputs have no ephemeral key.
LEMMA KeyOfItem ==
  ASSUME NEW os, NEW N, AreOutputs(os, N), NEW i \in 1 .. N, NEW v \in DOMAIN Ivks
  PROVE  BatchKeys(os)[(i - 1) * Len(Ivks) + v] = KeyOf(Ivks[v], os[i])
<1> DEFINE n == Len(Ivks)
           items == 1 .. N * n
           eks == [k \in items |-> BatchEpk(os)[((k - 1) \div n) + 1]]
           secrets == [k \in items |->
                         IF eks[k] = None THEN None
                         ELSE Agree(Ivks[((k - 1) % n) + 1], eks[k])]
           x == (i - 1) * n + v
<1>1. /\ n \in Nat \ {0} /\ v \in 1 .. n /\ N \in Nat /\ N * n \in Nat
      /\ Ivks[v] \in Scalars
  BY NoteAssumption DEF NoteAssumption, AreOutputs, Scalars
<1>2. BatchKeys(os) = BatchKdf(secrets, eks)
  BY DEF BatchKeys, AreOutputs
<1>3. x \in items /\ ((x - 1) \div n) + 1 = i /\ ((x - 1) % n) + 1 = v
  <2>1. IsItem(x, i, v, N, n)
    <3> HIDE DEF n
    <3>1. QED
      BY <1>1, ItemOf
  <2> HIDE DEF n, x
  <2>2. QED
    BY <2>1 DEF IsItem
<1>4. eks[x] = os[i].ephemeral_key
  <2>1. BatchEpk(os)[i] = os[i].ephemeral_key
    BY DEF BatchEpk, AreOutputs
  <2> HIDE DEF n, x
  <2>2. QED
    BY <1>3, <2>1
<1>5. secrets[x] = IF eks[x] = None THEN None ELSE Agree(Ivks[v], eks[x])
  <2> HIDE DEF n, x, eks
  <2>1. QED
    BY <1>3
<1>6. DOMAIN secrets = items
  OBVIOUS
<1> HIDE DEF n, x, secrets, eks
<1>7. BatchToAffine(secrets)[x] = secrets[x]
  BY <1>1, <1>3, <1>6, AffineKeepsPlaces
<1>8. BatchKdf(secrets, eks)[x]
        = IF BatchToAffine(secrets)[x] = None THEN None
          ELSE Kdf(BatchToAffine(secrets)[x], eks[x])
  BY <1>3, <1>6 DEF BatchKdf
<1>9. eks[x] # None => Agree(Ivks[v], eks[x]) # None
  BY <1>1, <1>4, PointsOfKeys DEF AreOutputs
<1>10. QED
  BY <1>2, <1>4, <1>5, <1>7, <1>8, <1>9 DEF KeyOf, n, x

\* A batch finds in each output what the viewing keys find first, one after the
\* other.
LEMMA BatchIsFirst ==
  ASSUME NEW enforcement, NEW os, NEW N, AreOutputs(os, N), NEW form, NEW i \in 1 .. N
  PROVE  BatchDecryption(enforcement, os, form)[i]
           = FirstHit(TrialsOf(enforcement, os[i], form))
<1> DEFINE KeysOf(k) == [v \in 1 .. Len(Ivks) |-> BatchKeys(os)[(k - 1) * Len(Ivks) + v]]
           trials == Trials(enforcement, os[i], KeysOf(i), form)
<1>1. BatchDecryption(enforcement, os, form)[i] = FirstHit(trials)
  BY DEF BatchDecryption, AreOutputs
<1>2. DOMAIN Ivks = 1 .. Len(Ivks)
  BY NoteAssumption DEF NoteAssumption
<1>3. ASSUME NEW v \in DOMAIN Ivks
      PROVE  trials[v] = TryNoteDecryption(enforcement, Ivks[v], os[i], form)
  <2>1. KeysOf(i)[v] = KeyOf(Ivks[v], os[i])
    BY <1>2, KeyOfItem
  <2>2. trials[v] = IF KeyOf(Ivks[v], os[i]) = None THEN None
                    ELSE DecryptWithKey(enforcement, Ivks[v], os[i],
                                        KeyOf(Ivks[v], os[i]), form)
    BY <2>1 DEF Trials
  <2>3. os[i].ephemeral_key # None => KeyOf(Ivks[v], os[i]) # None
    <3> SUFFICES ASSUME os[i].ephemeral_key # None
                 PROVE  KeyOf(Ivks[v], os[i]) # None
      OBVIOUS
    <3>1. os[i].ephemeral_key \in Points /\ Ivks[v] \in Scalars
      BY NoteAssumption DEF AreOutputs, NoteAssumption, Scalars
    <3>2. Agree(Ivks[v], os[i].ephemeral_key) \in Points
      BY <3>1, PointsOfKeys
    <3>3. KeyOf(Ivks[v], os[i]) \in [secret : Points, ek : Points]
      BY <3>1, <3>2 DEF KeyOf, Kdf
    <3>4. QED
      BY <3>3, NoneAssumption DEF NoneAssumption
  <2> HIDE DEF trials
  <2>4. QED
    BY <2>2, <2>3 DEF KeyOf, TryNoteDecryption
<1>4. trials = TrialsOf(enforcement, os[i], form)
  BY <1>3 DEF TrialsOf, Trials
<1>5. QED
  BY <1>1, <1>4

-----------------------------------------------------------------------------
(* The inductive invariant                                                  *)

\* A sequence is a sequence of its own elements.
LEMMA OwnElements ==
  ASSUME NEW S, NEW s \in Seq(S)
  PROVE  IsSequence(s)
<1>1. Len(s) \in Nat /\ DOMAIN s = 1 .. Len(s) /\ s = [k \in 1 .. Len(s) |-> s[k]]
  OBVIOUS
<1>2. s \in [1 .. Len(s) -> {s[k] : k \in DOMAIN s}]
  BY <1>1
<1>3. QED
  BY <1>1, <1>2, SeqDef DEF IsSequence

LEMMA SequenceFacts ==
  ASSUME NEW s, IsSequence(s)
  PROVE  Len(s) \in Nat /\ DOMAIN s = 1 .. Len(s)
BY DEF IsSequence

\* Appending keeps what is there.
LEMMA AppendKeeps ==
  ASSUME NEW s, NEW e, IsSequence(s)
  PROVE  /\ IsSequence(Append(s, e)) /\ Len(Append(s, e)) = Len(s) + 1
         /\ \A k \in DOMAIN s : Append(s, e)[k] = s[k]
        /\ Append(s, e)[Len(s) + 1] = e
<1> DEFINE S == {s[k] : k \in DOMAIN s} \cup {e}
<1>1. s \in Seq(S) /\ e \in S
  BY SeqMonotonic DEF IsSequence
<1> HIDE DEF S
<1>2. Append(s, e) \in Seq(S) /\ Len(Append(s, e)) = Len(s) + 1
      /\ \A k \in 1 .. Len(s) : Append(s, e)[k] = s[k]
      /\ Append(s, e)[Len(s) + 1] = e
  BY <1>1, AppendProperties
<1>3. DOMAIN s = 1 .. Len(s)
  BY <1>1
<1>4. IsSequence(Append(s, e))
  BY <1>2, OwnElements
<1>5. QED
  BY <1>2, <1>3, <1>4

\* A function on 1 .. n is a sequence of n elements.
LEMMA FunctionIsSequence ==
  ASSUME NEW n \in Nat, NEW f, DOMAIN f = 1 .. n, f = [k \in 1 .. n |-> f[k]]
  PROVE  IsSequence(f) /\ Len(f) = n
<1>1. f \in [1 .. n -> {f[k] : k \in 1 .. n}]
  OBVIOUS
<1>2. f \in Seq({f[k] : k \in 1 .. n})
  BY <1>1, SeqDef
<1>3. QED
  BY <1>2, OwnElements

\* Whatever a sender makes is a description.
LEMMA EncryptedIsDescription ==
  ASSUME NEW note, NEW k \in Keys, NEW d \in ValidDiversifiers,
         NEW v2 \in BOOLEAN, NEW seed \in Seeds,
         note = Address(k, d, [v2 |-> v2, seed |-> seed]),
         NEW esk \in Scalars, NEW ovk
  PROVE  IsDescription(Encrypt(note, esk, ovk))
<1>1. /\ note.diversifier = d /\ note.rseed.v2 = v2 /\ note.rseed.seed = seed
      /\ d \in Diversifiers
  BY NoteAssumption DEF NoteAssumption, Address
<1>2. Epk(note, esk) \in Points
  <2>1. GD(d) \in Points
    BY <1>1 DEF GD, Point, Points
  <2>2. QED
    BY <1>1, <2>1, PointsOfKeys DEF Epk
<1>3. NotePlaintext(note) \in Plaintexts
  BY <1>1 DEF NotePlaintext, Plaintexts
<1>4. QED
  BY <1>2, <1>3 DEF IsDescription, Encrypt

\* Every variant of a description is one.
LEMMA VariantIsDescription ==
  ASSUME NEW o, IsDescription(o), o.ephemeral_key # None,
         NEW note, NEW k \in Keys, NEW d \in ValidDiversifiers,
         NEW v2 \in BOOLEAN, NEW seed \in Seeds,
         note = Address(k, d, [v2 |-> v2, seed |-> seed]),
         NEW ovk, NEW x \in Variants(o, note, ovk)
  PROVE  IsDescription(x)
<1> DEFINE Desc(cm, e, ke, pl, int, ou) ==
             [cmu |-> cm, ephemeral_key |-> e,
              enc |-> [key |-> ke, plain |-> pl, intact |-> int], out |-> ou]
           cmu == o.cmu
           ek == o.ephemeral_key
           key == o.enc.key
           plain == o.enc.plain
           intact == o.enc.intact
           out == o.out
<1>1. ek \in Points /\ plain \in Plaintexts
  BY DEF IsDescription
<1>2. ASSUME NEW cm, NEW e \in Points \cup {None}, NEW ke, NEW pl \in Plaintexts,
             NEW int, NEW ou
      PROVE  IsDescription(Desc(cm, e, ke, pl, int, ou))
  BY DEF IsDescription
<1> DEFINE eks == OtherKeys(ek)
           notes == OtherNotes(note)
<1>3. eks \subseteq Points \cup {None}
  <2> HIDE DEF ek
  <2>1. [ek EXCEPT !.torsion = TRUE] \in Points
    BY <1>1 DEF Points
  <2>2. QED
    BY <2>1 DEF OtherKeys
<1>4. \A n \in notes : NotePlaintext(n) \in Plaintexts
  <2>1. ValidDiversifiers \subseteq Diversifiers
    BY NoteAssumption DEF NoteAssumption
  <2>2. QED
    BY <2>1 DEF OtherNotes, NotePlaintext, Plaintexts
<1>5. ASSUME NEW r \in Seeds
      PROVE  IsDescription(Encrypt(note, RandomEsk(r), ovk))
  <2>1. RandomEsk(r) \in Scalars
    BY DEF RandomEsk, Scalars
  <2>2. QED
    BY <2>1, EncryptedIsDescription
<1>6. \A l \in 0 .. 2 : [plain EXCEPT !.lead = l] \in Plaintexts
  <2> HIDE DEF plain
  <2>1. QED
    BY <1>1 DEF Plaintexts
<1>7. \A di \in Diversifiers : [plain EXCEPT !.diversifier = di] \in Plaintexts
  <2> HIDE DEF plain
  <2>1. QED
    BY <1>1 DEF Plaintexts
<1>8. \/ \E e \in eks : x = [o EXCEPT !.ephemeral_key = e]
      \/ \E e \in eks : x = [o EXCEPT !.ephemeral_key = e, !.enc.key.ek = e]
      \/ x = [o EXCEPT !.enc.intact = FALSE]
      \/ \E l \in 0 .. 2 : x = [o EXCEPT !.enc.plain.lead = l]
      \/ \E di \in Diversifiers : x = [o EXCEPT !.enc.plain.diversifier = di]
      \/ \E n \in notes : x = [o EXCEPT !.cmu = Cmu(n)]
      \/ \E n \in notes :
           x = [o EXCEPT !.cmu = Cmu(n), !.enc.plain = NotePlaintext(n),
                         !.out.key = PrfOck(ovk, Cmu(n), o.ephemeral_key)]
      \/ \E pk \in {None, Identity} : x = [o EXCEPT !.out.pk_d = pk]
      \/ x = [o EXCEPT !.out.esk = None]
      \/ \E r \in Seeds : x = Encrypt(note, RandomEsk(r), ovk)
  BY DEF Variants
<1>9. o = Desc(cmu, ek, key, plain, intact, out)
  BY DEF IsDescription
<1> HIDE DEF eks, notes, cmu, ek, key, plain, intact, out
<1>10. CASE \E e \in eks : x = [o EXCEPT !.ephemeral_key = e]
  <2>1. PICK e \in eks : x = Desc(cmu, e, key, plain, intact, out)
    BY <1>9, <1>10
  <2>2. QED
    BY <1>1, <1>2, <1>3, <2>1
<1>11. CASE \E e \in eks : x = [o EXCEPT !.ephemeral_key = e, !.enc.key.ek = e]
  <2>1. PICK e \in eks : x = Desc(cmu, e, [key EXCEPT !.ek = e], plain, intact, out)
    BY <1>9, <1>11
  <2>2. QED
    BY <1>1, <1>2, <1>3, <2>1
<1>12. CASE x = [o EXCEPT !.enc.intact = FALSE]
  <2>1. x = Desc(cmu, ek, key, plain, FALSE, out)
    BY <1>9, <1>12
  <2>2. QED
    BY <1>1, <1>2, <2>1
<1>13. CASE \E l \in 0 .. 2 : x = [o EXCEPT !.enc.plain.lead = l]
  <2>1. PICK l \in 0 .. 2 : x = Desc(cmu, ek, key, [plain EXCEPT !.lead = l], intact, out)
    BY <1>9, <1>13
  <2>2. QED
    BY <1>1, <1>2, <1>6, <2>1
<1>14. CASE \E di \in Diversifiers : x = [o EXCEPT !.enc.plain.diversifier = di]
  <2>1. PICK di \in Diversifiers :
          x = Desc(cmu, ek, key, [plain EXCEPT !.diversifier = di], intact, out)
    BY <1>9, <1>14
  <2>2. QED
    BY <1>1, <1>2, <1>7, <2>1
<1>15. CASE \E n \in notes : x = [o EXCEPT !.cmu = Cmu(n)]
  <2>1. PICK n \in notes : x = Desc(Cmu(n), ek, key, plain, intact, out)
    BY <1>9, <1>15
  <2>2. QED
    BY <1>1, <1>2, <2>1
<1>16. CASE \E n \in notes :
              x = [o EXCEPT !.cmu = Cmu(n), !.enc.plain = NotePlaintext(n),
                            !.out.key = PrfOck(ovk, Cmu(n), o.ephemeral_key)]
  <2>1. PICK n \in notes :
          x = [o EXCEPT !.cmu = Cmu(n), !.enc.plain = NotePlaintext(n),
                        !.out.key = PrfOck(ovk, Cmu(n), o.ephemeral_key)]
    BY <1>16
  <2> DEFINE cm == Cmu(n)
             pl == NotePlaintext(n)
             ou == PrfOck(ovk, Cmu(n), o.ephemeral_key)
  <2>2. pl \in Plaintexts
    BY <1>4
  <2>3. x = [o EXCEPT !.cmu = cm, !.enc.plain = pl, !.out.key = ou]
    BY <2>1
  <2> HIDE DEF cm, pl, ou
  <2>4. x = Desc(cm, ek, key, pl, intact, [out EXCEPT !.key = ou])
    BY <1>9, <2>3
  <2>5. QED
    BY <1>1, <1>2, <2>2, <2>4
<1>17. CASE \E pk \in {None, Identity} : x = [o EXCEPT !.out.pk_d = pk]
  <2>1. PICK pk : x = Desc(cmu, ek, key, plain, intact, [out EXCEPT !.pk_d = pk])
    BY <1>9, <1>17
  <2>2. QED
    BY <1>1, <1>2, <2>1
<1>18. CASE x = [o EXCEPT !.out.esk = None]
  <2>1. x = Desc(cmu, ek, key, plain, intact, [out EXCEPT !.esk = None])
    BY <1>9, <1>18
  <2>2. QED
    BY <1>1, <1>2, <2>1
<1>19. QED
  BY <1>5, <1>8, <1>10, <1>11, <1>12, <1>13, <1>14, <1>15, <1>16, <1>17, <1>18

\* The output of a sender that follows an enforcement
Sent(k, d, rseed, r, ovk) ==
  LET note == Address(k, d, rseed)
  IN [desc |-> Encrypt(note, GenerateOrDeriveEsk(note, r), ovk),
      note |-> note, ovk |-> ovk, altered |-> FALSE]

\* What a sender puts on the chain is sent.
LEMMA SendIsSent ==
  ASSUME NEW k \in Keys, NEW d \in ValidDiversifiers, NEW enforcement,
         NEW rseed \in Rseeds(enforcement), NEW r \in ScalarSeeds,
         NEW ovk \in Ovks \cup {None}
  PROVE  LET sent == Sent(k, d, rseed, r, ovk)
         IN IsSent(sent) /\ IsDescription(sent.desc)
<1> DEFINE note == Address(k, d, rseed)
           esk == GenerateOrDeriveEsk(note, r)
           sent == Sent(k, d, rseed, r, ovk)
<1>1. ScalarSeeds \subseteq Seeds
  BY NoteAssumption DEF NoteAssumption
<1>2. PICK v2 \in BOOLEAN : \E seed \in IF v2 THEN Seeds ELSE ScalarSeeds :
        rseed = [v2 |-> v2, seed |-> seed]
  <2>1. CASE enforcement = "Off"
    BY <2>1 DEF Rseeds
  <2>2. CASE enforcement # "Off"
    BY <2>2 DEF Rseeds
  <2>3. QED
    BY <2>1, <2>2
<1>3. PICK seed \in IF v2 THEN Seeds ELSE ScalarSeeds : rseed = [v2 |-> v2, seed |-> seed]
  BY <1>2
<1>4. seed \in Seeds
  BY <1>1, <1>3
<1>5. esk \in Scalars
  <2>1. note.rseed.v2 = v2 /\ note.rseed.seed = seed
    BY <1>3 DEF Address
  <2> HIDE DEF note
  <2>2. DeriveEsk(note) \in Scalars \cup {None} /\ RandomEsk(r) \in Scalars
    BY <1>1, <1>4, <2>1 DEF DeriveEsk, RandomEsk, Scalars
  <2>3. QED
    BY <2>2 DEF GenerateOrDeriveEsk
<1>6. IsDescription(Encrypt(note, esk, ovk))
  <2> HIDE DEF esk
  <2>1. QED
    BY <1>3, <1>4, <1>5, EncryptedIsDescription
<1>7. sent = [desc |-> Encrypt(note, esk, ovk), note |-> note, ovk |-> ovk,
              altered |-> FALSE]
  BY DEF Sent
<1>8. \E key \in Keys, div \in ValidDiversifiers, v \in BOOLEAN :
        \E s \in IF v THEN Seeds ELSE ScalarSeeds :
          note = Address(key, div, [v2 |-> v, seed |-> s])
  BY <1>2
<1> HIDE DEF note, sent
<1>9. DOMAIN sent = {"desc", "note", "ovk", "altered"} /\ sent.note = note
      /\ sent.ovk = ovk /\ sent.desc = Encrypt(note, esk, ovk)
  BY <1>7
<1>10. IsSent(sent)
  BY <1>8, <1>9 DEF IsSent
<1>11. QED
  BY <1>6, <1>9, <1>10 DEF sent

\* An output that was altered is still one that a sender made.
LEMMA AlteredIsSent ==
  ASSUME NEW sent, IsSent(sent), IsDescription(sent.desc), sent.desc.ephemeral_key # None,
         NEW o \in Variants(sent.desc, sent.note, sent.ovk),
         NEW altered, altered = [sent EXCEPT !.desc = o, !.altered = TRUE]
  PROVE  IsSent(altered) /\ IsDescription(altered.desc)
<1>1. DOMAIN sent = {"desc", "note", "ovk", "altered"}
  BY DEF IsSent
<1>2. /\ DOMAIN altered = {"desc", "note", "ovk", "altered"}
      /\ altered.desc = o /\ altered.note = sent.note /\ altered.ovk = sent.ovk
      /\ altered.altered = TRUE
  BY <1>1
<1>3. IsSent(altered)
  BY <1>2 DEF IsSent
<1>4. PICK k \in Keys, d \in ValidDiversifiers, v2 \in BOOLEAN :
        \E seed \in IF v2 THEN Seeds ELSE ScalarSeeds :
          sent.note = Address(k, d, [v2 |-> v2, seed |-> seed])
  BY DEF IsSent
<1>5. PICK seed \in IF v2 THEN Seeds ELSE ScalarSeeds :
        sent.note = Address(k, d, [v2 |-> v2, seed |-> seed])
  BY <1>4
<1>6. seed \in Seeds
  BY <1>5, NoteAssumption DEF NoteAssumption
<1>7. IsDescription(o)
  BY <1>5, <1>6, VariantIsDescription
<1>8. QED
  BY <1>2, <1>3, <1>7

\* An empty chain satisfies the inductive invariant.
LEMMA InitInvariant == Init => IInv
<1> SUFFICES ASSUME Init PROVE IInv
  OBVIOUS
<1>1. <<>> \in Seq({}) /\ Len(<<>>) = 0 /\ DOMAIN <<>> = {}
  OBVIOUS
<1>2. IsSequence(<<>>)
  BY <1>1, OwnElements
<1>3. QED
  BY <1>1, <1>2 DEF Init, IInv, TypeOK, FoundIsSpendable, OutputsAreSent, FoundIsFirst

\* A step that keeps what was found, and the outputs it was found in, keeps
\* the invariant.
LEMMA KeptInvariant ==
  ASSUME IInv, TypeOK', OutputsAreSent', UNCHANGED <<compact, found>>,
         \A i \in DOMAIN found : outputs'[i].desc = outputs[i].desc
  PROVE  IInv'
<1>1. FoundIsSpendable'
  BY DEF IInv, FoundIsSpendable
<1>2. FoundIsFirst'
  BY DEF IInv, FoundIsFirst
<1>3. QED
  BY <1>1, <1>2 DEF IInv

\* Scanning finds what the viewing keys find first, keeps the earlier hits,
\* and whatever it finds is spendable.
LEMMA ScanInvariant == IInv /\ Scan => IInv'
<1> SUFFICES ASSUME IInv, Scan PROVE IInv'
  OBVIOUS
<1> DEFINE n == Len(outputs) - Len(found)
           new == [i \in 1 .. n |-> outputs[Len(found) + i].desc]
           hits == BatchDecryption(zip212, new, compact)
<1>1. /\ Len(outputs) \in Nat /\ DOMAIN outputs = 1 .. Len(outputs)
      /\ Len(found) \in Nat /\ DOMAIN found = 1 .. Len(found)
  BY SequenceFacts DEF IInv, TypeOK
<1>2. /\ Len(found) < Len(outputs)
      /\ found' = [i \in 1 .. Len(outputs) |->
           IF i \in DOMAIN found THEN found[i]
           ELSE [zip212 |-> zip212, hit |-> hits[i - Len(found)]]]
      /\ UNCHANGED <<zip212, compact, outputs, alterations>>
  BY DEF Scan
<1>3. n \in Nat /\ \A j \in 1 .. n : Len(found) + j \in DOMAIN outputs
  BY <1>1, <1>2
<1>4. AreOutputs(new, n)
  <2>1. \A j \in 1 .. n : new[j].ephemeral_key \in Points \cup {None}
    <3>1. \A k \in DOMAIN outputs : IsDescription(outputs[k].desc)
      BY DEF IInv, OutputsAreSent
    <3>2. \A o : IsDescription(o) => o.ephemeral_key \in Points \cup {None}
      BY DEF IsDescription
    <3>3. QED
      BY <1>3, <3>1, <3>2
  <2>2. DOMAIN new = 1 .. n
    OBVIOUS
  <2>3. new = [j \in 1 .. n |-> new[j]]
    OBVIOUS
  <2> HIDE DEF n, new
  <2>4. Len(new) = n
    BY <1>3, <2>2, <2>3, FunctionIsSequence
  <2>5. QED
    BY <1>3, <2>1, <2>2, <2>4 DEF AreOutputs
<1> HIDE DEF hits
<1>5. IsSequence(found') /\ Len(found') = Len(outputs) /\ DOMAIN found' = 1 .. Len(outputs)
  BY <1>1, <1>2, FunctionIsSequence
<1>6. TypeOK'
  BY <1>1, <1>2, <1>5 DEF IInv, TypeOK
<1>7. ASSUME NEW i \in 1 .. Len(outputs), i \notin DOMAIN found
      PROVE  /\ found'[i].zip212 = zip212
             /\ found'[i].hit # None => Spendable(found'[i].hit, outputs[i].desc, zip212)
             /\ found'[i].hit = FirstHit(TrialsOf(zip212, outputs[i].desc, compact))
  <2> DEFINE j == i - Len(found)
  <2>1. j \in 1 .. n /\ Len(found) + j = i
    BY <1>1, <1>2, <1>7
  <2>2. new[j] = outputs[i].desc
    BY <2>1
  <2>3. DOMAIN new = 1 .. n
    OBVIOUS
  <2>4. found'[i] = [zip212 |-> zip212, hit |-> hits[j]]
    BY <1>2, <1>7
  <2> HIDE DEF j, n, new
  <2>5. hits[j] # None => Spendable(hits[j], new[j], zip212)
    BY <2>1, <2>3, BatchIsSound DEF hits
  <2>6. hits[j] = FirstHit(TrialsOf(zip212, new[j], compact))
    BY <1>3, <1>4, <2>1, BatchIsFirst DEF hits
  <2>7. QED
    BY <2>2, <2>4, <2>5, <2>6
<1>8. \A i \in DOMAIN found : found'[i] = found[i]
  BY <1>1, <1>2
<1>9. FoundIsSpendable'
  BY <1>1, <1>2, <1>5, <1>7, <1>8 DEF IInv, FoundIsSpendable
<1>10. FoundIsFirst'
  BY <1>1, <1>2, <1>5, <1>7, <1>8 DEF IInv, FoundIsFirst
<1>11. OutputsAreSent'
  BY <1>2 DEF IInv, OutputsAreSent
<1>12. QED
  BY <1>6, <1>9, <1>10, <1>11 DEF IInv

\* Every step keeps the inductive invariant.
LEMMA NextInvariant == IInv /\ [Next]_vars => IInv'
<1> SUFFICES ASSUME IInv, [Next]_vars PROVE IInv'
  OBVIOUS
<1>1. /\ IsSequence(outputs) /\ Len(outputs) \in Nat /\ DOMAIN outputs = 1 .. Len(outputs)
      /\ IsSequence(found) /\ Len(found) \in Nat /\ DOMAIN found = 1 .. Len(found)
      /\ Len(found) <= Len(outputs)
  BY SequenceFacts DEF IInv, TypeOK
<1>2. ASSUME NEW k \in Keys, NEW d \in ValidDiversifiers, NEW rseed \in Rseeds(zip212),
             NEW r \in ScalarSeeds, NEW ovk \in Ovks \cup {None},
             Send(k, d, rseed, r, ovk)
      PROVE  IInv'
  <2> DEFINE e == Sent(k, d, rseed, r, ovk)
  <2>1. outputs' = Append(outputs, e) /\ UNCHANGED <<zip212, compact, found, alterations>>
    BY <1>2 DEF Send, Sent
  <2>2. IsSent(e) /\ IsDescription(e.desc)
    BY SendIsSent
  <2> HIDE DEF e
  <2>3. /\ IsSequence(outputs') /\ Len(outputs') = Len(outputs) + 1
        /\ \A i \in DOMAIN outputs : outputs'[i] = outputs[i]
        /\ outputs'[Len(outputs) + 1] = e
    BY <1>1, <2>1, AppendKeeps
  <2>4. TypeOK'
    BY <1>1, <2>1, <2>3 DEF IInv, TypeOK
  <2>5. \A i \in DOMAIN outputs' : i \in DOMAIN outputs \/ i = Len(outputs) + 1
    <3>1. DOMAIN outputs' = 1 .. Len(outputs) + 1
      BY <2>3, SequenceFacts
    <3>2. QED
      BY <1>1, <3>1
  <2>6. OutputsAreSent'
    BY <2>2, <2>3, <2>5 DEF IInv, OutputsAreSent
  <2>7. \A i \in DOMAIN found : outputs'[i].desc = outputs[i].desc
    BY <1>1, <2>3
  <2>8. QED
    BY <2>1, <2>4, <2>6, <2>7, KeptInvariant
<1>3. CASE Advance
  <2>1. zip212' \in {"Off", "GracePeriod", "On"} /\ UNCHANGED <<compact, outputs, found, alterations>>
    BY <1>3 DEF Advance
  <2>2. TypeOK'
    BY <2>1 DEF IInv, TypeOK
  <2>3. OutputsAreSent'
    BY <2>1 DEF IInv, OutputsAreSent
  <2>4. QED
    BY <2>1, <2>2, <2>3, KeptInvariant
<1>4. CASE Alter
  <2> DEFINE L == Len(outputs)
  <2>1. PICK o \in Variants(outputs[L].desc, outputs[L].note, outputs[L].ovk) :
          outputs' = [outputs EXCEPT ![L].desc = o, ![L].altered = TRUE]
    BY <1>4 DEF Alter
  <2>2. /\ Len(found) < L /\ outputs[L].desc.ephemeral_key # None
        /\ UNCHANGED <<zip212, compact, found>> /\ alterations' = alterations + 1
    BY <1>4 DEF Alter
  <2>3. L \in DOMAIN outputs
    BY <1>1, <2>2
  <2>4. /\ DOMAIN outputs' = 1 .. L /\ outputs' = [i \in 1 .. L |-> outputs'[i]]
        /\ \A i \in DOMAIN outputs : i # L => outputs'[i] = outputs[i]
        /\ outputs'[L] = [outputs[L] EXCEPT !.desc = o, !.altered = TRUE]
    BY <1>1, <2>1, <2>3
  <2>5. \A i \in DOMAIN found : outputs'[i].desc = outputs[i].desc
    BY <1>1, <2>2, <2>4
  <2>6. IsSequence(outputs') /\ Len(outputs') = L
    <3> HIDE DEF L
    <3>1. L \in Nat
      BY <1>1 DEF L
    <3>2. QED
      BY <2>4, <3>1, FunctionIsSequence
  <2>7. TypeOK'
    BY <1>1, <2>2, <2>6 DEF IInv, TypeOK
  <2>8. IsSent(outputs'[L]) /\ IsDescription(outputs'[L].desc)
    <3>1. IsSent(outputs[L]) /\ IsDescription(outputs[L].desc)
      BY <2>3 DEF IInv, OutputsAreSent
    <3>2. PICK sent : sent = outputs[L]
      OBVIOUS
    <3>3. IsSent(sent) /\ IsDescription(sent.desc) /\ sent.desc.ephemeral_key # None
      BY <2>2, <3>1, <3>2
    <3>4. o \in Variants(sent.desc, sent.note, sent.ovk)
      BY <3>2
    <3>5. outputs'[L] = [sent EXCEPT !.desc = o, !.altered = TRUE]
      BY <2>4, <3>2
    <3>6. QED
      BY <3>3, <3>4, <3>5, AlteredIsSent
  <2>9. OutputsAreSent'
    <3>1. ASSUME NEW i \in DOMAIN outputs'
          PROVE  IsSent(outputs'[i]) /\ IsDescription(outputs'[i].desc)
      <4>1. i \in DOMAIN outputs
        BY <1>1, <2>4
      <4>2. CASE i = L
        BY <2>8, <4>2
      <4>3. CASE i # L
        BY <2>4, <4>1, <4>3 DEF IInv, OutputsAreSent
      <4>4. QED
        BY <4>2, <4>3
    <3>2. QED
      BY <3>1 DEF OutputsAreSent
  <2>10. QED
    BY <2>2, <2>5, <2>7, <2>9, KeptInvariant
<1>5. CASE Scan
  BY <1>5, ScanInvariant
<1>6. CASE UNCHANGED vars
  <2>1. TypeOK' /\ OutputsAreSent'
    BY <1>6 DEF IInv, TypeOK, OutputsAreSent, vars
  <2>2. QED
    BY <1>6, <2>1, KeptInvariant DEF vars
<1>7. QED
  BY <1>2, <1>3, <1>4, <1>5, <1>6 DEF Next

\* Whatever the outputs of a chain hold, a wallet that scans them in batches
\* finds only notes it can spend: at an address of the viewing key that found
\* them, committed to by the output, and of a version allowed at that time.
\* They are those that its viewing keys find first, one after the other.
THEOREM NotesInvariant == Spec => []IInv
BY InitInvariant, NextInvariant, PTL DEF Spec

-----------------------------------------------------------------------------
(* Every way to read an output                                              *)

\* The first hit is none if no trial succeeded, and the least that did.
LEMMA FirstHitFacts ==
  ASSUME NEW trials, DOMAIN trials \subseteq Nat,
         \A v \in DOMAIN trials : trials[v] \in Notes \cup {None}
  PROVE  LET hit == FirstHit(trials)
             hits == {v \in DOMAIN trials : trials[v] # None}
         IN /\ hits = {} => hit = None
            /\ hits # {} => /\ hit # None
                            /\ hit.viewer \in hits /\ \A v \in hits : hit.viewer <= v
                            /\ hit.note = trials[hit.viewer]
<1> DEFINE hits == {v \in DOMAIN trials : trials[v] # None}
           first == CHOOSE v \in hits : \A w \in hits : v <= w
           hit == FirstHit(trials)
<1>1. hits = {} => hit = None
  BY DEF FirstHit
<1>2. ASSUME hits # {}
      PROVE  /\ hit # None
             /\ hit.viewer \in hits /\ \A v \in hits : hit.viewer <= v
             /\ hit.note = trials[hit.viewer]
  <2>1. \E v \in hits : \A w \in hits : v <= w
    BY <1>2, LeastExists
  <2>2. first \in hits /\ \A w \in hits : first <= w
    BY <2>1
  <2>3. hit = [viewer |-> first, note |-> trials[first]]
    BY <1>2 DEF FirstHit
  <2>4. first \in Nat /\ trials[first] \in Notes
    BY <2>2
  <2> HIDE DEF hit, first, hits
  <2>5. hit \in [viewer : Nat, note : Notes]
    BY <2>3, <2>4
  <2>6. hit.viewer = first /\ hit.note = trials[first]
    BY <2>3
  <2>7. hit # None
    BY <2>5, NoneAssumption DEF NoneAssumption
  <2>8. QED
    BY <2>2, <2>6, <2>7
<1>3. QED
  BY <1>1, <1>2

\* What a viewing key reads in a description is a note, or nothing.
LEMMA ParsedIsNote ==
  ASSUME NEW enforcement, NEW ivk \in Keys, NEW plain \in Plaintexts
  PROVE  ParseIvk(enforcement, ivk, plain) \in Notes \cup {None}
<1> DEFINE d == plain.diversifier
           pk_d == TransmissionKeyOf(ivk, d)
<1>1. d \in Diversifiers /\ plain.seed \in Seeds \cup {None}
  BY DEF Plaintexts
<1>2. pk_d \in Points \cup {None}
  <2>1. CASE GD(d) = None
    BY <2>1 DEF TransmissionKeyOf
  <2>2. CASE GD(d) # None
    <3>1. GD(d) \in Points
      BY <1>1, <2>2 DEF GD, Point, Points
    <3>2. DerivePublic(ivk, GD(d)) \in Points
      BY <3>1, PointsOfKeys DEF Scalars
    <3>3. QED
      BY <2>2, <3>2 DEF TransmissionKeyOf
  <2>3. QED
    BY <2>1, <2>2
<1> HIDE DEF d, pk_d
<1>3. ParseNotePlaintext(enforcement, plain, pk_d) \in Notes \cup {None}
  BY <1>1, <1>2 DEF ParseNotePlaintext, Notes, d
<1>4. QED
  BY <1>3 DEF ParseIvk, pk_d, d

LEMMA TrialIsNote ==
  ASSUME NEW enforcement, NEW v \in DOMAIN Ivks, NEW o, IsDescription(o), NEW form
  PROVE  TryNoteDecryption(enforcement, Ivks[v], o, form) \in Notes \cup {None}
<1>1. Ivks[v] \in Keys
  BY NoteAssumption DEF NoteAssumption
<1>2. o.enc.plain \in Plaintexts
  BY DEF IsDescription
<1>3. Noise \in Plaintexts
  BY <1>2 DEF Noise, Plaintexts
<1>4. ASSUME NEW key
      PROVE  DecryptWithKey(enforcement, Ivks[v], o, key, form) \in Notes \cup {None}
  <2> DEFINE plain == IF form THEN CompactPlaintext(o.enc, key) ELSE FullPlaintext(o.enc, key)
             note == IF plain = None THEN None ELSE ParseIvk(enforcement, Ivks[v], plain)
  <2>1. plain \in Plaintexts \cup {None}
    BY <1>2, <1>3 DEF CompactPlaintext, FullPlaintext
  <2>2. DecryptWithKey(enforcement, Ivks[v], o, key, form) \in {note, None}
    BY DEF DecryptWithKey
  <2> HIDE DEF plain
  <2>3. note \in Notes \cup {None}
    BY <1>1, <2>1, ParsedIsNote
  <2>4. QED
    BY <2>2, <2>3
<1>5. QED
  BY <1>4 DEF TryNoteDecryption

\* A full ciphertext holds nothing that its compact form does not.
LEMMA FullIsCompact ==
  ASSUME NEW enforcement, NEW ivk, NEW o
  PROVE  TryNoteDecryption(enforcement, ivk, o, FALSE)
           \in {None, TryNoteDecryption(enforcement, ivk, o, TRUE)}
<1>1. ASSUME NEW key
      PROVE  DecryptWithKey(enforcement, ivk, o, key, FALSE)
               \in {None, DecryptWithKey(enforcement, ivk, o, key, TRUE)}
  <2>1. FullPlaintext(o.enc, key) \in {None, CompactPlaintext(o.enc, key)}
    BY DEF FullPlaintext, CompactPlaintext
  <2>2. QED
    BY <2>1 DEF DecryptWithKey
<1>2. QED
  BY <1>1 DEF TryNoteDecryption

\* Whether n has the fields of a note
IsNote(n) ==
  n = [diversifier |-> n.diversifier, pk_d |-> n.pk_d,
       rseed |-> [v2 |-> n.rseed.v2, seed |-> n.rseed.seed]]

\* A note commitment commits to one note.
LEMMA CommitmentBinds ==
  ASSUME NEW a, NEW b, IsNote(a), IsNote(b), Cmu(a) = Cmu(b)
  PROVE  a = b
<1>1. a.diversifier = b.diversifier /\ a.pk_d = b.pk_d /\ Rcm(a.rseed) = Rcm(b.rseed)
  BY DEF Cmu
<1>2. a.rseed.v2 = b.rseed.v2 /\ a.rseed.seed = b.rseed.seed
  BY <1>1 DEF Rcm
<1>3. QED
  BY <1>1, <1>2 DEF IsNote

\* What a sender recovers is the note that the output commits to.
LEMMA RecoveredNote ==
  ASSUME NEW enforcement, NEW ovk, NEW o, TryOutputRecovery(enforcement, ovk, o) # None
  PROVE  LET note == TryOutputRecovery(enforcement, ovk, o)
         IN IsNote(note) /\ Cmu(note) = o.cmu
<1> DEFINE plain == FullPlaintext(o.enc, Kdf(Agree(o.out.esk, o.out.pk_d), o.ephemeral_key))
           note == ParseOvk(enforcement, o.out.pk_d, plain)
<1>1. TryOutputRecovery(enforcement, ovk, o) = ReadBySender(enforcement, o, plain)
  BY DEF TryOutputRecovery
<1>2. /\ TryOutputRecovery(enforcement, ovk, o) = note /\ note # None
      /\ CheckNoteValidity(note, o.ephemeral_key, o.cmu)
  <2> HIDE DEF plain
  <2>1. QED
    BY <1>1 DEF ReadBySender
<1>3. IsNote(note)
  <2>1. ASSUME NEW pk_d, ParseNotePlaintext(enforcement, plain, pk_d) # None
        PROVE  IsNote(ParseNotePlaintext(enforcement, plain, pk_d))
    <3> HIDE DEF plain
    <3>1. QED
      BY <2>1 DEF ParseNotePlaintext, IsNote
  <2> HIDE DEF plain
  <2>2. QED
    BY <1>2, <2>1 DEF ParseOvk
<1> HIDE DEF note
<1>4. QED
  BY <1>2, <1>3 DEF CheckNoteValidity

\* Whether the routes agree for one output
Agreement(enforcement, o, form, hit) ==
  LET viewers == {v \in DOMAIN Ivks : TryNoteDecryption(enforcement, Ivks[v], o, form) # None}
  IN /\ viewers = {} => hit = None
     /\ viewers # {} =>
          /\ hit # None
          /\ hit.viewer \in viewers /\ \A v \in viewers : hit.viewer <= v
          /\ hit.note = TryNoteDecryption(enforcement, Ivks[hit.viewer], o, form)
     /\ hit # None =>
          \A ovk \in Ovks : TryOutputRecovery(enforcement, ovk, o) \in {None, hit.note}

LEMMA RoutesOfOutput ==
  ASSUME NEW enforcement, NEW o, IsDescription(o), NEW form \in BOOLEAN, NEW hit,
         hit = FirstHit(TrialsOf(enforcement, o, form)),
         hit # None => Spendable(hit, o, enforcement)
  PROVE  Agreement(enforcement, o, form, hit)
<1> DEFINE trials == TrialsOf(enforcement, o, form)
           hits == {v \in DOMAIN trials : trials[v] # None}
           viewers == {v \in DOMAIN Ivks :
                         TryNoteDecryption(enforcement, Ivks[v], o, form) # None}
<1>1. /\ DOMAIN trials = DOMAIN Ivks
      /\ \A v \in DOMAIN Ivks : trials[v] = TryNoteDecryption(enforcement, Ivks[v], o, form)
  BY DEF TrialsOf
<1> HIDE DEF trials
<1>2. DOMAIN Ivks \subseteq Nat
  BY NoteAssumption DEF NoteAssumption
<1>3. \A v \in DOMAIN trials : trials[v] \in Notes \cup {None}
  BY <1>1, TrialIsNote
<1>4. hits = viewers
  BY <1>1
<1>5. /\ hits = {} => hit = None
      /\ hits # {} => /\ hit # None
                      /\ hit.viewer \in hits /\ \A v \in hits : hit.viewer <= v
                      /\ hit.note = trials[hit.viewer]
  BY <1>1, <1>2, <1>3, FirstHitFacts DEF trials
<1>6. hit # None => hit.note \in Notes
  BY <1>1, <1>3, <1>5
<1>7. ASSUME NEW ovk \in Ovks, hit # None, TryOutputRecovery(enforcement, ovk, o) # None
      PROVE  TryOutputRecovery(enforcement, ovk, o) = hit.note
  <2>1. IsNote(hit.note)
    BY <1>6, <1>7 DEF IsNote, Notes
  <2>2. Cmu(hit.note) = o.cmu
    BY <1>7 DEF Spendable
  <2>3. QED
    BY <1>7, <2>1, <2>2, RecoveredNote, CommitmentBinds
<1> HIDE DEF hits
<1>8. viewers # {} => hit.note = TryNoteDecryption(enforcement, Ivks[hit.viewer], o, form)
  BY <1>1, <1>4, <1>5
<1> HIDE DEF viewers
<1>9. QED
  BY <1>4, <1>5, <1>7, <1>8 DEF viewers, Agreement

\* A batch finds what the first successful trial of a viewing key would, a full
\* ciphertext holds nothing that its compact form does not, and a sender
\* recovers no other note than the recipient's.
THEOREM RoutesGiveTheSame == Spec => []RoutesAgree
<1>1. IInv => RoutesAgree
  <2> SUFFICES ASSUME IInv PROVE RoutesAgree
    OBVIOUS
  <2> USE DEF RoutesAgree
  <2> TAKE i \in DOMAIN found
  <2> DEFINE z == found[i].zip212
             o == outputs[i].desc
             hit == found[i].hit
  <2>1. IsSequence(outputs) /\ IsSequence(found) /\ Len(found) <= Len(outputs)
        /\ compact \in BOOLEAN
    BY DEF IInv, TypeOK
  <2>2. IsDescription(o)
    <3>1. i \in DOMAIN outputs
      BY <2>1, SequenceFacts
    <3>2. QED
      BY <3>1 DEF IInv, OutputsAreSent
  <2>3. hit = FirstHit(TrialsOf(z, o, compact)) /\ (hit # None => Spendable(hit, o, z))
    BY DEF IInv, FoundIsFirst, FoundIsSpendable
  <2> HIDE DEF z, o, hit
  <2>4. Agreement(z, o, compact, hit)
    BY <2>1, <2>2, <2>3, RoutesOfOutput
  <2>5. \A v \in DOMAIN Ivks :
          TryNoteDecryption(z, Ivks[v], o, FALSE)
            \in {None, TryNoteDecryption(z, Ivks[v], o, TRUE)}
    BY FullIsCompact
  <2>6. QED
    BY <2>4, <2>5 DEF z, o, hit, Agreement
<1>2. QED
  BY <1>1, NotesInvariant, PTL

-----------------------------------------------------------------------------
(* Honest outputs                                                           *)

\* The base point of d multiplied by the scalars of S
Multiple(d, S) == [base |-> d, by |-> S, torsion |-> FALSE]

\* Multiples of a diversified base are never the identity, so that every scalar
\* counts.
LEMMA MultipleFacts ==
  ASSUME NEW d \in ValidDiversifiers, NEW S \in SUBSET Scalars, NEW k \in Scalars
  PROVE  /\ GD(d) = Multiple(d, {}) /\ Point(d) = Multiple(d, {})
         /\ Multiple(d, S) \in Points /\ Multiple(d, S) \notin {None, Identity}
         /\ DerivePublic(k, Multiple(d, S)) = Multiple(d, S \cup {k})
         /\ Agree(k, Multiple(d, S)) = Multiple(d, S \cup {k})
<1>1. d \in Diversifiers /\ d # None
  BY NoteAssumption DEF NoteAssumption
<1>2. GD(d) = Multiple(d, {}) /\ Point(d) = Multiple(d, {})
  BY DEF GD, Point, Multiple
<1>3. Multiple(d, S) \in Points
  BY <1>1 DEF Multiple, Points
<1>4. Multiple(d, S) # None
  BY <1>3, NoneAssumption DEF NoneAssumption
<1>5. Multiple(d, S) # Identity
  <2>1. Multiple(d, S).base = d /\ Identity.base = None
    BY DEF Multiple, Identity, Point
  <2>2. QED
    BY <1>1, <2>1
<1>6. DerivePublic(k, Multiple(d, S)) = Multiple(d, S \cup {k})
  BY <1>5 DEF DerivePublic, Multiple
<1>7. Agree(k, Multiple(d, S)) = Multiple(d, S \cup {k})
  <2>1. Agree(k, Multiple(d, S)) = [Multiple(d, S \cup {k}) EXCEPT !.torsion = FALSE]
    BY <1>6 DEF Agree
  <2>2. QED
    BY <2>1 DEF Multiple
<1>8. QED
  BY <1>2, <1>3, <1>4, <1>5, <1>6, <1>7

\* Whether a sender made o for a note to key k's address for d, with the
\* ephemeral secret key esk
IsHonest(o, note, k, d, v2, seed, esk, ovk) ==
  /\ k \in Keys /\ d \in ValidDiversifiers /\ v2 \in BOOLEAN
  /\ seed \in Seeds /\ (~v2 => seed \in ScalarSeeds)
  /\ note = [diversifier |-> d, pk_d |-> Multiple(d, {k}),
             rseed |-> [v2 |-> v2, seed |-> seed]]
  /\ esk \in Scalars /\ DeriveEsk(note) \in {None, esk}
  /\ v2 => DeriveEsk(note) = esk
  /\ ovk \in Ovks \cup {None}
  /\ o = Encrypt(note, esk, ovk)

\* The fields of an honest output
HonestFields(o, note, k, d, v2, seed, esk, ovk) ==
  /\ note.diversifier = d /\ note.pk_d = Multiple(d, {k})
  /\ note.rseed = [v2 |-> v2, seed |-> seed]
  /\ note \in Notes /\ note # None
  /\ TransmissionKeyOf(k, d) = note.pk_d /\ note.pk_d \notin {None, Identity}
  /\ GD(d) # None
  /\ o.cmu = Cmu(note) /\ o.ephemeral_key = Multiple(d, {esk})
  /\ o.ephemeral_key \in Points /\ o.ephemeral_key # None
  /\ o.enc.key = Kdf(Multiple(d, {k, esk}), o.ephemeral_key)
  /\ o.enc.plain = NotePlaintext(note) /\ o.enc.intact = TRUE
  /\ NotePlaintext(note) \in Plaintexts /\ NotePlaintext(note) # None
  /\ o.out.key = IF ovk = None THEN None ELSE PrfOck(ovk, o.cmu, o.ephemeral_key)
  /\ o.out.pk_d = note.pk_d /\ o.out.esk = esk
  /\ Epk(note, esk) = o.ephemeral_key

LEMMA HonestFacts ==
  ASSUME NEW o, NEW note, NEW k, NEW d, NEW v2, NEW seed, NEW esk, NEW ovk,
         IsHonest(o, note, k, d, v2, seed, esk, ovk)
  PROVE  HonestFields(o, note, k, d, v2, seed, esk, ovk)
<1> USE DEF IsHonest
<1>1. k \in Scalars /\ d \in Diversifiers
  BY NoteAssumption DEF NoteAssumption, Scalars
<1>2. /\ note.diversifier = d /\ note.pk_d = Multiple(d, {k})
      /\ note.rseed = [v2 |-> v2, seed |-> seed]
      /\ note.rseed.v2 = v2 /\ note.rseed.seed = seed
  OBVIOUS
<1>3. /\ GD(d) = Multiple(d, {}) /\ GD(d) # None
      /\ DerivePublic(k, GD(d)) = Multiple(d, {k})
      /\ DerivePublic(esk, GD(d)) = Multiple(d, {esk})
  <2>1. {} \in SUBSET Scalars /\ {} \cup {k} = {k} /\ {} \cup {esk} = {esk}
    OBVIOUS
  <2>2. QED
    BY <1>1, <2>1, MultipleFacts
<1>4. /\ Multiple(d, {k}) \in Points /\ Multiple(d, {k}) \notin {None, Identity}
      /\ Multiple(d, {esk}) \in Points /\ Multiple(d, {esk}) # None
      /\ Agree(esk, Multiple(d, {k})) = Multiple(d, {k, esk})
  <2>1. {k} \in SUBSET Scalars /\ {esk} \in SUBSET Scalars /\ {k} \cup {esk} = {k, esk}
    BY <1>1
  <2>2. QED
    BY <1>1, <2>1, MultipleFacts
<1>5. TransmissionKeyOf(k, d) = note.pk_d
  BY <1>2, <1>3 DEF TransmissionKeyOf
<1>6. note \in Notes
  BY <1>1, <1>4 DEF Notes
<1>7. NotePlaintext(note) \in Plaintexts
  <2> HIDE DEF IsHonest
  <2>1. v2 \in BOOLEAN /\ seed \in Seeds
    BY DEF IsHonest
  <2>2. QED
    BY <1>1, <1>2, <2>1 DEF NotePlaintext, Plaintexts
<1>8. note # None /\ NotePlaintext(note) # None
  BY <1>6, <1>7, NoneAssumption DEF NoneAssumption
<1>9. Epk(note, esk) = Multiple(d, {esk})
  BY <1>2, <1>3 DEF Epk
<1>10. /\ o.cmu = Cmu(note) /\ o.ephemeral_key = Epk(note, esk)
       /\ o.enc.key = Kdf(Agree(esk, note.pk_d), Epk(note, esk))
       /\ o.enc.plain = NotePlaintext(note) /\ o.enc.intact = TRUE
       /\ o.out.key = IF ovk = None THEN None ELSE PrfOck(ovk, Cmu(note), Epk(note, esk))
       /\ o.out.pk_d = note.pk_d /\ o.out.esk = esk
  <2>1. o = Encrypt(note, esk, ovk)
    OBVIOUS
  <2> HIDE DEF IsHonest
  <2>2. QED
    BY <2>1 DEF Encrypt
<1> HIDE DEF IsHonest
<1>11. QED
  BY <1>2, <1>3, <1>4, <1>5, <1>6, <1>7, <1>8, <1>9, <1>10 DEF HonestFields

\* Whether an enforcement allows the version of a note
Allowed(enforcement, v2) == enforcement \in {"GracePeriod", IF v2 THEN "On" ELSE "Off"}

\* The plaintext of an honest output reads as its note, and the note is valid.
LEMMA HonestReads ==
  ASSUME NEW o, NEW note, NEW k, NEW d, NEW v2, NEW seed, NEW esk, NEW ovk,
         IsHonest(o, note, k, d, v2, seed, esk, ovk),
         NEW enforcement, Allowed(enforcement, v2)
  PROVE  /\ ParseIvk(enforcement, k, NotePlaintext(note)) = note
         /\ ParseOvk(enforcement, note.pk_d, NotePlaintext(note)) = note
         /\ CheckNoteValidity(note, o.ephemeral_key, o.cmu)
<1> DEFINE plain == NotePlaintext(note)
<1>1. HonestFields(o, note, k, d, v2, seed, esk, ovk)
  BY HonestFacts
<1>2. /\ note.diversifier = d /\ note.rseed = [v2 |-> v2, seed |-> seed]
      /\ TransmissionKeyOf(k, d) = note.pk_d /\ note.pk_d \notin {None, Identity}
      /\ GD(d) # None /\ o.cmu = Cmu(note) /\ Epk(note, esk) = o.ephemeral_key
  BY <1>1 DEF HonestFields
<1>3. /\ v2 \in BOOLEAN /\ (~v2 => seed \in ScalarSeeds) /\ (v2 => DeriveEsk(note) = esk)
      /\ note = [diversifier |-> d, pk_d |-> note.pk_d,
                 rseed |-> [v2 |-> v2, seed |-> seed]]
  BY DEF IsHonest
<1>4. /\ plain.lead = IF v2 THEN 2 ELSE 1
      /\ plain.diversifier = d /\ plain.seed = seed
  BY <1>2 DEF NotePlaintext
<1> HIDE DEF plain
<1>5. VersionIsValid(enforcement, plain.lead)
  BY <1>3, <1>4 DEF VersionIsValid, Allowed
<1>6. plain.lead = 1 => plain.seed \in ScalarSeeds
  BY <1>3, <1>4
<1>7. (plain.lead # 1) = v2
  BY <1>3, <1>4
<1>8. ParseNotePlaintext(enforcement, plain, note.pk_d) = note
  <2>1. ParseNotePlaintext(enforcement, plain, note.pk_d)
          = [diversifier |-> plain.diversifier, pk_d |-> note.pk_d,
             rseed |-> [v2 |-> plain.lead # 1, seed |-> plain.seed]]
    BY <1>2, <1>5, <1>6 DEF ParseNotePlaintext
  <2>2. QED
    BY <1>3, <1>4, <1>7, <2>1
<1>9. ParseIvk(enforcement, k, plain) = note
  BY <1>2, <1>4, <1>8 DEF ParseIvk
<1>10. ParseOvk(enforcement, note.pk_d, plain) = note
  BY <1>2, <1>4, <1>8 DEF ParseOvk
<1>11. CheckNoteValidity(note, o.ephemeral_key, o.cmu)
  <2>1. note.rseed.v2 = v2
    BY <1>2
  <2>2. QED
    BY <1>2, <1>3, <2>1 DEF CheckNoteValidity
<1>12. QED
  BY <1>9, <1>10, <1>11 DEF plain

\* The viewing key of the address finds the note of an honest output, in either
\* form, and any other viewing key finds nothing.
LEMMA HonestTrial ==
  ASSUME NEW o, NEW note, NEW k, NEW d, NEW v2, NEW seed, NEW esk, NEW ovk,
         IsHonest(o, note, k, d, v2, seed, esk, ovk),
         NEW enforcement, Allowed(enforcement, v2), NEW ivk \in Keys, NEW form
  PROVE  TryNoteDecryption(enforcement, ivk, o, form) = IF ivk = k THEN note ELSE None
<1> DEFINE key == Kdf(Agree(ivk, o.ephemeral_key), o.ephemeral_key)
           plain == IF form THEN CompactPlaintext(o.enc, key) ELSE FullPlaintext(o.enc, key)
           read == ParseIvk(enforcement, ivk, plain)
<1>1. HonestFields(o, note, k, d, v2, seed, esk, ovk)
  BY HonestFacts
<1>2. /\ o.ephemeral_key = Multiple(d, {esk}) /\ o.ephemeral_key # None
      /\ o.enc.key = Kdf(Multiple(d, {k, esk}), o.ephemeral_key)
      /\ o.enc.plain = NotePlaintext(note) /\ o.enc.intact = TRUE
      /\ NotePlaintext(note) # None /\ note # None
      /\ o.cmu = Cmu(note) /\ note.rseed = [v2 |-> v2, seed |-> seed]
  BY <1>1 DEF HonestFields
<1>3. Agree(ivk, o.ephemeral_key) = Multiple(d, {esk, ivk})
  <2>1. ivk \in Scalars /\ {esk} \in SUBSET Scalars /\ {esk} \cup {ivk} = {esk, ivk}
    BY DEF IsHonest, Scalars
  <2>2. d \in ValidDiversifiers
    BY DEF IsHonest
  <2>3. QED
    BY <1>2, <2>1, <2>2, MultipleFacts
<1>4. o.enc.key = key <=> ivk = k
  <2>1. o.enc.key = key <=> Multiple(d, {k, esk}) = Multiple(d, {esk, ivk})
    BY <1>2, <1>3 DEF Kdf
  <2>2. Multiple(d, {k, esk}) = Multiple(d, {esk, ivk}) <=> {k, esk} = {esk, ivk}
    BY DEF Multiple
  <2>3. {k, esk} = {esk, ivk} <=> ivk = k
    <3>1. {k, esk} = {esk, ivk} => k \in {esk, ivk} /\ ivk \in {k, esk}
      OBVIOUS
    <3>2. ivk = k => {k, esk} = {esk, ivk}
      OBVIOUS
    <3>3. QED
      BY <3>1, <3>2
  <2>4. QED
    BY <2>1, <2>2, <2>3
<1>5. TryNoteDecryption(enforcement, ivk, o, form)
        = IF /\ plain # None /\ read # None
             /\ CheckNoteValidity(read, o.ephemeral_key, o.cmu)
          THEN read ELSE None
  BY <1>2 DEF TryNoteDecryption, DecryptWithKey
<1>6. CASE ivk = k
  <2>1. plain = NotePlaintext(note)
    BY <1>2, <1>4, <1>6 DEF CompactPlaintext, FullPlaintext
  <2> HIDE DEF plain
  <2>2. read = note /\ CheckNoteValidity(note, o.ephemeral_key, o.cmu)
    BY <1>6, <2>1, HonestReads
  <2> HIDE DEF read
  <2>3. QED
    BY <1>2, <1>5, <1>6, <2>1, <2>2
<1>7. CASE ivk # k
  <2>1. plain \in {None, Noise}
    BY <1>4, <1>7 DEF CompactPlaintext, FullPlaintext
  <2> HIDE DEF plain
  <2>2. CASE plain = None
    <3> HIDE DEF read
    <3>1. QED
      BY <1>5, <1>7, <2>2
  <2>3. CASE plain = Noise
    <3>1. read # None => read.rseed.seed = None
      BY <2>3 DEF ParseIvk, ParseNotePlaintext, Noise
    <3> HIDE DEF read
    <3>2. read # None => Cmu(read) # o.cmu
      <4>1. seed # None
        BY NoteAssumption DEF NoteAssumption, IsHonest
      <4>2. Cmu(note).rcm.of = seed
        BY <1>2 DEF Cmu, Rcm
      <4>3. read # None => Cmu(read).rcm.of = None
        BY <3>1 DEF Cmu, Rcm
      <4>4. QED
        BY <1>2, <4>1, <4>2, <4>3
    <3>3. QED
      BY <1>5, <1>7, <3>2 DEF CheckNoteValidity
  <2>4. QED
    BY <2>1, <2>2, <2>3
<1>8. QED
  BY <1>6, <1>7

\* The sender of an honest output recovers its note with the outgoing viewing
\* key it used, and with no other.
LEMMA HonestRecovery ==
  ASSUME NEW o, NEW note, NEW k, NEW d, NEW v2, NEW seed, NEW esk, NEW used,
         IsHonest(o, note, k, d, v2, seed, esk, used),
         NEW enforcement, Allowed(enforcement, v2), NEW ovk \in Ovks
  PROVE  TryOutputRecovery(enforcement, ovk, o) = IF ovk = used THEN note ELSE None
<1> DEFINE key == Kdf(Agree(o.out.esk, o.out.pk_d), o.ephemeral_key)
           plain == FullPlaintext(o.enc, key)
<1>1. HonestFields(o, note, k, d, v2, seed, esk, used)
  BY HonestFacts
<1>2. /\ note.pk_d = Multiple(d, {k}) /\ note.pk_d # None /\ note # None
      /\ o.cmu = Cmu(note) /\ o.ephemeral_key \in Points
      /\ o.enc.key = Kdf(Multiple(d, {k, esk}), o.ephemeral_key)
      /\ o.enc.plain = NotePlaintext(note) /\ o.enc.intact = TRUE
      /\ NotePlaintext(note) # None
      /\ o.out.key = IF used = None THEN None ELSE PrfOck(used, o.cmu, o.ephemeral_key)
      /\ o.out.pk_d = note.pk_d /\ o.out.esk = esk /\ note \in Notes
  BY <1>1 DEF HonestFields
<1>3. esk \in Scalars /\ k \in Scalars /\ d \in ValidDiversifiers
      /\ DeriveEsk(note) \in {None, esk} /\ seed \in Seeds /\ v2 \in BOOLEAN
  BY DEF IsHonest, Scalars
<1>4. ovk # None /\ esk # None
  BY <1>3, NoteAssumption, NoneAssumption DEF NoteAssumption, NoneAssumption
<1>5. key = o.enc.key
  <2>1. {k} \in SUBSET Scalars /\ {k} \cup {esk} = {k, esk}
    BY <1>3
  <2>2. Agree(esk, Multiple(d, {k})) = Multiple(d, {k, esk})
    BY <1>3, <2>1, MultipleFacts
  <2>3. QED
    BY <1>2, <2>2
<1>6. plain = NotePlaintext(note)
  BY <1>2, <1>5 DEF FullPlaintext
<1>7. ReadBySender(enforcement, o, plain) = note
  <2> HIDE DEF plain
  <2>1. ParseOvk(enforcement, o.out.pk_d, plain) = note
        /\ CheckNoteValidity(note, o.ephemeral_key, o.cmu)
    BY <1>2, <1>6, HonestReads
  <2>2. QED
    BY <1>2, <1>3, <2>1 DEF ReadBySender
<1>8. PrfOck(ovk, o.cmu, o.ephemeral_key) # None
  <2>1. note.diversifier \in Diversifiers /\ note.pk_d \in Points
    BY <1>2 DEF Notes
  <2>2. Rcm(note.rseed) \in [prf : BOOLEAN, of : Seeds]
    <3>1. note.rseed.v2 = v2 /\ note.rseed.seed = seed
      BY <1>1 DEF HonestFields
    <3>2. QED
      BY <1>3, <3>1 DEF Rcm
  <2>3. o.cmu \in [diversifier : Diversifiers, pk_d : Points,
                   rcm : [prf : BOOLEAN, of : Seeds]]
    BY <1>2, <2>1, <2>2 DEF Cmu
  <2>4. PrfOck(ovk, o.cmu, o.ephemeral_key)
          \in [ovk : Ovks, cmu : [diversifier : Diversifiers, pk_d : Points,
                                   rcm : [prf : BOOLEAN, of : Seeds]], ek : Points]
    BY <1>2, <2>3 DEF PrfOck
  <2>5. QED
    BY <2>4, NoneAssumption DEF NoneAssumption
<1>9. o.out.key = PrfOck(ovk, o.cmu, o.ephemeral_key) <=> ovk = used
  <2>1. PrfOck(used, o.cmu, o.ephemeral_key) = PrfOck(ovk, o.cmu, o.ephemeral_key)
          <=> ovk = used
    BY DEF PrfOck
  <2>2. QED
    BY <1>2, <1>4, <1>8, <2>1
<1>10. TryOutputRecovery(enforcement, ovk, o)
        = IF o.out.key = PrfOck(ovk, o.cmu, o.ephemeral_key)
          THEN IF plain = None THEN None ELSE ReadBySender(enforcement, o, plain)
          ELSE None
  BY <1>2, <1>4 DEF TryOutputRecovery
<1> HIDE DEF plain
<1>11. QED
  BY <1>2, <1>6, <1>7, <1>9, <1>10

\* What was sent and not altered is honest.
LEMMA SentIsHonest ==
  ASSUME NEW sent, IsSent(sent), ~sent.altered
  PROVE  \E k, d, v2, seed, esk :
           IsHonest(sent.desc, sent.note, k, d, v2, seed, esk, sent.ovk)
<1> DEFINE note == sent.note
<1>1. PICK k \in Keys, d \in ValidDiversifiers, v2 \in BOOLEAN :
        \E seed \in IF v2 THEN Seeds ELSE ScalarSeeds :
          note = Address(k, d, [v2 |-> v2, seed |-> seed])
  BY DEF IsSent
<1>2. PICK seed \in IF v2 THEN Seeds ELSE ScalarSeeds :
        note = Address(k, d, [v2 |-> v2, seed |-> seed])
  BY <1>1
<1>3. PICK r \in ScalarSeeds :
        sent.desc = Encrypt(note, GenerateOrDeriveEsk(note, r), sent.ovk)
  BY DEF IsSent
<1>4. sent.ovk \in Ovks \cup {None}
  BY DEF IsSent
<1>5. ScalarSeeds \subseteq Seeds /\ seed \in Seeds /\ (~v2 => seed \in ScalarSeeds)
  BY <1>2, NoteAssumption DEF NoteAssumption
<1> HIDE DEF note
<1>6. TransmissionKeyOf(k, d) = Multiple(d, {k})
  <2>1. {} \in SUBSET Scalars /\ k \in Scalars /\ {} \cup {k} = {k}
    BY DEF Scalars
  <2>2. /\ GD(d) = Multiple(d, {}) /\ Multiple(d, {}) # None
        /\ DerivePublic(k, Multiple(d, {})) = Multiple(d, {} \cup {k})
    BY <2>1, MultipleFacts
  <2>3. QED
    BY <2>1, <2>2 DEF TransmissionKeyOf
<1>7. note = [diversifier |-> d, pk_d |-> Multiple(d, {k}),
              rseed |-> [v2 |-> v2, seed |-> seed]]
  BY <1>2, <1>6 DEF Address
<1> DEFINE esk == GenerateOrDeriveEsk(note, r)
<1>8. esk \in Scalars /\ DeriveEsk(note) \in {None, esk} /\ (v2 => DeriveEsk(note) = esk)
  <2>1. note.rseed.v2 = v2 /\ note.rseed.seed = seed
    BY <1>7
  <2>2. DeriveEsk(note) = IF v2 THEN [prf |-> TRUE, of |-> seed] ELSE None
    BY <2>1 DEF DeriveEsk
  <2>3. [prf |-> TRUE, of |-> seed] \in Scalars /\ RandomEsk(r) \in Scalars
    BY <1>5 DEF Scalars, RandomEsk
  <2>4. [prf |-> TRUE, of |-> seed] # None
    BY <2>3, NoneAssumption DEF NoneAssumption
  <2>5. QED
    BY <2>2, <2>3, <2>4 DEF GenerateOrDeriveEsk
<1> HIDE DEF esk
<1>9. IsHonest(sent.desc, note, k, d, v2, seed, esk, sent.ovk)
  BY <1>3, <1>4, <1>5, <1>7, <1>8 DEF IsHonest, esk
<1>10. QED
  BY <1>9 DEF note

\* What a wallet finds in an honest output, and what its sender recovers
LEMMA HonestIsFound ==
  ASSUME NEW o, NEW note, NEW k, NEW d, NEW v2, NEW seed, NEW esk, NEW used,
         IsHonest(o, note, k, d, v2, seed, esk, used), IsDescription(o),
         NEW enforcement, Allowed(enforcement, v2), NEW form \in BOOLEAN, NEW hit,
         hit = FirstHit(TrialsOf(enforcement, o, form))
  PROVE  LET viewers == {v \in DOMAIN Ivks : note.pk_d.by = {Ivks[v]}}
         IN /\ viewers = {} => hit = None
            /\ viewers # {} =>
                 hit # None /\ hit.viewer \in viewers /\ hit.note = note
<1> DEFINE trials == TrialsOf(enforcement, o, form)
           hits == {v \in DOMAIN trials : trials[v] # None}
           viewers == {v \in DOMAIN Ivks : note.pk_d.by = {Ivks[v]}}
<1>1. DOMAIN trials = DOMAIN Ivks /\ DOMAIN Ivks \subseteq Nat
      /\ \A v \in DOMAIN Ivks : Ivks[v] \in Keys
  BY NoteAssumption DEF NoteAssumption, TrialsOf
<1>2. note # None /\ note \in Notes /\ note.pk_d.by = {k}
  <2>1. HonestFields(o, note, k, d, v2, seed, esk, used)
    BY HonestFacts
  <2>2. QED
    BY <2>1 DEF HonestFields, Multiple
<1>3. \A v \in DOMAIN Ivks : trials[v] = IF Ivks[v] = k THEN note ELSE None
  <2>1. \A v \in DOMAIN Ivks : trials[v] = TryNoteDecryption(enforcement, Ivks[v], o, form)
    BY DEF TrialsOf
  <2> HIDE DEF trials
  <2>2. QED
    BY <1>1, <2>1, HonestTrial
<1> HIDE DEF trials
<1>4. hits = viewers
  BY <1>1, <1>2, <1>3
<1>5. \A v \in DOMAIN trials : trials[v] \in Notes \cup {None}
  BY <1>1, <1>2, <1>3
<1>6. /\ hits = {} => hit = None
      /\ hits # {} => /\ hit # None
                      /\ hit.viewer \in hits /\ \A v \in hits : hit.viewer <= v
                      /\ hit.note = trials[hit.viewer]
  BY <1>1, <1>5, FirstHitFacts DEF trials
<1>7. \A v \in hits : trials[v] = note
  BY <1>1, <1>3
<1> HIDE DEF hits, viewers
<1>8. QED
  BY <1>4, <1>6, <1>7 DEF viewers

\* A wallet finds every honest output sent to it, and no other, as long as the
\* version its sender chose is still allowed when it is scanned; the sender
\* recovers the same note with the outgoing viewing key it used, and with no
\* other.
THEOREM OwnFound == Spec => []OwnNotesFound
<1>1. IInv => OwnNotesFound
  <2> SUFFICES ASSUME IInv PROVE OwnNotesFound
    OBVIOUS
  <2> SUFFICES
        ASSUME NEW i \in DOMAIN found, ~outputs[i].altered,
               Allowed(found[i].zip212, outputs[i].note.rseed.v2)
        PROVE  LET sent == outputs[i]
                   viewers == {v \in DOMAIN Ivks : sent.note.pk_d.by = {Ivks[v]}}
               IN /\ IF viewers = {} THEN found[i].hit = None
                     ELSE /\ found[i].hit # None
                          /\ found[i].hit.viewer \in viewers
                          /\ found[i].hit.note = sent.note
                  /\ \A ovk \in Ovks :
                       TryOutputRecovery(found[i].zip212, ovk, sent.desc) =
                         IF ovk = sent.ovk THEN sent.note ELSE None
    BY DEF OwnNotesFound, Allowed
  <2> DEFINE z == found[i].zip212
             sent == outputs[i]
             hit == found[i].hit
             viewers == {v \in DOMAIN Ivks : sent.note.pk_d.by = {Ivks[v]}}
  <2>1. IsSequence(outputs) /\ IsSequence(found) /\ Len(found) <= Len(outputs)
        /\ compact \in BOOLEAN
    BY DEF IInv, TypeOK
  <2>2. IsSent(sent) /\ IsDescription(sent.desc)
    <3>1. i \in DOMAIN outputs
      BY <2>1, SequenceFacts
    <3>2. QED
      BY <3>1 DEF IInv, OutputsAreSent
  <2>3. hit = FirstHit(TrialsOf(z, sent.desc, compact))
    BY DEF IInv, FoundIsFirst
  <2>4. ~sent.altered /\ Allowed(z, sent.note.rseed.v2)
    OBVIOUS
  <2> HIDE DEF z, sent, hit
  <2>5. PICK k, d, v2, seed, esk :
          IsHonest(sent.desc, sent.note, k, d, v2, seed, esk, sent.ovk)
    BY <2>2, <2>4, SentIsHonest
  <2>6. sent.note.rseed.v2 = v2
    BY <2>5 DEF IsHonest
  <2>7. /\ viewers = {} => hit = None
        /\ viewers # {} => hit # None /\ hit.viewer \in viewers /\ hit.note = sent.note
    BY <2>1, <2>2, <2>3, <2>4, <2>5, <2>6, HonestIsFound
  <2>8. \A ovk \in Ovks :
          TryOutputRecovery(z, ovk, sent.desc) = IF ovk = sent.ovk THEN sent.note ELSE None
    BY <2>4, <2>5, <2>6, HonestRecovery
  <2>9. QED
    BY <2>7, <2>8 DEF z, sent, hit
<1>2. QED
  BY <1>1, NotesInvariant, PTL
=============================================================================
