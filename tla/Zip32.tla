-------------------------------- MODULE Zip32 --------------------------------
(***************************************************************************)
(* A wallet's use of src/src/zip32.rs: it makes master keys, derives       *)
(* children and internal keys from any key it holds, reads keys from       *)
(* encodings, hands out external and change addresses and asks which index *)
(* an address was made with.  A key is named by its path: the steps that   *)
(* led to it.  The permutation that a diversifier key picks is chosen when *)
(* the key is first used.                                                  *)
(***************************************************************************)
EXTENDS SaplingKeys

CONSTANTS
  Seeds, ChildIndices,
  Backups,     \* encodings from elsewhere that the wallet may read, by name
  MaxKeys,     \* bound on the keys a wallet holds
  MaxUsed,     \* bound on the diversifier keys it uses
  MaxIssued    \* bound on the addresses it hands out

ASSUME WalletAssumption ==
  /\ \A i \in ChildIndices : i \in Nat /\ i >= FirstHardened
  /\ \A b \in DOMAIN Backups :
       /\ Backups[b].len \in Nat
       /\ Backups[b].depth \in 0 .. MaxDepth /\ Backups[b].index \in Nat

\* A key from elsewhere is no key of a seed and no other key that was read,
\* and its scalars are not for the wallet to take apart.
ASSUME ElsewhereAssumption ==
  LET readable == {b \in DOMAIN Backups : ReadError(Backups[b]) = "Ok"}
      nsk(b) == Backups[b].expsk.nsk
  IN  /\ \A b \in readable : \A scalar \in nsk(b) : scalar[1] = "nsk"
      /\ \A b \in readable, s \in Seeds : nsk(b) # MasterKey(s).expsk.nsk
      /\ \A b, other \in readable : nsk(b) = nsk(other) => b = other

VARIABLES
  keys,     \* path -> [xsk, levels]; levels counts the derive_child steps
  cipher,   \* diversifier key -> the permutation it picks
  issued,   \* history: [path, scope, index, addr] of the addresses handed out
  answer    \* the last call, if it was decrypt_diversifier: [path, addr, found]

zip32Vars == <<keys, cipher, issued, answer>>

\* Steps of a path
FromSeed(s) == [op |-> "seed", arg |-> s]
FromBackup(b) == [op |-> "backup", arg |-> b]
Child(i) == [op |-> "child", arg |-> i]
Internal == [op |-> "internal", arg |-> 0]

Zip32Init ==
  /\ keys = <<>> /\ cipher = <<>> /\ issued = {}
  /\ answer = None

Hold(path, xsk, levels) ==
  /\ path \notin DOMAIN keys
  /\ Cardinality(DOMAIN keys) < MaxKeys
  /\ keys' = [p \in DOMAIN keys \cup {path} |->
               IF p = path THEN [xsk |-> xsk, levels |-> levels] ELSE keys[p]]

Master(s) ==
  /\ Hold(<<FromSeed(s)>>, MasterKey(s), 0)
  /\ answer' = None
  /\ UNCHANGED <<cipher, issued>>

DeriveChild(p, i) ==
  /\ \E depth \in NextDepths(keys[p].xsk.depth) :
       IF depth = Overflow
       THEN UNCHANGED keys
       ELSE Hold(Append(p, Child(i)), ChildKey(keys[p].xsk, i, depth), keys[p].levels + 1)
  /\ answer' = None
  /\ UNCHANGED <<cipher, issued>>

DeriveInternalKey(p) ==
  /\ Hold(Append(p, Internal), InternalKey(keys[p].xsk), keys[p].levels)
  /\ answer' = None
  /\ UNCHANGED <<cipher, issued>>

\* A key from elsewhere, if there was no error in its encoding
HoldDecoded(b, error) ==
  /\ IF error = "Ok"
     THEN Hold(<<FromBackup(b)>>, Decoded(Backups[b]), Backups[b].depth)
     ELSE UNCHANGED keys
  /\ answer' = None
  /\ UNCHANGED <<cipher, issued>>

\* ExtendedSpendingKey::from_bytes and ExtendedSpendingKey::read
FromBytes(b) == HoldDecoded(b, DecodingError(Backups[b]))
ReadKey(b) == HoldDecoded(b, ReadError(Backups[b]))

Dfvk(p) == ToDiversifiable(keys[p].xsk)

\* to_ivk for either scope, and the diversifier key that goes with it
InScope(dfvk, scope) == IF scope = "External" THEN dfvk ELSE DeriveInternal(dfvk)
ScopeIvk(dfvk, scope) == Ivk(InScope(dfvk, scope).fvk)
ScopeDk(dfvk, scope) == InScope(dfvk, scope).dk

\* A diversifier key may pick any permutation, but picks the same each time.
Picked(dks) ==
  {c \in [DOMAIN cipher \cup dks -> Ciphers] : \A dk \in DOMAIN cipher : c[dk] = cipher[dk]}

Use(picked) ==
  /\ Cardinality(DOMAIN picked) <= MaxUsed
  /\ cipher' = picked

Issue(p, scope, index, addr) ==
  /\ Cardinality(issued) < MaxIssued
  /\ issued' = issued \cup {[path |-> p, scope |-> scope, index |-> index, addr |-> addr]}

\* find_address from index j; default_address from index 0
FindAddressFrom(p, j) ==
  /\ \E c \in Picked({Dfvk(p).dk}) :
       LET found == FindAddress(Ivk(Dfvk(p).fvk), c[Dfvk(p).dk], j)
       IN  /\ Use(c)
           /\ IF found = None THEN UNCHANGED issued
              ELSE Issue(p, "External", Some(found[1].index), found[1].addr)
  /\ answer' = None
  /\ UNCHANGED keys

\* change_address: the default address of the internal key
ChangeAddress(p) ==
  /\ LET dk == ScopeDk(Dfvk(p), "Internal") IN
     \E c \in Picked({dk}) :
       LET found == FindAddress(ScopeIvk(Dfvk(p), "Internal"), c[dk], 0)
       IN  /\ Use(c)
           /\ Issue(p, "Internal", Some(found[1].index), found[1].addr)
  /\ answer' = None
  /\ UNCHANGED keys

\* diversified_address and diversified_change_address: the caller brings the
\* diversifier, and its index is not asked for.
DiversifiedAddress(p, scope, d) ==
  /\ LET addr == ToPaymentAddress(ScopeIvk(Dfvk(p), scope), d)
     IN  IF addr = None THEN UNCHANGED issued ELSE Issue(p, scope, None, addr[1])
  /\ answer' = None
  /\ UNCHANGED <<keys, cipher>>

\* A variant that does not make the address again to compare.
DecryptUnverified(dfvk, c_ext, c_int, addr) ==
  Some([index |-> DiversifierIndex(c_ext, addr.diversifier), scope |-> "External"])

\* decrypt_diversifier.  Both attempts are compared with an external address.
Decrypt(dfvk, c_ext, c_int, addr) ==
  LET ivk == Ivk(dfvk.fvk)
      j_external == DecryptIndex(ivk, c_ext, addr)
      j_internal == DiversifierIndex(c_int, addr.diversifier)
  IN  IF j_external # None THEN Some([index |-> j_external[1], scope |-> "External"])
      ELSE IF AddressAt(ivk, c_ext, j_internal) = Some(addr)
           THEN Some([index |-> j_internal, scope |-> "Internal"])
           ELSE None

DecryptDiversifier(p, addr) ==
  /\ LET dk == Dfvk(p).dk
         dk_internal == ScopeDk(Dfvk(p), "Internal")
     IN  \E c \in Picked({dk, dk_internal}) :
           /\ Use(c)
           /\ answer' = Some([path |-> p, addr |-> addr,
                              found |-> Decrypt(Dfvk(p), c[dk], c[dk_internal], addr)])
  /\ UNCHANGED <<keys, issued>>

Zip32Next ==
  \/ \E s \in Seeds : Master(s)
  \/ \E b \in DOMAIN Backups : FromBytes(b)
  \/ \E b \in DOMAIN Backups : ReadKey(b)
  \/ \E p \in DOMAIN keys, i \in ChildIndices : DeriveChild(p, i)
  \/ \E p \in DOMAIN keys : DeriveInternalKey(p)
  \/ \E p \in DOMAIN keys, j \in Index : FindAddressFrom(p, j)
  \/ \E p \in DOMAIN keys : ChangeAddress(p)
  \/ \E p \in DOMAIN keys, scope \in {"External", "Internal"}, d \in Index :
       DiversifiedAddress(p, scope, d)
  \/ \E p \in DOMAIN keys, a \in issued : DecryptDiversifier(p, a.addr)

Zip32Spec == Zip32Init /\ [][Zip32Next]_zip32Vars

-----------------------------------------------------------------------------
(* Properties                                                               *)

\* What an extended key consists of
WellFormed(xsk) ==
  /\ xsk = [depth |-> xsk.depth, parent_fvk_tag |-> xsk.parent_fvk_tag,
            child_index |-> xsk.child_index, chain_code |-> xsk.chain_code,
            expsk |-> xsk.expsk, dk |-> xsk.dk]
  /\ ExpandedError(xsk.expsk) = "Ok"

\* What its depth and index have to do with how it was derived
IndexMatchesLevels(key) ==
  /\ key.levels \in Nat
  /\ key.xsk.depth = key.levels % (MaxDepth + 1)
  /\ IF key.levels = 0 THEN key.xsk.child_index = None
     ELSE LET i == KeyIndexOf(key.xsk.child_index)
          IN  i \in Nat /\ i >= FirstHardened /\ key.xsk.child_index = Some(i)

\* Every key is well formed, its depth is the number of levels above it in a
\* u8, and it has a child index unless it is at the root; and the internal
\* key that its spending key derives is the one that its viewing keys derive
\* (zip32.rs has the derivation twice).
Zip32IInv ==
  /\ \A p \in DOMAIN keys :
       /\ WellFormed(keys[p].xsk)
       /\ IndexMatchesLevels(keys[p])
       /\ ToExtended(InternalKey(keys[p].xsk))
            = DeriveInternalExtended(ToExtended(keys[p].xsk))
       /\ ToDiversifiable(InternalKey(keys[p].xsk)) = DeriveInternal(Dfvk(p))
  /\ \A dk \in DOMAIN cipher : cipher[dk] \in Ciphers

\* Keys with different paths can not see one another's notes, in either
\* scope: the only viewing keys that coincide are the internal scope of a key
\* and the external scope of its internal key.
ScopesSeparate ==
  \A p, q \in DOMAIN keys, s, t \in {"External", "Internal"} :
    ScopeIvk(Dfvk(p), s) = ScopeIvk(Dfvk(q), t) =>
      \/ p = q /\ s = t
      \/ s = "Internal" /\ t = "External" /\ q = Append(p, Internal)
      \/ s = "External" /\ t = "Internal" /\ p = Append(q, Internal)

\* The encoding of a key reads back as that key, by from_bytes and by read,
\* with one exception: in a build without overflow checks, the descendants at
\* every (MaxDepth + 1)-th level claim depth 0 and an index, and can not be
\* read at all.
ReadsBack ==
  \A p \in DOMAIN keys :
    LET e == Encode(keys[p].xsk)
    IN  \A error \in {DecodingError(e), ReadError(e)} :
          error = "Ok" /\ Decoded(e) = keys[p].xsk
            <=> keys[p].levels = 0 \/ keys[p].levels % (MaxDepth + 1) # 0

\* find_diversifier finds the least valid index from the given one on, and
\* gives up only if there is none up to the last index.
FoundIsLeast ==
  \A dk \in DOMAIN cipher, j \in Index :
    LET valid == {k \in j .. MaxIndex : cipher[dk][k] \in ValidDiversifiers}
    IN  FindDiversifier(cipher[dk], j) =
          IF valid = {} THEN None
          ELSE LET k == CHOOSE k \in valid : \A m \in valid : k <= m
               IN  Some(<<k, cipher[dk][k]>>)

\* decrypt_diversifier knows each external address of its key and gives the
\* index it has; and what it gives is the index of that very address, so it
\* never takes another key's address for its own.  (The answer for the
\* internal scope is never given: see DecryptsOwnAddresses.)
DecryptIsInverse ==
  answer # None =>
    LET own == Dfvk(answer[1].path)
        addr == answer[1].addr
        found == answer[1].found
    IN  /\ \A j \in Index :
             AddressAt(Ivk(own.fvk), cipher[own.dk], j) = Some(addr) =>
               found = Some([index |-> j, scope |-> "External"])
        /\ found # None =>
             AddressAt(ScopeIvk(own, found[1].scope), cipher[ScopeDk(own, found[1].scope)],
                       found[1].index) = Some(addr)

-----------------------------------------------------------------------------
(* What the documentation says and the code does not do                     *)

\* zip32.rs, decrypt_diversifier: "Decryption is attempted using both the
\* internal and external parts of the full viewing key", and None means that
\* "the address was not generated from this key".
DecryptsOwnAddresses ==
  answer # None =>
    \A a \in issued :
      a.path = answer[1].path /\ a.addr = answer[1].addr /\ a.index # None =>
        answer[1].found = Some([index |-> a.index[1], scope |-> a.scope])

=============================================================================
