----------------------------- MODULE SaplingKeys -----------------------------
(***************************************************************************)
(* Sapling keys and addresses (src/src/zip32.rs, keys.rs, address.rs) as   *)
(* symbolic terms.  A hash is the term <<personalization, inputs...>>, so  *)
(* two hashes are equal only if they are made of the same parts.  A scalar *)
(* is the set of the terms that were added up to it; multiplying the       *)
(* generator G by it gives <<"G", scalar>>, and sums of points are sums of *)
(* scalars.  An Option is <<>> or <<value>>.                               *)
(***************************************************************************)
EXTENDS Integers, FiniteSets, Sequences

CONSTANTS
  MaxDepth,            \* greatest u8
  FirstHardened,       \* 2^31: least index of a hardened child
  MaxIndex,            \* greatest diversifier index, 2^88 - 1
  ValidDiversifiers,   \* those that hash to a point of the prime-order subgroup
  Ciphers              \* permutations of the diversifier space that a key may pick

Index == 0 .. MaxIndex

ASSUME KeysAssumption ==
  /\ MaxDepth \in Nat \ {0}
  /\ FirstHardened \in Nat \ {0}
  /\ MaxIndex \in Nat
  /\ ValidDiversifiers \subseteq Index /\ ValidDiversifiers # {}
  /\ Ciphers \subseteq [Index -> Index]
  /\ \A c \in Ciphers : \A d \in Index : \E j \in Index : c[j] = d
  /\ \A c \in Ciphers : \A i, j \in Index : c[i] = c[j] => i = j

None == <<>>
Some(x) == <<x>>

\* Halves of a 64-byte hash
Left(h) == <<"left", h>>
Right(h) == <<"right", h>>

\* What bytes decode to that encode no scalar
Unreduced == <<"unreduced">>

-----------------------------------------------------------------------------
(* Spending keys and viewing keys (keys.rs)                                 *)

\* from_spending_key
ExpandSpendingKey(sk) ==
  [ask |-> {<<"ask", sk>>}, nsk |-> {<<"nsk", sk>>}, ovk |-> <<"ovk", sk>>]

SpendValidatingKey(ask) == <<"G", ask>>
NullifierDerivingKey(nsk) == <<"H", nsk>>

\* [i_nsk] H + nk
AddToNk(nk, scalar) == <<"H", nk[2] \cup scalar>>

FullViewingKey(expsk) ==
  [ak |-> SpendValidatingKey(expsk.ask), nk |-> NullifierDerivingKey(expsk.nsk),
   ovk |-> expsk.ovk]

Ivk(fvk) == <<"ivk", fvk.ak, fvk.nk>>

\* DiversifiedTransmissionKey::derive
TransmissionKey(ivk, d) == IF d \in ValidDiversifiers THEN Some(<<"pk_d", ivk, d>>) ELSE None

\* PaymentAddress::from_parts.  No key here is the identity.
FromParts(d, pk_d) ==
  IF d \in ValidDiversifiers THEN Some([diversifier |-> d, pk_d |-> pk_d]) ELSE None

ToPaymentAddress(ivk, d) ==
  LET pk_d == TransmissionKey(ivk, d)
  IN  IF pk_d = None THEN None ELSE FromParts(d, pk_d[1])

-----------------------------------------------------------------------------
(* Extended keys (zip32.rs)                                                 *)

MasterTag == <<"zero">>
Tag(fvk) == <<"tag", fvk>>

\* KeyIndex: Master is None
KeyIndexOf(key_index) == IF key_index = None THEN 0 ELSE key_index[1]

MasterDk(sk) == <<"dk", sk>>

MasterKey(seed) ==
  LET i == <<"I", seed>>
      sk == Left(i)
  IN  [depth |-> 0, parent_fvk_tag |-> MasterTag, child_index |-> None,
       chain_code |-> Right(i), expsk |-> ExpandSpendingKey(sk), dk |-> MasterDk(sk)]

\* depth + 1 in a u8: a build with overflow checks panics, one without wraps.
Overflow == -1
NextDepths(depth) == IF depth < MaxDepth THEN {depth + 1} ELSE {Overflow, 0}

ChildOvk(ovk, i_l) == <<"child_ovk", i_l, ovk>>
ChildDk(dk, i_l) == <<"child_dk", i_l, dk>>

\* derive_child
ChildKey(xsk, i, depth) ==
  LET tmp == <<"child", xsk.chain_code, xsk.expsk, xsk.dk, i>>
      i_l == Left(tmp)
  IN  [depth |-> depth,
       parent_fvk_tag |-> Tag(FullViewingKey(xsk.expsk)),
       child_index |-> Some(i),
       chain_code |-> Right(tmp),
       expsk |-> [ask |-> {<<"i_ask", i_l>>} \cup xsk.expsk.ask,
                  nsk |-> {<<"i_nsk", i_l>>} \cup xsk.expsk.nsk,
                  ovk |-> ChildOvk(xsk.expsk.ovk, i_l)],
       dk |-> ChildDk(xsk.dk, i_l)]

\* zip32.rs has the internal derivation twice, for spending keys (InternalKey)
\* and for viewing keys (DeriveInternal), and so has this module.

\* A variant that takes the halves of r the other way round.
InternalKeySwapped(xsk) ==
  LET i == <<"int", FullViewingKey(xsk.expsk), xsk.dk>>
      r == <<"int_dk_ovk", i>>
  IN  [xsk EXCEPT !.expsk.nsk = {<<"int_nsk", i>>} \cup @,
                  !.expsk.ovk = Left(r), !.dk = Right(r)]

\* ExtendedSpendingKey::derive_internal
InternalKey(xsk) ==
  LET i == <<"int", FullViewingKey(xsk.expsk), xsk.dk>>
      r == <<"int_dk_ovk", i>>
  IN  [depth |-> xsk.depth, parent_fvk_tag |-> xsk.parent_fvk_tag,
       child_index |-> xsk.child_index, chain_code |-> xsk.chain_code,
       expsk |-> [ask |-> xsk.expsk.ask,
                  nsk |-> {<<"int_nsk", i>>} \cup xsk.expsk.nsk,
                  ovk |-> Right(r)],
       dk |-> Left(r)]

ToDiversifiable(xsk) == [fvk |-> FullViewingKey(xsk.expsk), dk |-> xsk.dk]

\* to_extended_full_viewing_key
ToExtended(xsk) ==
  [depth |-> xsk.depth, parent_fvk_tag |-> xsk.parent_fvk_tag,
   child_index |-> xsk.child_index, chain_code |-> xsk.chain_code,
   fvk |-> FullViewingKey(xsk.expsk), dk |-> xsk.dk]

\* A variant that takes the nullifier deriving key over as it is.
DeriveInternalSameNk(dfvk) ==
  LET i == <<"int", dfvk.fvk, dfvk.dk>>
      r == <<"int_dk_ovk", i>>
  IN  [fvk |-> [ak |-> dfvk.fvk.ak, nk |-> dfvk.fvk.nk, ovk |-> Right(r)], dk |-> Left(r)]

\* sapling_derive_internal_fvk
DeriveInternal(dfvk) ==
  LET i == <<"int", dfvk.fvk, dfvk.dk>>
      r == <<"int_dk_ovk", i>>
  IN  [fvk |-> [ak |-> dfvk.fvk.ak,
                nk |-> AddToNk(dfvk.fvk.nk, {<<"int_nsk", i>>}),
                ovk |-> Right(r)],
       dk |-> Left(r)]

\* ExtendedFullViewingKey::derive_internal
DeriveInternalExtended(xfvk) ==
  LET internal == DeriveInternal([fvk |-> xfvk.fvk, dk |-> xfvk.dk])
  IN  [depth |-> xfvk.depth, parent_fvk_tag |-> xfvk.parent_fvk_tag,
       child_index |-> xfvk.child_index, chain_code |-> xfvk.chain_code,
       fvk |-> internal.fvk, dk |-> internal.dk]

-----------------------------------------------------------------------------
(* Encodings of extended spending keys                                      *)

\* A variant that writes the index without its hardened bit.
EncodeUnhardened(xsk) ==
  [len |-> 169, depth |-> xsk.depth, tag |-> xsk.parent_fvk_tag,
   index |-> KeyIndexOf(xsk.child_index) % FirstHardened, c |-> xsk.chain_code,
   expsk |-> xsk.expsk, dk |-> xsk.dk]

\* to_bytes, write
Encode(xsk) ==
  [len |-> 169, depth |-> xsk.depth, tag |-> xsk.parent_fvk_tag,
   index |-> KeyIndexOf(xsk.child_index), c |-> xsk.chain_code, expsk |-> xsk.expsk,
   dk |-> xsk.dk]

\* KeyIndex::new: None if there is no such index at that depth
KeyIndexNew(depth, i) ==
  IF depth = 0
  THEN IF i = 0 THEN Some(None) ELSE None
  ELSE IF i >= FirstHardened THEN Some(Some(i)) ELSE None

\* SpendAuthorizingKey::from_bytes: the scalar zero is the empty sum.
IsAsk(ask) == ask # {} /\ Unreduced \notin ask

\* ExpandedSpendingKey::from_bytes, read
ExpandedError(expsk) ==
  IF ~IsAsk(expsk.ask) THEN "InvalidAsk"
  ELSE IF Unreduced \in expsk.nsk THEN "InvalidNsk" ELSE "Ok"

\* from_bytes: the first thing that is wrong with an encoding
DecodingError(e) ==
  IF e.len # 169 THEN "LengthInvalid"
  ELSE IF KeyIndexNew(e.depth, e.index) = None THEN "UnsupportedChildIndex"
  ELSE ExpandedError(e.expsk)

\* read, from a stream that begins with an encoding: it takes what it needs,
\* field by field, and leaves what may follow.
ReadError(e) ==
  IF e.len < 9 THEN "UnexpectedEof"
  ELSE IF KeyIndexNew(e.depth, e.index) = None THEN "UnsupportedChildIndex"
  ELSE IF e.len < 137 THEN "UnexpectedEof"
  ELSE IF ExpandedError(e.expsk) # "Ok" THEN ExpandedError(e.expsk)
  ELSE IF e.len < 169 THEN "UnexpectedEof" ELSE "Ok"

Decoded(e) ==
  [depth |-> e.depth, parent_fvk_tag |-> e.tag,
   child_index |-> KeyIndexNew(e.depth, e.index)[1],
   chain_code |-> e.c, expsk |-> e.expsk, dk |-> e.dk]

-----------------------------------------------------------------------------
(* Diversified addresses; c is the permutation that a diversifier key picks *)

\* DiversifierKey::diversifier
Diversifier(c, j) == IF c[j] \in ValidDiversifiers THEN Some(c[j]) ELSE None

\* diversifier_index
DiversifierIndex(c, d) == CHOOSE j \in Index : c[j] = d

\* A variant that does not try the last index.
FindDiversifierShort(c, j) ==
  LET from[k \in Index] ==
        IF k = MaxIndex THEN None
        ELSE IF Diversifier(c, k) # None THEN Some(<<k, c[k]>>) ELSE from[k + 1]
  IN  from[j]

\* find_diversifier: increments until a diversifier is valid or the index
\* cannot be incremented.
FindDiversifier(c, j) ==
  LET from[k \in Index] ==
        IF Diversifier(c, k) # None THEN Some(<<k, c[k]>>)
        ELSE IF k = MaxIndex THEN None ELSE from[k + 1]
  IN  from[j]

\* address_at, sapling_address
AddressAt(ivk, c, j) ==
  IF Diversifier(c, j) = None THEN None ELSE ToPaymentAddress(ivk, c[j])

\* find_address, sapling_find_address
FindAddress(ivk, c, j) ==
  LET found == FindDiversifier(c, j)
  IN  IF found = None THEN None
      ELSE Some([index |-> found[1][1], addr |-> ToPaymentAddress(ivk, found[1][2])[1]])

\* IncomingViewingKey::decrypt_diversifier
DecryptIndex(ivk, c, addr) ==
  LET j == DiversifierIndex(c, addr.diversifier)
  IN  IF AddressAt(ivk, c, j) = Some(addr) THEN Some(j) ELSE None

=============================================================================
