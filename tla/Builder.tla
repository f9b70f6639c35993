------------------------------ MODULE Builder ------------------------------
(***************************************************************************)
(* Builder of src/src/builder.rs: spends and outputs are requested one at  *)
(* a time, then the builder is consumed by build (a bundle to be proven    *)
(* and signed) or build_for_pczt (a partially created transaction).        *)
(***************************************************************************)
EXTENDS SaplingValue, SequencesExt

CONSTANTS
  SpendRequests,   \* the [note, fvk, value, root] a caller may ask to spend
  OutputRequests,  \* the [to, value] a caller may ask to create
  Anchors,         \* the anchors a builder may be created with
  DummyRoot,       \* the root of a dummy's random Merkle path
  ExtskSets,       \* what build may be given: sets of viewing keys that the
                   \* extended spending keys derive
  ValueTypes,      \* the types V a caller may ask a balance in: the sets of
                   \* i64 values that V::try_from accepts
  SpendProvers,    \* the types SP build may be given: the sets of notes that
                   \* SP::prepare_circuit refuses
  Trapdoors,       \* the value commitment trapdoors the generator may draw
  MaxCalls,        \* bound on calls of add_spend and add_output
  MaxListed        \* bound on the lists given to the function bundle

ASSUME BuilderAssumption ==
  /\ \A s \in SpendRequests :
       DOMAIN s = {"note", "fvk", "value", "root"} /\ s.value \in U64
  /\ \A o \in OutputRequests : DOMAIN o = {"to", "value"} /\ o.value \in U64
  /\ Trapdoors \subseteq Int
  /\ \A V \in ValueTypes : V \subseteq I64
  /\ DummyRoot \notin Anchors
  /\ MaxCalls \in Nat
  /\ MaxListed \in Nat

BundleTypes == {"Transactional", "TransactionalRequired", "Coinbase"}
Zip212Enforcement == {"Off", "GracePeriod", "On"}

VARIABLES
  bundle_type, zip212_enforcement, anchor,  \* fixed by Builder::new
  value_balance, spends, outputs,           \* the builder's accumulators
  calls,                                    \* calls made so far
  phase,                                    \* "open" until the builder is consumed
  result,                                   \* what the last call returned
  built                                     \* what build or build_for_pczt gave

config == <<bundle_type, zip212_enforcement, anchor>>
vars == <<bundle_type, zip212_enforcement, anchor, value_balance, spends,
          outputs, calls, phase, result, built>>

Nothing == [form |-> "none"]

-----------------------------------------------------------------------------
(* BundleType                                                               *)

Larger(a, b) == IF a >= b THEN a ELSE b

MIN_SHIELDED_OUTPUTS == 2

\* Coinbase is only asked for its number of spends when it has none.
NumSpends(type, requestedSpends) ==
  IF type = "TransactionalRequired" \/ requestedSpends > 0
  THEN Larger(requestedSpends, 1) ELSE 0

\* A variant that pads coinbase bundles too.
NumOutputsAllPadded(type, requestedSpends, requestedOutputs) ==
  IF type = "TransactionalRequired" \/ requestedSpends + requestedOutputs > 0
  THEN Larger(requestedOutputs, MIN_SHIELDED_OUTPUTS) ELSE 0

NumOutputs(type, requestedSpends, requestedOutputs) ==
  IF type = "Coinbase" THEN requestedOutputs
  ELSE IF type = "TransactionalRequired" \/ requestedSpends + requestedOutputs > 0
       THEN Larger(requestedOutputs, MIN_SHIELDED_OUTPUTS) ELSE 0

-----------------------------------------------------------------------------
(* Spends and outputs                                                       *)

\* SpendInfo::new and SpendInfo::dummy
SpendInfo(s) == [note |-> s.note, fvk |-> s.fvk, value |-> s.value,
                 root |-> s.root, dummy |-> FALSE]
DummySpend == [note |-> "dummy", fvk |-> "dummy", value |-> 0,
               root |-> DummyRoot, dummy |-> TRUE]

\* OutputInfo::new and OutputInfo::dummy
OutputInfo(o) == [to |-> o.to, value |-> o.value, dummy |-> FALSE]
DummyOutput == [to |-> "dummy", value |-> 0, dummy |-> TRUE]

\* SpendInfo::has_matching_anchor: a note of value zero may have any path
HasMatchingAnchor(spend, a) == spend.value = 0 \/ spend.root = a

Values(infos) == [i \in DOMAIN infos |-> infos[i].value]

-----------------------------------------------------------------------------
(* Builder::new, add_spend, add_output                                      *)

Init ==
  /\ bundle_type \in BundleTypes
  /\ zip212_enforcement \in Zip212Enforcement
  /\ anchor \in Anchors
  /\ value_balance = 0
  /\ spends = <<>>
  /\ outputs = <<>>
  /\ calls = 0
  /\ phase = "open"
  /\ result = "Ok"
  /\ built = Nothing

\* A variant that saturates where the code leaves the balance alone.
AccumulateSaturating(newBalance, overflowError) ==
  /\ value_balance' = IF newBalance < -I128Max - 1 THEN -I128Max - 1
                      ELSE IF newBalance > I128Max THEN I128Max ELSE newBalance
  /\ result' = IF newBalance \notin I128 THEN overflowError
               ELSE IF newBalance \notin I64 THEN "InvalidAmount" ELSE "Ok"

\* The common tail of add_spend and add_output: the balance is assigned
\* before its range is checked, and the request is listed only after.
Accumulate(newBalance, overflowError) ==
  \/ /\ newBalance \notin I128
     /\ result' = overflowError
     /\ UNCHANGED value_balance
  \/ /\ newBalance \in I128 \ I64
     /\ result' = "InvalidAmount"
     /\ value_balance' = newBalance
  \/ /\ newBalance \in I64
     /\ result' = "Ok"
     /\ value_balance' = newBalance

\* What add_spend checks before it touches the balance
SpendRefusal(s) ==
  CASE bundle_type = "Coinbase" -> "BundleTypeNotSatisfiable"
    [] bundle_type # "Coinbase" /\ ~HasMatchingAnchor(s, anchor) -> "AnchorMismatch"
    [] OTHER -> "Ok"

AddSpend(s) ==
  /\ phase = "open"
  /\ calls < MaxCalls
  /\ calls' = calls + 1
  /\ \/ /\ SpendRefusal(s) # "Ok"
        /\ result' = SpendRefusal(s)
        /\ UNCHANGED value_balance
     \/ /\ SpendRefusal(s) = "Ok"
        /\ Accumulate(value_balance + s.value, "InvalidAmount")
  /\ spends' = IF result' = "Ok" THEN Append(spends, SpendInfo(s)) ELSE spends
  /\ UNCHANGED <<config, outputs, phase, built>>

AddOutput(o) ==
  /\ phase = "open"
  /\ calls < MaxCalls
  /\ calls' = calls + 1
  /\ Accumulate(value_balance - o.value, "InvalidAddress")
  /\ outputs' = IF result' = "Ok" THEN Append(outputs, OutputInfo(o)) ELSE outputs
  /\ UNCHANGED <<config, spends, phase, built>>

\* try_value_balance has no value to return, the balance being out of the
\* range of i64 or none of V's, so value_balance::<V>() panics.
ValueBalancePanics(V) == value_balance \notin I64 \/ value_balance \notin V

-----------------------------------------------------------------------------
(* build_bundle: padding, shuffling, preparing and summing                  *)

Reordered(infos, order) == [i \in DOMAIN order |-> infos[order[i]]]

Padded(infos, dummy, count) ==
  [i \in 1 .. count |-> IF i <= Len(infos) THEN infos[i] ELSE dummy]

\* A variant that applies the permutation instead of its inverse.
IndicesInverted(order, requested) == [pos \in 1 .. requested |-> order[pos]]

\* The position after the shuffle of each requested item; dummies, which sit
\* behind the requested items before the shuffle, get no entry.
Indices(order, requested) ==
  [pos \in 1 .. requested |-> CHOOSE i \in DOMAIN order : order[i] = pos]

\* generate_random_rseed_internal
RseedKind(enforcement) ==
  IF enforcement = "Off" THEN "BeforeZip212" ELSE "AfterZip212"

StructureError(type, a, ss) ==
  CASE type = "Coinbase" /\ ss # <<>> -> "BundleTypeNotSatisfiable"
    [] type # "Coinbase" /\ \E i \in DOMAIN ss : ~HasMatchingAnchor(ss[i], a)
         -> "AnchorMismatch"
    [] OTHER -> "Ok"

\* What the generator may make of the lists: the spends and outputs padded
\* and in random order, each with a random trapdoor, and the metadata.
PreparedBundles(type, ss, os) ==
  LET nSpends == NumSpends(type, Len(ss))
      nOutputs == NumOutputs(type, Len(ss), Len(os))
  IN  { [spends |-> Reordered(Padded(ss, DummySpend, nSpends), p),
         spend_rcvs |-> r,
         outputs |-> Reordered(Padded(os, DummyOutput, nOutputs), q),
         output_rcvs |-> t,
         spend_indices |-> Indices(p, Len(ss)),
         output_indices |-> Indices(q, Len(os))] :
           p \in Bijection(1 .. nSpends, 1 .. nSpends),
           r \in [1 .. nSpends -> Trapdoors],
           q \in Bijection(1 .. nOutputs, 1 .. nOutputs),
           t \in [1 .. nOutputs -> Trapdoors] }

\* A variant that trusts the builder's running balance.
BalanceTermsRunning(b) == <<value_balance>>

\* The terms of value_balance in the order build_bundle adds them up
BalanceTerms(b) == Values(b.spends) \o NegateAll(Values(b.outputs))

Cvs(infos, rcvs) == [i \in DOMAIN infos |-> Derive(infos[i].value, rcvs[i])]

NetCommitment(b) ==
  CommitmentDiff(CommitmentSum(b.spend_cvs), CommitmentSum(b.output_cvs))

-----------------------------------------------------------------------------
(* The finishers of bundle and build_for_pczt                               *)

\* A variant that takes any key it is given.
GivenKeysAny(spend, extsks) == IF spend.dummy THEN {} ELSE extsks

\* The keys given to build that derive the viewing key of a real spend
GivenKeys(spend, extsks) == IF spend.dummy THEN {} ELSE extsks \cap {spend.fvk}

\* PreparedSpendInfo::build: the key is looked up by viewing key for a real
\* spend, and is the dummy's own for a dummy; then the prover SP is asked to
\* prepare its circuit.
SpendError(spend, extsks, SP) ==
  LET given == GivenKeys(spend, extsks)
      own == IF spend.dummy THEN {spend.fvk} ELSE {}
  IN  IF given # {} /\ own # {} THEN "WrongSpendingKey"
      ELSE IF given = {} /\ own = {} THEN "MissingSpendingKey"
      ELSE IF spend.fvk \notin given \cup own THEN "WrongSpendingKey"
      ELSE IF spend.note \in SP THEN "SpendProof"
      ELSE "Ok"

\* The error of the first spend that cannot be built, or "Ok"
SpendsError(b, extsks, SP) ==
  LET failing == {i \in DOMAIN b.spends : SpendError(b.spends[i], extsks, SP) # "Ok"}
  IN  IF failing = {} THEN "Ok"
      ELSE SpendError(b.spends[Min(failing)], extsks, SP)

\* Both forms of a built bundle; a spend's nullifier stands for the note it
\* consumes, an output's commitment for the note it creates.
Described(b, form, anchors, bsk) ==
  [form |-> form,
   anchors |-> anchors,
   bsk |-> bsk,
   value_balance |-> TotalOf(BalanceTerms(b)),
   spend_cvs |-> Cvs(b.spends, b.spend_rcvs),
   nullifiers |-> [i \in DOMAIN b.spends |-> b.spends[i].note],
   output_cvs |-> Cvs(b.outputs, b.output_rcvs),
   cmus |-> [j \in DOMAIN b.outputs |-> <<b.outputs[j].to, b.outputs[j].value>>],
   rseed |-> RseedKind(zip212_enforcement),
   spend_indices |-> b.spend_indices,
   output_indices |-> b.output_indices]

\* Each spend description carries the root of its own path as its anchor.
Unauthorized(b) ==
  Described(b, "bundle", [i \in DOMAIN b.spends |-> b.spends[i].root],
            <<TrapdoorSum(b.spend_rcvs) - TrapdoorSum(b.output_rcvs)>>)

\* One anchor for the whole bundle, and no binding key yet.
Pczt(b) == Described(b, "pczt", [i \in DOMAIN b.spends |-> anchor], <<>>)

Fail(error) == result' = error /\ built' = Nothing

\* The function bundle, on the builder's lists or on lists of its caller: the
\* balance must be an i64 before the spends are built, and one of V's after.
FinishBundle(ss, os, extsks, V, SP) ==
  \/ /\ StructureError(bundle_type, anchor, ss) # "Ok"
     /\ Fail(StructureError(bundle_type, anchor, ss))
  \/ /\ StructureError(bundle_type, anchor, ss) = "Ok"
     /\ \E b \in PreparedBundles(bundle_type, ss, os) :
          LET terms == BalanceTerms(b) IN
          \/ /\ ~PartialSumsFit(terms) \/ TotalOf(terms) \notin I64
             /\ Fail("InvalidAmount")
          \/ /\ PartialSumsFit(terms) /\ TotalOf(terms) \in I64
             /\ SpendsError(b, extsks, SP) # "Ok"
             /\ Fail(SpendsError(b, extsks, SP))
          \/ /\ PartialSumsFit(terms) /\ TotalOf(terms) \in I64 \ V
             /\ SpendsError(b, extsks, SP) = "Ok"
             /\ Fail("InvalidAmount")
          \/ /\ PartialSumsFit(terms) /\ TotalOf(terms) \in I64 \cap V
             /\ SpendsError(b, extsks, SP) = "Ok"
             /\ result' = "Ok"
             /\ built' = IF b.spends = <<>> /\ b.outputs = <<>>
                         THEN Nothing ELSE Unauthorized(b)

Consume ==
  /\ phase = "open"
  /\ phase' = "consumed"
  /\ UNCHANGED <<config, value_balance, calls>>

\* Builder::build
Build(extsks, V, SP) ==
  /\ Consume
  /\ FinishBundle(spends, outputs, extsks, V, SP)
  /\ UNCHANGED <<spends, outputs>>

\* The public function bundle, called without a builder on lists of the
\* caller: nothing has checked their anchors or their sums.
BundleFromLists(ss, os, extsks, V, SP) ==
  /\ calls = 0
  /\ Consume
  /\ spends' = ss
  /\ outputs' = os
  /\ FinishBundle(ss, os, extsks, V, SP)

\* Builder::build_for_pczt: the sum is kept as an i128 and not narrowed.
BuildForPczt ==
  /\ Consume
  /\ \/ /\ zip212_enforcement # "On"
        /\ Fail("PcztRequiresZip212")
     \/ /\ zip212_enforcement = "On"
        /\ \E b \in PreparedBundles(bundle_type, spends, outputs) :
             LET error == StructureError(bundle_type, anchor, spends) IN
             IF error # "Ok" THEN Fail(error)
             ELSE IF ~PartialSumsFit(BalanceTerms(b)) THEN Fail("InvalidAmount")
             ELSE result' = "Ok" /\ built' = Pczt(b)
  /\ UNCHANGED <<spends, outputs>>

SpendLists == BoundedSeq({SpendInfo(s) : s \in SpendRequests}, MaxListed)
OutputLists == BoundedSeq({OutputInfo(o) : o \in OutputRequests}, MaxListed)

Next ==
  \/ \E s \in SpendRequests : AddSpend(s)
  \/ \E o \in OutputRequests : AddOutput(o)
  \/ \E extsks \in ExtskSets, V \in ValueTypes, SP \in SpendProvers :
       Build(extsks, V, SP)
  \/ \E ss \in SpendLists, os \in OutputLists, extsks \in ExtskSets,
        V \in ValueTypes, SP \in SpendProvers :
       BundleFromLists(ss, os, extsks, V, SP)
  \/ BuildForPczt

Spec == Init /\ [][Next]_vars

-----------------------------------------------------------------------------
(* Properties                                                               *)

Results == {"Ok", "AnchorMismatch", "BundleTypeNotSatisfiable", "InvalidAmount",
            "InvalidAddress", "MissingSpendingKey", "WrongSpendingKey",
            "SpendProof", "PcztRequiresZip212"}

\* The builder's own state is well typed: the balance fits an i128, the lists
\* hold requests, and a request to spend is only ever listed by a builder
\* whose type allows spends.  And a key is used to build a spend only after it
\* was matched to it: the mismatch that PreparedSpendInfo::build guards
\* against can not arise.
TypeOK ==
  /\ bundle_type \in BundleTypes
  /\ zip212_enforcement \in Zip212Enforcement
  /\ anchor \in Anchors
  /\ value_balance \in I128
  /\ spends \in Seq({SpendInfo(s) : s \in SpendRequests})
  /\ outputs \in Seq({OutputInfo(o) : o \in OutputRequests})
  /\ calls \in 0 .. MaxCalls
  /\ phase \in {"open", "consumed"}
  /\ result \in Results \ {"WrongSpendingKey"}

\* Every spend that an open builder has accepted is one that build accepts:
\* a note with a value has a path to the builder's anchor, and a coinbase
\* builder has no spends (add_spend checks what build_bundle checks again).
SpendsAcceptable == phase = "open" => StructureError(bundle_type, anchor, spends) = "Ok"

NetOfLists == TotalOf(Values(spends) \o NegateAll(Values(outputs)))

\* The shuffle does not lose track of anything: the index that the metadata
\* gives for the n-th request is the position of a description of that note
\* or that output with its value, no two requests share a position, and
\* every other position is a dummy of value zero.
MetadataLocatesRequests ==
  built # Nothing =>
    LET si == built.spend_indices
        oi == built.output_indices
    IN  /\ IsInjective(si) /\ IsInjective(oi)
        /\ DOMAIN si = DOMAIN spends /\ DOMAIN oi = DOMAIN outputs
        /\ \A n \in DOMAIN spends :
             /\ built.nullifiers[si[n]] = spends[n].note
             /\ built.spend_cvs[si[n]].v = spends[n].value
        /\ \A n \in DOMAIN outputs :
             /\ built.cmus[oi[n]] = <<outputs[n].to, outputs[n].value>>
             /\ built.output_cvs[oi[n]].v = outputs[n].value
        /\ \A i \in DOMAIN built.nullifiers \ Range(si) :
             built.nullifiers[i] = "dummy" /\ built.spend_cvs[i].v = 0
        /\ \A i \in DOMAIN built.cmus \ Range(oi) : built.cmus[i] = <<"dummy", 0>>

\* Padding and shuffling leave the balance alone: the balance of what is
\* built, summed again from the shuffled descriptions, is the net value of
\* the requests, whatever add_spend and add_output made of the running sum.
BuiltBalanceIsNet == built # Nothing => built.value_balance = NetOfLists

\* The binding signature key made from the trapdoors is the one a verifier
\* derives from the commitments and the balance (the assert_eq of bundle).
BindingKeysAgree ==
  (built # Nothing /\ built.bsk # <<>>) =>
    BindingVk(built.bsk[1]) = IntoBvk(NetCommitment(built), built.value_balance)

\* What a bundle looks like from outside: dummies stand in only where the
\* bundle type promises a minimum, and a coinbase bundle is never padded.
BundleShape ==
  built # Nothing =>
    LET nSpends == Len(built.nullifiers)
        nOutputs == Len(built.cmus)
    IN  /\ bundle_type = "Coinbase" => nSpends = 0 /\ nOutputs = Len(outputs)
        /\ bundle_type = "TransactionalRequired" => nSpends >= 1
        /\ bundle_type # "Coinbase" /\ nSpends + nOutputs > 0 => nOutputs >= 2
        /\ spends # <<>> => nSpends = Len(spends)
        /\ Len(outputs) >= 2 => nOutputs = Len(outputs)

\* A description that consumes value is always proven against the anchor the
\* builder was created with, through either way of building.
ValuedSpendsAnchored ==
  built # Nothing =>
    \A i \in DOMAIN built.anchors :
      built.spend_cvs[i].v # 0 => built.anchors[i] = anchor

\* The requests an open builder has accepted, and what is built from them or
\* from lists nobody checked, are anchored where the builder promised; what is
\* built uses the builder up, so that no later request can change what it is of.
IInv ==
  /\ TypeOK
  /\ phase = "open" => built = Nothing
  /\ SpendsAcceptable
  /\ ValuedSpendsAnchored

Drift == value_balance - NetOfLists

\* The running balance and the lists part company only in a call that
\* returns InvalidAmount; every other call keeps their difference.
DriftOnlyOnInvalidAmount ==
  [][phase' = "open" /\ result' # "InvalidAmount" => Drift' = Drift]_vars

-----------------------------------------------------------------------------
(* What the documentation says and the code does not do                     *)

\* builder.rs: value_balance() expects a value, "we check this when mutating
\* self.value_balance", which would make it safe at least for a type V that
\* takes every i64.
ValueBalanceNeverPanics == phase = "open" => ~ValueBalancePanics(I64)

=============================================================================
