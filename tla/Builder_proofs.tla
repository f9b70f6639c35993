--------------------------- MODULE Builder_proofs ---------------------------
(***************************************************************************)
(* Proofs about Builder, for any requests, keys, anchors and trapdoors,    *)
(* any widths of the integers and any number of calls.                     *)
(***************************************************************************)
EXTENDS Builder, Induction, TLAPS

SpendInfos == {SpendInfo(s) : s \in SpendRequests}
OutputInfos == {OutputInfo(o) : o \in OutputRequests}

-----------------------------------------------------------------------------
(* The shuffle                                                              *)

\* A shuffled list of n items keeps track of infos: the index of an item is
\* where it is, and every other position holds a dummy.
KeepsTrack(shuffled, index, infos, dummy, n) ==
  /\ DOMAIN shuffled = 1 .. n
  /\ IsInjective(index)
  /\ DOMAIN index = DOMAIN infos
  /\ \A k \in DOMAIN infos : index[k] \in 1 .. n /\ shuffled[index[k]] = infos[k]
  /\ \A i \in 1 .. n \ Range(index) : shuffled[i] = dummy
  /\ \A i \in 1 .. n : \/ shuffled[i] = dummy
                       \/ \E k \in DOMAIN infos : shuffled[i] = infos[k]

\* Padding and shuffling keep track of every item of any list.
LEMMA ShuffleKeepsTrack ==
  ASSUME NEW S, NEW infos \in Seq(S), NEW dummy, NEW n \in Nat, Len(infos) <= n,
         NEW order \in Bijection(1 .. n, 1 .. n), NEW shuffled, NEW index,
         shuffled = Reordered(Padded(infos, dummy, n), order),
         index = Indices(order, Len(infos))
  PROVE  KeepsTrack(shuffled, index, infos, dummy, n)
<1>1. /\ order \in [1 .. n -> 1 .. n]
      /\ \A a, c \in 1 .. n : order[a] = order[c] => a = c
      /\ \A t \in 1 .. n : \E s \in 1 .. n : order[s] = t
  BY DEF Bijection, Injection, Surjection, IsInjective
<1>2. /\ Len(infos) \in Nat
      /\ DOMAIN infos = 1 .. Len(infos)
  OBVIOUS
<1>3. /\ DOMAIN index = 1 .. Len(infos)
      /\ \A k \in 1 .. Len(infos) : index[k] \in 1 .. n /\ order[index[k]] = k
  <2>1. DOMAIN index = 1 .. Len(infos)
    BY DEF Indices
  <2>2. ASSUME NEW k \in 1 .. Len(infos)
        PROVE  index[k] \in 1 .. n /\ order[index[k]] = k
    <3>1. index[k] = CHOOSE i \in DOMAIN order : order[i] = k
      BY DEF Indices
    <3>2. k \in 1 .. n
      BY <1>2
    <3>3. DOMAIN order = 1 .. n
      BY <1>1
    <3>4. \E i \in DOMAIN order : order[i] = k
      BY <1>1, <3>2, <3>3
    <3>5. QED
      BY <3>1, <3>3, <3>4
  <2>3. QED
    BY <2>1, <2>2
<1>4. /\ DOMAIN shuffled = 1 .. n
      /\ \A i \in 1 .. n :
           shuffled[i] = IF order[i] <= Len(infos) THEN infos[order[i]] ELSE dummy
  BY <1>1 DEF Reordered, Padded
<1>5. IsInjective(index)
  BY <1>3 DEF IsInjective
<1>6. \A k \in DOMAIN infos : index[k] \in 1 .. n /\ shuffled[index[k]] = infos[k]
  BY <1>2, <1>3, <1>4
<1>7. ASSUME NEW i \in 1 .. n \ Range(index)
      PROVE  shuffled[i] = dummy
  <2>1. order[i] \in 1 .. n
    BY <1>1
  <2>2. ~(order[i] <= Len(infos))
    <3>1. SUFFICES ASSUME order[i] <= Len(infos) PROVE FALSE
      OBVIOUS
    <3>2. order[i] \in 1 .. Len(infos)
      BY <1>2, <2>1, <3>1
    <3>3. index[order[i]] = i
      BY <1>1, <1>3, <3>2
    <3>4. QED
      BY <1>3, <3>2, <3>3 DEF Range
  <2>3. QED
    BY <1>4, <2>2
<1>8. ASSUME NEW i \in 1 .. n
      PROVE  shuffled[i] = dummy \/ \E k \in DOMAIN infos : shuffled[i] = infos[k]
  <2>1. order[i] \in 1 .. n
    BY <1>1
  <2>2. CASE order[i] <= Len(infos)
    BY <1>2, <1>4, <2>1, <2>2
  <2>3. CASE ~(order[i] <= Len(infos))
    BY <1>4, <2>3
  <2>4. QED
    BY <2>2, <2>3
<1>9. QED
  BY <1>2, <1>3, <1>4, <1>5, <1>6, <1>7, <1>8 DEF KeepsTrack

\* The bundle type asks for at least as many descriptions as were requested.
LEMMA CountsCover ==
  ASSUME NEW type, NEW ns \in Nat, NEW no \in Nat
  PROVE  /\ NumSpends(type, ns) \in Nat
         /\ ns <= NumSpends(type, ns)
         /\ NumOutputs(type, ns, no) \in Nat
         /\ no <= NumOutputs(type, ns, no)
BY DEF NumSpends, NumOutputs, Larger, MIN_SHIELDED_OUTPUTS

\* Whatever permutations and trapdoors are drawn, both lists are tracked.
LEMMA PreparedKeepsTrack ==
  ASSUME NEW type, NEW ss \in Seq(SpendInfos), NEW os \in Seq(OutputInfos),
         NEW b \in PreparedBundles(type, ss, os)
  PROVE  /\ KeepsTrack(b.spends, b.spend_indices, ss, DummySpend,
                       NumSpends(type, Len(ss)))
         /\ KeepsTrack(b.outputs, b.output_indices, os, DummyOutput,
                       NumOutputs(type, Len(ss), Len(os)))
<1> DEFINE nSpends == NumSpends(type, Len(ss))
           nOutputs == NumOutputs(type, Len(ss), Len(os))
<1>1. /\ nSpends \in Nat /\ Len(ss) <= nSpends
      /\ nOutputs \in Nat /\ Len(os) <= nOutputs
  <2>1. Len(ss) \in Nat /\ Len(os) \in Nat
    OBVIOUS
  <2>2. QED
    BY <2>1, CountsCover
<1>2. PICK p \in Bijection(1 .. nSpends, 1 .. nSpends),
           r \in [1 .. nSpends -> Trapdoors],
           q \in Bijection(1 .. nOutputs, 1 .. nOutputs),
           t \in [1 .. nOutputs -> Trapdoors] :
        b = [spends |-> Reordered(Padded(ss, DummySpend, nSpends), p),
             spend_rcvs |-> r,
             outputs |-> Reordered(Padded(os, DummyOutput, nOutputs), q),
             output_rcvs |-> t,
             spend_indices |-> Indices(p, Len(ss)),
             output_indices |-> Indices(q, Len(os))]
  BY DEF PreparedBundles
<1>3. /\ b.spends = Reordered(Padded(ss, DummySpend, nSpends), p)
      /\ b.spend_indices = Indices(p, Len(ss))
      /\ b.outputs = Reordered(Padded(os, DummyOutput, nOutputs), q)
      /\ b.output_indices = Indices(q, Len(os))
  BY <1>2
<1> HIDE DEF nSpends, nOutputs
<1>4. KeepsTrack(b.spends, b.spend_indices, ss, DummySpend, nSpends)
  BY <1>1, <1>3, ShuffleKeepsTrack
<1>5. KeepsTrack(b.outputs, b.output_indices, os, DummyOutput, nOutputs)
  BY <1>1, <1>3, ShuffleKeepsTrack
<1>6. QED
  BY <1>4, <1>5 DEF nSpends, nOutputs

-----------------------------------------------------------------------------
(* What is built                                                            *)

\* The lookup of a spend's key either finds the key or reports that it is
\* missing: a key that does not fit is never tried.
LEMMA NoWrongKey ==
  ASSUME NEW b, NEW extsks, NEW SP
  PROVE  SpendsError(b, extsks, SP) \in {"Ok", "MissingSpendingKey", "SpendProof"}
<1>1. ASSUME NEW spend
      PROVE  SpendError(spend, extsks, SP) \in {"Ok", "MissingSpendingKey", "SpendProof"}
  <2>1. CASE spend.dummy
    <3>1. GivenKeys(spend, extsks) = {}
      BY <2>1 DEF GivenKeys
    <3>2. QED
      BY <2>1, <3>1 DEF SpendError
  <2>2. CASE ~spend.dummy
    <3>1. GivenKeys(spend, extsks) = extsks \cap {spend.fvk}
      BY <2>2 DEF GivenKeys
    <3>2. CASE spend.fvk \in extsks
      BY <2>2, <3>1, <3>2 DEF SpendError
    <3>3. CASE spend.fvk \notin extsks
      BY <2>2, <3>1, <3>3 DEF SpendError
    <3>4. QED
      BY <3>2, <3>3
  <2>3. QED
    BY <2>1, <2>2
<1>2. QED
  BY <1>1 DEF SpendsError

\* The fields that both forms of what is built have in common, and their
\* anchors
HasCommonFields(bundle, b) ==
  /\ bundle.spend_cvs = Cvs(b.spends, b.spend_rcvs)
  /\ bundle.nullifiers = [i \in DOMAIN b.spends |-> b.spends[i].note]
  /\ bundle.output_cvs = Cvs(b.outputs, b.output_rcvs)
  /\ bundle.cmus = [j \in DOMAIN b.outputs |-> <<b.outputs[j].to, b.outputs[j].value>>]
  /\ bundle.spend_indices = b.spend_indices
  /\ bundle.output_indices = b.output_indices

HasAnchors(bundle, b) ==
  /\ bundle = Unauthorized(b) =>
       bundle.anchors = [i \in DOMAIN b.spends |-> b.spends[i].root]
  /\ bundle = Pczt(b) => bundle.anchors = [i \in DOMAIN b.spends |-> anchor]

\* Each finisher makes a record of these fields.
LEMMA BuiltFields ==
  ASSUME NEW b, NEW bundle, bundle = Unauthorized(b) \/ bundle = Pczt(b)
  PROVE  HasCommonFields(bundle, b) /\ HasAnchors(bundle, b)
<1>1. ASSUME NEW form, NEW anchors, NEW bsk
      PROVE  /\ HasCommonFields(Described(b, form, anchors, bsk), b)
             /\ Described(b, form, anchors, bsk).anchors = anchors
  BY DEF Described, HasCommonFields
<1>2. HasCommonFields(bundle, b)
  BY <1>1 DEF Unauthorized, Pczt
<1>3. Unauthorized(b).anchors = [i \in DOMAIN b.spends |-> b.spends[i].root]
  BY <1>1 DEF Unauthorized
<1>4. Pczt(b).anchors = [i \in DOMAIN b.spends |-> anchor]
  BY <1>1 DEF Pczt
<1>5. QED
  BY <1>2, <1>3, <1>4 DEF HasAnchors

\* What MetadataLocatesRequests says of a bundle built from two lists
Locates(bundle, ss, os) ==
  LET si == bundle.spend_indices
      oi == bundle.output_indices
  IN  /\ IsInjective(si) /\ IsInjective(oi)
      /\ DOMAIN si = DOMAIN ss /\ DOMAIN oi = DOMAIN os
      /\ \A n \in DOMAIN ss :
           /\ bundle.nullifiers[si[n]] = ss[n].note
           /\ bundle.spend_cvs[si[n]].v = ss[n].value
      /\ \A n \in DOMAIN os :
           /\ bundle.cmus[oi[n]] = <<os[n].to, os[n].value>>
           /\ bundle.output_cvs[oi[n]].v = os[n].value
      /\ \A i \in DOMAIN bundle.nullifiers \ Range(si) :
           bundle.nullifiers[i] = "dummy" /\ bundle.spend_cvs[i].v = 0
      /\ \A i \in DOMAIN bundle.cmus \ Range(oi) : bundle.cmus[i] = <<"dummy", 0>>

\* Both finishers report positions that hold what was requested.
LEMMA BuiltLocates ==
  ASSUME NEW type, NEW ss \in Seq(SpendInfos), NEW os \in Seq(OutputInfos),
         NEW b \in PreparedBundles(type, ss, os),
         NEW bundle, bundle = Unauthorized(b) \/ bundle = Pczt(b)
  PROVE  Locates(bundle, ss, os)
<1> DEFINE n == NumSpends(type, Len(ss))
           m == NumOutputs(type, Len(ss), Len(os))
<1>1. /\ KeepsTrack(b.spends, b.spend_indices, ss, DummySpend, n)
      /\ KeepsTrack(b.outputs, b.output_indices, os, DummyOutput, m)
  BY PreparedKeepsTrack
<1> HIDE DEF n, m
<1>2. /\ bundle.spend_cvs = Cvs(b.spends, b.spend_rcvs)
      /\ bundle.nullifiers = [i \in DOMAIN b.spends |-> b.spends[i].note]
      /\ bundle.output_cvs = Cvs(b.outputs, b.output_rcvs)
      /\ bundle.cmus = [j \in DOMAIN b.outputs |-> <<b.outputs[j].to, b.outputs[j].value>>]
      /\ bundle.spend_indices = b.spend_indices
      /\ bundle.output_indices = b.output_indices
  <2>1. HasCommonFields(bundle, b)
    BY BuiltFields
  <2>2. QED
    BY <2>1 DEF HasCommonFields
<1>3. /\ DOMAIN bundle.nullifiers = 1 .. n
      /\ \A i \in 1 .. n : /\ bundle.nullifiers[i] = b.spends[i].note
                           /\ bundle.spend_cvs[i].v = b.spends[i].value
  BY <1>1, <1>2 DEF KeepsTrack, Cvs, Derive
<1>4. /\ DOMAIN bundle.cmus = 1 .. m
      /\ \A i \in 1 .. m : /\ bundle.cmus[i] = <<b.outputs[i].to, b.outputs[i].value>>
                           /\ bundle.output_cvs[i].v = b.outputs[i].value
  BY <1>1, <1>2 DEF KeepsTrack, Cvs, Derive
<1>5. /\ IsInjective(bundle.spend_indices)
      /\ IsInjective(bundle.output_indices)
      /\ DOMAIN bundle.spend_indices = DOMAIN ss
      /\ DOMAIN bundle.output_indices = DOMAIN os
  BY <1>1, <1>2 DEF KeepsTrack
<1>6. ASSUME NEW k \in DOMAIN ss
      PROVE  /\ bundle.nullifiers[bundle.spend_indices[k]] = ss[k].note
             /\ bundle.spend_cvs[bundle.spend_indices[k]].v = ss[k].value
  BY <1>1, <1>2, <1>3 DEF KeepsTrack
<1>7. ASSUME NEW k \in DOMAIN os
      PROVE  /\ bundle.cmus[bundle.output_indices[k]] = <<os[k].to, os[k].value>>
             /\ bundle.output_cvs[bundle.output_indices[k]].v = os[k].value
  BY <1>1, <1>2, <1>4 DEF KeepsTrack
<1>8. ASSUME NEW i \in DOMAIN bundle.nullifiers \ Range(bundle.spend_indices)
      PROVE  bundle.nullifiers[i] = "dummy" /\ bundle.spend_cvs[i].v = 0
  <2>1. i \in 1 .. n /\ b.spends[i] = DummySpend
    BY <1>1, <1>2, <1>3 DEF KeepsTrack
  <2>2. QED
    BY <1>3, <2>1 DEF DummySpend
<1>9. ASSUME NEW i \in DOMAIN bundle.cmus \ Range(bundle.output_indices)
      PROVE  bundle.cmus[i] = <<"dummy", 0>>
  <2>1. i \in 1 .. m /\ b.outputs[i] = DummyOutput
    BY <1>1, <1>2, <1>4 DEF KeepsTrack
  <2>2. QED
    BY <1>4, <2>1 DEF DummyOutput
<1>10. QED
  BY <1>5, <1>6, <1>7, <1>8, <1>9 DEF Locates

\* Spends that pass the structure checks are built with the right anchors:
\* each is one of the list, or a dummy without value.
LEMMA BuiltAnchored ==
  ASSUME NEW ss \in Seq(SpendInfos), NEW os \in Seq(OutputInfos),
         StructureError(bundle_type, anchor, ss) = "Ok",
         NEW b \in PreparedBundles(bundle_type, ss, os),
         NEW bundle, bundle = Unauthorized(b) \/ bundle = Pczt(b),
         NEW i \in DOMAIN bundle.anchors, bundle.spend_cvs[i].v # 0
  PROVE  bundle.anchors[i] = anchor
<1> DEFINE n == NumSpends(bundle_type, Len(ss))
<1>1. KeepsTrack(b.spends, b.spend_indices, ss, DummySpend, n)
  BY PreparedKeepsTrack
<1> HIDE DEF n
<1>2. /\ bundle.spend_cvs = Cvs(b.spends, b.spend_rcvs)
      /\ bundle = Unauthorized(b) =>
           bundle.anchors = [j \in DOMAIN b.spends |-> b.spends[j].root]
      /\ bundle = Pczt(b) => bundle.anchors = [j \in DOMAIN b.spends |-> anchor]
  <2>1. HasCommonFields(bundle, b) /\ HasAnchors(bundle, b)
    BY BuiltFields
  <2>2. QED
    BY <2>1 DEF HasCommonFields, HasAnchors
<1>3. i \in DOMAIN b.spends
  BY <1>2
<1>4. i \in 1 .. n /\ bundle.spend_cvs[i].v = b.spends[i].value
  BY <1>1, <1>2, <1>3 DEF KeepsTrack, Cvs, Derive
<1>5. CASE bundle = Pczt(b)
  BY <1>2, <1>3, <1>5
<1>6. CASE bundle = Unauthorized(b)
  <2>1. bundle.anchors[i] = b.spends[i].root
    BY <1>2, <1>3, <1>6
  <2>2. b.spends[i] # DummySpend
    BY <1>4 DEF DummySpend
  <2>3. PICK k \in DOMAIN ss : b.spends[i] = ss[k]
    BY <1>1, <1>4, <2>2 DEF KeepsTrack
  <2>4. HasMatchingAnchor(ss[k], anchor)
    <3>1. ss # <<>>
      BY <2>3
    <3>2. CASE bundle_type = "Coinbase"
      BY <3>1, <3>2 DEF StructureError
    <3>3. CASE bundle_type # "Coinbase"
      BY <3>3 DEF StructureError
    <3>4. QED
      BY <3>2, <3>3
  <2>5. QED
    BY <1>4, <2>1, <2>3, <2>4 DEF HasMatchingAnchor
<1>7. QED
  BY <1>5, <1>6

\* A function on 1 .. n is a sequence of length n.
LEMMA LenOfFunction ==
  ASSUME NEW n \in Nat, NEW f, NEW g, DOMAIN g = 1 .. n, f = [i \in DOMAIN g |-> f[i]]
  PROVE  Len(f) = n
<1>1. f \in Seq({f[i] : i \in 1 .. n})
  OBVIOUS
<1>2. Len(f) \in Nat /\ DOMAIN f = 1 .. Len(f)
  BY <1>1
<1>3. DOMAIN f = 1 .. n
  OBVIOUS
<1>4. QED
  BY <1>2, <1>3

\* What is built has as many descriptions as its type asks for.
LEMMA BuiltCounts ==
  ASSUME NEW type, NEW ss \in Seq(SpendInfos), NEW os \in Seq(OutputInfos),
         NEW b \in PreparedBundles(type, ss, os),
         NEW bundle, bundle = Unauthorized(b) \/ bundle = Pczt(b)
  PROVE  /\ Len(bundle.nullifiers) = NumSpends(type, Len(ss))
         /\ Len(bundle.cmus) = NumOutputs(type, Len(ss), Len(os))
<1> DEFINE n == NumSpends(type, Len(ss))
           m == NumOutputs(type, Len(ss), Len(os))
<1>1. DOMAIN b.spends = 1 .. n /\ DOMAIN b.outputs = 1 .. m
  BY PreparedKeepsTrack DEF KeepsTrack
<1>2. n \in Nat /\ m \in Nat
  <2>1. Len(ss) \in Nat /\ Len(os) \in Nat
    OBVIOUS
  <2>2. QED
    BY <2>1, CountsCover
<1> HIDE DEF n, m
<1>3. /\ bundle.nullifiers = [i \in DOMAIN b.spends |-> b.spends[i].note]
      /\ bundle.cmus = [j \in DOMAIN b.outputs |-> <<b.outputs[j].to, b.outputs[j].value>>]
  <2>1. HasCommonFields(bundle, b)
    BY BuiltFields
  <2>2. QED
    BY <2>1 DEF HasCommonFields
<1>4. Len(bundle.nullifiers) = n
  <2>1. bundle.nullifiers = [i \in DOMAIN b.spends |-> bundle.nullifiers[i]]
    BY <1>3
  <2>2. QED
    BY <1>1, <1>2, <2>1, LenOfFunction
<1>5. Len(bundle.cmus) = m
  <2>1. bundle.cmus = [j \in DOMAIN b.outputs |-> bundle.cmus[j]]
    BY <1>3
  <2>2. QED
    BY <1>1, <1>2, <2>1, LenOfFunction
<1>6. QED
  BY <1>4, <1>5 DEF n, m

\* The shape that BundleShape gives for the numbers of requests
LEMMA CountsHaveShape ==
  ASSUME NEW type \in BundleTypes, NEW ns \in Nat, NEW no \in Nat,
         type = "Coinbase" => ns = 0,
         NEW nSpends, nSpends = NumSpends(type, ns),
         NEW nOutputs, nOutputs = NumOutputs(type, ns, no)
  PROVE  /\ type = "Coinbase" => nSpends = 0 /\ nOutputs = no
         /\ type = "TransactionalRequired" => nSpends >= 1
         /\ type # "Coinbase" /\ nSpends + nOutputs > 0 => nOutputs >= 2
         /\ ns # 0 => nSpends = ns
         /\ no >= 2 => nOutputs = no
BY DEF BundleTypes, NumSpends, NumOutputs, Larger, MIN_SHIELDED_OUTPUTS

-----------------------------------------------------------------------------
(* The balance of what is built                                             *)

\* The values of a list of requests are integers, and so are those of a list
\* with one request more.
LEMMA ValuesAreIntegers ==
  /\ \A ss \in Seq(SpendInfos) : Values(ss) \in Seq(Int)
  /\ \A os \in Seq(OutputInfos) : Values(os) \in Seq(Int)
<1>1. /\ \A s \in SpendInfos : s.value \in Int
      /\ \A o \in OutputInfos : o.value \in Int
  BY BuilderAssumption, I64MaxAssumption
  DEF BuilderAssumption, I64MaxAssumption, SpendInfos, SpendInfo, OutputInfos, OutputInfo,
      U64, U64Max
<1>2. ASSUME NEW S, \A s \in S : s.value \in Int, NEW infos \in Seq(S)
      PROVE  Values(infos) \in Seq(Int)
  BY <1>2 DEF Values
<1>3. QED
  BY <1>1, <1>2

\* A balance is the sum of what goes in less the sum of what comes out.
LEMMA NetIsDifference ==
  ASSUME NEW s \in Seq(Int), NEW t \in Seq(Int)
  PROVE  /\ SumFunction(s) \in Int /\ SumFunction(t) \in Int
         /\ TotalOf(s \o NegateAll(t)) = SumFunction(s) - SumFunction(t)
<1>1. NegateAll(t) \in Seq(Int)
  BY DEF NegateAll
<1>2. /\ SumFunction(s) \in Int /\ SumFunction(t) \in Int
      /\ SumFunction(s \o NegateAll(t)) = SumFunction(s) + SumFunction(NegateAll(t))
  BY <1>1, SumOfConcat
<1>3. SumFunction(NegateAll(t)) = -SumFunction(t)
  <2>1. /\ DOMAIN t = 1 .. Len(t) /\ Len(t) \in Nat
        /\ \A i \in DOMAIN t : t[i] \in Int
        /\ DOMAIN NegateAll(t) = DOMAIN t
        /\ \A i \in DOMAIN t : NegateAll(t)[i] = -t[i]
    BY DEF NegateAll
  <2>2. IsFiniteSet(DOMAIN t)
    BY <2>1, FS_Interval
  <2>3. SumFunctionOnSet(NegateAll(t), DOMAIN t) = -SumFunctionOnSet(t, DOMAIN t)
    BY <2>1, <2>2, SumOfNegatives
  <2>4. QED
    BY <2>1, <2>3 DEF SumFunction
<1>4. QED
  BY <1>2, <1>3 DEF TotalOf

\* A shuffled list that keeps track of infos, with dummies of value zero, has
\* the sum of infos: each item is there once, and the rest adds nothing.
LEMMA ShuffleKeepsSum ==
  ASSUME NEW S, NEW infos \in Seq(S), Values(infos) \in Seq(Int),
         NEW dummy, dummy.value = 0, NEW n \in Nat, NEW shuffled, NEW index,
         KeepsTrack(shuffled, index, infos, dummy, n)
  PROVE  /\ Values(shuffled) \in Seq(Int)
         /\ SumFunction(Values(shuffled)) = SumFunction(Values(infos))
<1> DEFINE D == DOMAIN infos
           R == {index[k] : k \in D}
           vals == Values(infos)
           shuffledVals == Values(shuffled)
<1>1. /\ D = 1 .. Len(infos) /\ Len(infos) \in Nat
      /\ DOMAIN vals = D
      /\ \A k \in D : vals[k] = infos[k].value /\ vals[k] \in Int
  <2>1. D = 1 .. Len(infos) /\ Len(infos) \in Nat
    OBVIOUS
  <2>2. DOMAIN vals = D /\ \A k \in D : vals[k] = infos[k].value
    BY DEF Values
  <2>3. \A k \in DOMAIN vals : vals[k] \in Int
    OBVIOUS
  <2>4. QED
    BY <2>1, <2>2, <2>3
<1>2. /\ DOMAIN shuffledVals = 1 .. n
      /\ \A i \in 1 .. n : shuffledVals[i] = shuffled[i].value
      /\ shuffledVals = [i \in 1 .. n |-> shuffledVals[i]]
  BY DEF KeepsTrack, Values
<1> HIDE DEF vals, shuffledVals
<1>3. /\ \A k, l \in D : index[k] = index[l] => k = l
      /\ \A k \in D : index[k] \in 1 .. n /\ shuffledVals[index[k]] = vals[k]
  <2>1. \A k, l \in D : index[k] = index[l] => k = l
    BY DEF KeepsTrack, IsInjective
  <2>2. \A k \in D : index[k] \in 1 .. n /\ shuffled[index[k]] = infos[k]
    BY DEF KeepsTrack
  <2>3. ASSUME NEW k \in D
        PROVE  shuffledVals[index[k]] = vals[k]
    <3>1. index[k] \in 1 .. n /\ shuffled[index[k]] = infos[k]
      BY <2>2
    <3>2. shuffledVals[index[k]] = shuffled[index[k]].value
      BY <1>2, <3>1
    <3>3. QED
      BY <1>1, <3>1, <3>2
  <2>4. QED
    BY <2>1, <2>2, <2>3
<1>4. R \in SUBSET (1 .. n)
  BY <1>3
<1>5. \A i \in (1 .. n) \ R : shuffledVals[i] = 0
  <2>1. R = Range(index)
    BY DEF KeepsTrack, Range
  <2>2. QED
    BY <1>2, <2>1 DEF KeepsTrack
<1>6. \A i \in R : shuffledVals[i] \in Int
  BY <1>1, <1>3
<1>7. IsFiniteSet(D) /\ IsFiniteSet(R) /\ IsFiniteSet((1 .. n) \ R)
  <2>1. \A m \in Nat : IsFiniteSet(1 .. m)
    BY FS_Interval
  <2>2. IsFiniteSet(D) /\ IsFiniteSet(1 .. n)
    BY <1>1, <2>1
  <2>3. QED
    BY <1>4, <2>2, FS_Subset
<1>8. SumFunctionOnSet(vals, D) = SumFunctionOnSet(shuffledVals, R)
  <2>1. Renamed(vals, shuffledVals, index, D)
    BY <1>1, <1>3 DEF Renamed
  <2>2. IsFiniteSet(D)
    BY <1>7
  <2> HIDE DEF D
  <2>3. SumFunctionOnSet(vals, D) = SumFunctionOnSet(shuffledVals, {index[k] : k \in D})
    BY <2>1, <2>2, SumReindexed
  <2>4. QED
    BY <2>3
<1> HIDE DEF D, R
<1>9. SumFunctionOnSet(shuffledVals, (1 .. n) \ R) = 0
  BY <1>5, <1>7, SumOfZeros
<1>10. SumFunctionOnSet(shuffledVals, R \cup ((1 .. n) \ R))
         = SumFunctionOnSet(shuffledVals, R) + SumFunctionOnSet(shuffledVals, (1 .. n) \ R)
  <2>1. \A i \in R \cup ((1 .. n) \ R) : shuffledVals[i] \in Int
    BY <1>5, <1>6
  <2>2. R \cap ((1 .. n) \ R) = {}
    OBVIOUS
  <2>3. QED
    BY <1>7, <2>1, <2>2, SumOfUnion
<1>11. R \cup ((1 .. n) \ R) = 1 .. n
  BY <1>4
<1>12. SumFunctionOnSet(shuffledVals, R) \in Int
  BY <1>6, <1>7, SumOfSet
<1>13. SumFunction(shuffledVals) = SumFunction(vals)
  <2>1. SumFunctionOnSet(shuffledVals, 1 .. n)
          = SumFunctionOnSet(shuffledVals, R) + SumFunctionOnSet(shuffledVals, (1 .. n) \ R)
    BY <1>10, <1>11
  <2>2. SumFunctionOnSet(shuffledVals, 1 .. n) = SumFunctionOnSet(vals, D)
    BY <1>8, <1>9, <1>12, <2>1
  <2>3. QED
    BY <1>1, <1>2, <2>2 DEF SumFunction
<1>14. shuffledVals \in Seq(Int)
  <2>1. \A i \in 1 .. n : shuffledVals[i] \in Int
    BY <1>5, <1>6
  <2>2. shuffledVals \in [1 .. n -> Int]
    BY Zenon, <1>2, <2>1
  <2>3. QED
    BY <2>2
<1>15. QED
  BY <1>13, <1>14 DEF vals, shuffledVals

\* The padded and shuffled lists are worth what was requested.
LEMMA PreparedKeepsSum ==
  ASSUME NEW type, NEW ss \in Seq(SpendInfos), NEW os \in Seq(OutputInfos),
         NEW b \in PreparedBundles(type, ss, os)
  PROVE  /\ Values(b.spends) \in Seq(Int) /\ Values(b.outputs) \in Seq(Int)
         /\ TotalOf(BalanceTerms(b)) = SumFunction(Values(b.spends)) - SumFunction(Values(b.outputs))
         /\ TotalOf(BalanceTerms(b)) = TotalOf(Values(ss) \o NegateAll(Values(os)))
<1> DEFINE n == NumSpends(type, Len(ss))
           m == NumOutputs(type, Len(ss), Len(os))
<1>1. /\ KeepsTrack(b.spends, b.spend_indices, ss, DummySpend, n)
      /\ KeepsTrack(b.outputs, b.output_indices, os, DummyOutput, m)
  BY PreparedKeepsTrack
<1>2. n \in Nat /\ m \in Nat
  <2>1. Len(ss) \in Nat /\ Len(os) \in Nat
    OBVIOUS
  <2>2. QED
    BY <2>1, CountsCover
<1>3. Values(ss) \in Seq(Int) /\ Values(os) \in Seq(Int)
  BY ValuesAreIntegers
<1>4. DummySpend.value = 0 /\ DummyOutput.value = 0
  BY DEF DummySpend, DummyOutput
<1> HIDE DEF n, m
<1>5. /\ Values(b.spends) \in Seq(Int)
      /\ SumFunction(Values(b.spends)) = SumFunction(Values(ss))
  BY <1>1, <1>2, <1>3, <1>4, ShuffleKeepsSum
<1>6. /\ Values(b.outputs) \in Seq(Int)
      /\ SumFunction(Values(b.outputs)) = SumFunction(Values(os))
  BY <1>1, <1>2, <1>3, <1>4, ShuffleKeepsSum
<1>7. TotalOf(BalanceTerms(b)) = SumFunction(Values(b.spends)) - SumFunction(Values(b.outputs))
  BY <1>5, <1>6, NetIsDifference DEF BalanceTerms
<1>8. TotalOf(Values(ss) \o NegateAll(Values(os))) = SumFunction(Values(ss)) - SumFunction(Values(os))
  BY <1>3, NetIsDifference
<1>9. QED
  BY <1>5, <1>6, <1>7, <1>8

\* The trapdoors drawn are as many as the descriptions they blind.
LEMMA TrapdoorsFit ==
  ASSUME NEW type, NEW ss \in Seq(SpendInfos), NEW os \in Seq(OutputInfos),
         NEW b \in PreparedBundles(type, ss, os)
  PROVE  /\ b.spend_rcvs = [i \in DOMAIN b.spends |-> b.spend_rcvs[i]]
         /\ b.output_rcvs = [j \in DOMAIN b.outputs |-> b.output_rcvs[j]]
<1> DEFINE n == NumSpends(type, Len(ss))
           m == NumOutputs(type, Len(ss), Len(os))
<1>1. b.spend_rcvs \in [1 .. n -> Trapdoors] /\ b.output_rcvs \in [1 .. m -> Trapdoors]
  BY DEF PreparedBundles
<1>2. DOMAIN b.spends = 1 .. n /\ DOMAIN b.outputs = 1 .. m
  BY PreparedKeepsTrack DEF KeepsTrack
<1> HIDE DEF n, m
<1>3. QED
  BY <1>1, <1>2

\* The sum of commitments is the sum of the values and the sum of the trapdoors.
LEMMA SumOfCvs ==
  ASSUME NEW infos, NEW rcvs, rcvs = [i \in DOMAIN infos |-> rcvs[i]]
  PROVE  CommitmentSum(Cvs(infos, rcvs))
           = [v |-> SumFunction(Values(infos)), r |-> TrapdoorSum(rcvs)]
<1> DEFINE cvs == Cvs(infos, rcvs)
<1>1. DOMAIN cvs = DOMAIN infos
  BY DEF Cvs
<1>2. \A i \in DOMAIN infos : cvs[i].v = infos[i].value /\ cvs[i].r = rcvs[i]
  BY DEF Cvs, Derive
<1> HIDE DEF cvs
<1>3. [i \in DOMAIN cvs |-> cvs[i].v] = Values(infos)
  BY <1>1, <1>2 DEF Values
<1>4. [i \in DOMAIN cvs |-> cvs[i].r] = rcvs
  BY <1>1, <1>2
<1>5. CommitmentSum(cvs) = [v |-> SumFunction(Values(infos)), r |-> SumFunction(rcvs)]
  BY <1>3, <1>4 DEF CommitmentSum
<1>6. QED
  BY <1>5 DEF TrapdoorSum, cvs

\* Taking a balance off commitments takes the balance off their value, at
\* the least i64 too.
LEMMA IntoBvkSubtracts ==
  ASSUME NEW v \in Int, NEW r, NEW balance \in Int
  PROVE  IntoBvk([v |-> v, r |-> r], balance) = [v |-> v - balance, r |-> r]
<1> DEFINE magnitude == AbsValue(balance)
           signed == IF balance < 0 THEN -magnitude ELSE magnitude
<1>1. signed = balance
  BY I64MaxAssumption DEF I64MaxAssumption, AbsValue, I64Min
<1>2. IntoBvk([v |-> v, r |-> r], balance) = [[v |-> v, r |-> r] EXCEPT !.v = @ - signed]
  BY DEF IntoBvk
<1> HIDE DEF signed
<1>3. QED
  BY <1>1, <1>2

\* What BuiltBalanceIsNet and BindingKeysAgree say of a bundle built from
\* two lists
Balanced(bundle, ss, os) ==
  /\ bundle.value_balance = TotalOf(Values(ss) \o NegateAll(Values(os)))
  /\ bundle.bsk # <<>> =>
       BindingVk(bundle.bsk[1]) = IntoBvk(NetCommitment(bundle), bundle.value_balance)

\* Both finishers report the net value of the requests, and the key made from
\* the trapdoors is what the commitments leave when the balance is taken off.
LEMMA BuiltBalances ==
  ASSUME NEW type, NEW ss \in Seq(SpendInfos), NEW os \in Seq(OutputInfos),
         NEW b \in PreparedBundles(type, ss, os),
         NEW bundle, bundle = Unauthorized(b) \/ bundle = Pczt(b)
  PROVE  Balanced(bundle, ss, os)
<1> DEFINE in == SumFunction(Values(b.spends))
           out == SumFunction(Values(b.outputs))
           bsk == TrapdoorSum(b.spend_rcvs) - TrapdoorSum(b.output_rcvs)
<1>1. /\ bundle.value_balance = TotalOf(BalanceTerms(b))
      /\ bundle.spend_cvs = Cvs(b.spends, b.spend_rcvs)
      /\ bundle.output_cvs = Cvs(b.outputs, b.output_rcvs)
      /\ bundle.bsk = <<>> \/ bundle.bsk = <<bsk>>
  BY DEF Unauthorized, Pczt, Described
<1>2. /\ Values(b.spends) \in Seq(Int) /\ Values(b.outputs) \in Seq(Int)
      /\ TotalOf(BalanceTerms(b)) = in - out
      /\ TotalOf(BalanceTerms(b)) = TotalOf(Values(ss) \o NegateAll(Values(os)))
  BY PreparedKeepsSum
<1>3. in \in Int /\ out \in Int
  BY <1>2, NetIsDifference
<1>4. /\ b.spend_rcvs = [i \in DOMAIN b.spends |-> b.spend_rcvs[i]]
      /\ b.output_rcvs = [j \in DOMAIN b.outputs |-> b.output_rcvs[j]]
  BY TrapdoorsFit
<1>5. /\ CommitmentSum(bundle.spend_cvs) = [v |-> in, r |-> TrapdoorSum(b.spend_rcvs)]
      /\ CommitmentSum(bundle.output_cvs) = [v |-> out, r |-> TrapdoorSum(b.output_rcvs)]
  BY <1>1, <1>4, SumOfCvs
<1> HIDE DEF in, out
<1>6. NetCommitment(bundle) = [v |-> in - out, r |-> bsk]
  BY <1>5 DEF NetCommitment, CommitmentDiff
<1> HIDE DEF bsk
<1>7. IntoBvk(NetCommitment(bundle), in - out) = [v |-> (in - out) - (in - out), r |-> bsk]
  <2>1. in - out \in Int
    BY <1>3
  <2>2. QED
    BY <1>6, <2>1, IntoBvkSubtracts
<1>8. (in - out) - (in - out) = 0
  BY <1>3
<1>9. BindingVk(bsk) = IntoBvk(NetCommitment(bundle), in - out)
  BY <1>7, <1>8 DEF BindingVk
<1>10. QED
  BY <1>1, <1>2, <1>9 DEF Balanced

-----------------------------------------------------------------------------
(* The inductive invariant                                                  *)

\* A new builder satisfies the invariant.
LEMMA InitIInv == Init => IInv
<1> SUFFICES ASSUME Init PROVE IInv
  OBVIOUS
<1>1. 0 \in I128
  BY I64MaxAssumption DEF I64MaxAssumption, I128, I128Max
<1>2. TypeOK
  BY <1>1, BuilderAssumption DEF BuilderAssumption, Init, TypeOK, Results
<1>3. SpendsAcceptable
  BY DEF Init, SpendsAcceptable, StructureError
<1>4. ValuedSpendsAnchored
  BY DEF Init, ValuedSpendsAnchored
<1>5. QED
  BY <1>2, <1>3, <1>4 DEF IInv, Init

\* An error that is not a wrong key
Reported == Results \ {"WrongSpendingKey"}

\* The running balance stays within an i128 whatever is added to it.
LEMMA AccumulateStaysInRange ==
  ASSUME value_balance \in I128, NEW sum \in Int, NEW error \in Reported,
         Accumulate(sum, error)
  PROVE  value_balance' \in I128 /\ result' \in Reported
<1>1. \A v \in I64 : v \in I128
  BY I64MaxAssumption DEF I64MaxAssumption, I64, I64Min, I128, I128Max
<1>2. "Ok" \in Reported /\ "InvalidAmount" \in Reported
  BY DEF Reported, Results
<1>3. QED
  BY <1>1, <1>2 DEF Accumulate

\* The structure checks in a form without cases
LEMMA StructureOk ==
  ASSUME NEW type, NEW a, NEW ss
  PROVE  /\ StructureError(type, a, ss) = "Ok" <=>
              /\ type = "Coinbase" => ss = <<>>
              /\ type # "Coinbase" => \A i \in DOMAIN ss : HasMatchingAnchor(ss[i], a)
         /\ StructureError(type, a, ss) \in Reported
<1>1. CASE type = "Coinbase"
  <2>1. CASE ss = <<>>
    BY <1>1, <2>1 DEF StructureError, Reported, Results
  <2>2. CASE ss # <<>>
    BY <1>1, <2>2 DEF StructureError, Reported, Results
  <2>3. QED
    BY <2>1, <2>2
<1>2. CASE type # "Coinbase"
  <2>1. CASE \A i \in DOMAIN ss : HasMatchingAnchor(ss[i], a)
    BY <1>2, <2>1 DEF StructureError, Reported, Results
  <2>2. CASE \E i \in DOMAIN ss : ~HasMatchingAnchor(ss[i], a)
    BY <1>2, <2>2 DEF StructureError, Reported, Results
  <2>3. QED
    BY <2>1, <2>2
<1>3. QED
  BY <1>1, <1>2

\* What add_spend refuses
LEMMA RefusalOk ==
  ASSUME NEW s
  PROVE  /\ SpendRefusal(s) = "Ok" <=>
              bundle_type # "Coinbase" /\ HasMatchingAnchor(s, anchor)
         /\ SpendRefusal(s) \in Reported
<1>1. CASE bundle_type = "Coinbase"
  BY <1>1 DEF SpendRefusal, Reported, Results
<1>2. CASE bundle_type # "Coinbase" /\ HasMatchingAnchor(s, anchor)
  BY <1>2 DEF SpendRefusal, Reported, Results
<1>3. CASE bundle_type # "Coinbase" /\ ~HasMatchingAnchor(s, anchor)
  BY <1>3 DEF SpendRefusal, Reported, Results
<1>4. QED
  BY <1>1, <1>2, <1>3

\* A request to spend is listed only if build will accept it.
LEMMA AddSpendIInv ==
  ASSUME IInv, NEW s \in SpendRequests, AddSpend(s)
  PROVE  IInv'
<1> USE DEF config
<1>1. /\ TypeOK /\ SpendsAcceptable /\ ValuedSpendsAnchored
      /\ phase = "open" /\ built = Nothing
      /\ UNCHANGED <<bundle_type, zip212_enforcement, anchor, outputs, phase, built>>
  BY DEF IInv, AddSpend
<1>2. value_balance' \in I128 /\ result' \in Reported
  <2>1. value_balance \in I128 /\ value_balance + s.value \in Int
    BY <1>1, BuilderAssumption, I64MaxAssumption
    DEF TypeOK, BuilderAssumption, I64MaxAssumption, I128, I128Max, U64, U64Max
  <2>2. "InvalidAmount" \in Reported
    BY DEF Reported, Results
  <2>3. CASE SpendRefusal(s) = "Ok"
    BY <2>1, <2>2, <2>3, AccumulateStaysInRange DEF AddSpend
  <2>4. CASE SpendRefusal(s) # "Ok"
    BY <2>1, <2>4, RefusalOk DEF AddSpend
  <2>5. QED
    BY <2>3, <2>4
<1>3. spends' \in Seq(SpendInfos)
  <2>1. spends \in Seq(SpendInfos) /\ SpendInfo(s) \in SpendInfos
    BY <1>1 DEF TypeOK, SpendInfos
  <2>2. QED
    BY <2>1 DEF AddSpend
<1>4. TypeOK'
  <2>1. calls' \in 0 .. MaxCalls
    BY <1>1, BuilderAssumption DEF TypeOK, AddSpend, BuilderAssumption
  <2>2. QED
    BY <1>1, <1>2, <1>3, <2>1 DEF TypeOK, Reported, SpendInfos
<1>5. SpendsAcceptable'
  <2>1. StructureError(bundle_type, anchor, spends) = "Ok"
    BY <1>1 DEF SpendsAcceptable
  <2>2. CASE result' # "Ok"
    BY <1>1, <2>1, <2>2 DEF AddSpend, SpendsAcceptable
  <2>3. CASE result' = "Ok"
    <3>1. spends' = Append(spends, SpendInfo(s))
      BY <2>3 DEF AddSpend
    <3>2. SpendRefusal(s) = "Ok"
      BY <2>3 DEF AddSpend
    <3>3. bundle_type # "Coinbase" /\ HasMatchingAnchor(SpendInfo(s), anchor)
      BY <3>2, RefusalOk DEF HasMatchingAnchor, SpendInfo
    <3>4. \A i \in DOMAIN spends : HasMatchingAnchor(spends[i], anchor)
      BY <2>1, <3>3, StructureOk
    <3>5. spends \in Seq(SpendInfos) /\ SpendInfo(s) \in SpendInfos
      BY <1>1 DEF TypeOK, SpendInfos
    <3>6. \A i \in DOMAIN spends' : HasMatchingAnchor(spends'[i], anchor)
      BY <3>1, <3>3, <3>4, <3>5
    <3>7. StructureError(bundle_type, anchor, spends') = "Ok"
      BY <3>3, <3>6, StructureOk
    <3>8. QED
      BY <1>1, <3>7 DEF SpendsAcceptable
  <2>4. QED
    BY <2>2, <2>3
<1>6. ValuedSpendsAnchored'
  BY <1>1 DEF ValuedSpendsAnchored
<1>7. QED
  BY <1>1, <1>4, <1>5, <1>6 DEF IInv

\* A request for an output leaves the spends alone.
LEMMA AddOutputIInv ==
  ASSUME IInv, NEW o \in OutputRequests, AddOutput(o)
  PROVE  IInv'
<1> USE DEF config
<1>1. /\ TypeOK /\ SpendsAcceptable /\ ValuedSpendsAnchored
      /\ phase = "open" /\ built = Nothing
      /\ UNCHANGED <<bundle_type, zip212_enforcement, anchor, spends, phase, built>>
  BY DEF IInv, AddOutput
<1>2. value_balance' \in I128 /\ result' \in Reported
  <2>1. value_balance \in I128 /\ value_balance - o.value \in Int
    BY <1>1, BuilderAssumption, I64MaxAssumption
    DEF TypeOK, BuilderAssumption, I64MaxAssumption, I128, I128Max, U64, U64Max
  <2>2. "InvalidAddress" \in Reported
    BY DEF Reported, Results
  <2>3. QED
    BY <2>1, <2>2, AccumulateStaysInRange DEF AddOutput
<1>3. outputs' \in Seq(OutputInfos)
  <2>1. outputs \in Seq(OutputInfos) /\ OutputInfo(o) \in OutputInfos
    BY <1>1 DEF TypeOK, OutputInfos
  <2>2. QED
    BY <2>1 DEF AddOutput
<1>4. TypeOK'
  <2>1. calls' \in 0 .. MaxCalls
    BY <1>1, BuilderAssumption DEF TypeOK, AddOutput, BuilderAssumption
  <2>2. QED
    BY <1>1, <1>2, <1>3, <2>1 DEF TypeOK, Reported, OutputInfos
<1>5. SpendsAcceptable'
  BY <1>1 DEF SpendsAcceptable
<1>6. ValuedSpendsAnchored'
  BY <1>1 DEF ValuedSpendsAnchored
<1>7. QED
  BY <1>1, <1>4, <1>5, <1>6 DEF IInv

\* The outcome of a call that uses the builder up: nothing and an error, or
\* a bundle prepared from lists that passed the structure checks.
Finished(ss, os) ==
  /\ result' \in Reported
  /\ \/ built' = Nothing
     \/ /\ StructureError(bundle_type, anchor, ss) = "Ok"
        /\ \E b \in PreparedBundles(bundle_type, ss, os) :
             built' = Unauthorized(b) \/ built' = Pczt(b)

\* The function bundle ends in such an outcome, and never in a wrong key.
LEMMA FinishBundleFinishes ==
  ASSUME NEW ss, NEW os, NEW extsks, NEW V, NEW SP,
         FinishBundle(ss, os, extsks, V, SP)
  PROVE  Finished(ss, os)
<1>1. /\ "Ok" \in Reported /\ "InvalidAmount" \in Reported
      /\ "MissingSpendingKey" \in Reported /\ "SpendProof" \in Reported
  BY DEF Reported, Results
<1>2. CASE StructureError(bundle_type, anchor, ss) # "Ok"
  BY <1>2, StructureOk DEF FinishBundle, Fail, Finished
<1>3. CASE StructureError(bundle_type, anchor, ss) = "Ok"
  <2>1. PICK b \in PreparedBundles(bundle_type, ss, os) :
          \/ Fail("InvalidAmount")
          \/ Fail(SpendsError(b, extsks, SP))
          \/ /\ result' = "Ok"
             /\ built' = IF b.spends = <<>> /\ b.outputs = <<>>
                         THEN Nothing ELSE Unauthorized(b)
    BY <1>3 DEF FinishBundle
  <2>2. SpendsError(b, extsks, SP) \in Reported
    BY <1>1, NoWrongKey
  <2>3. result' \in Reported
    BY <1>1, <2>1, <2>2 DEF Fail
  <2>4. built' = Nothing \/ built' = Unauthorized(b)
    BY <2>1 DEF Fail
  <2>5. QED
    BY <1>3, <2>3, <2>4 DEF Finished
<1>4. QED
  BY <1>2, <1>3

\* What build_for_pczt does ends in such an outcome.
LEMMA BuildForPcztFinishes ==
  ASSUME BuildForPczt
  PROVE  Finished(spends, outputs)
<1>1. /\ "Ok" \in Reported /\ "InvalidAmount" \in Reported
      /\ "PcztRequiresZip212" \in Reported
  BY DEF Reported, Results
<1>2. CASE zip212_enforcement # "On"
  BY <1>1, <1>2 DEF BuildForPczt, Fail, Finished
<1>3. CASE zip212_enforcement = "On"
  <2> DEFINE error == StructureError(bundle_type, anchor, spends)
  <2>1. PICK b \in PreparedBundles(bundle_type, spends, outputs) :
          IF error # "Ok" THEN Fail(error)
          ELSE IF ~PartialSumsFit(BalanceTerms(b)) THEN Fail("InvalidAmount")
          ELSE result' = "Ok" /\ built' = Pczt(b)
    BY <1>3 DEF BuildForPczt
  <2>2. error \in Reported
    BY StructureOk
  <2>3. CASE error # "Ok"
    BY <2>1, <2>2, <2>3 DEF Fail, Finished
  <2>4. CASE error = "Ok"
    <3>1. Fail("InvalidAmount") \/ (result' = "Ok" /\ built' = Pczt(b))
      BY <2>1, <2>4
    <3>2. QED
      BY <1>1, <2>4, <3>1 DEF Fail, Finished
  <2>5. QED
    BY <2>3, <2>4
<1>4. QED
  BY <1>2, <1>3

\* What is promised of a bundle that was built, for good
BuiltSound ==
  MetadataLocatesRequests /\ BundleShape /\ BuiltBalanceIsNet /\ BindingKeysAgree

\* Using the builder up establishes the invariant and the promises about
\* what was built, whatever they were before.
LEMMA ConsumedIsSound ==
  ASSUME TypeOK, Consume, spends' \in Seq(SpendInfos), outputs' \in Seq(OutputInfos),
         Finished(spends', outputs')
  PROVE  IInv' /\ BuiltSound'
<1>1. /\ bundle_type \in BundleTypes
      /\ phase' = "consumed"
      /\ UNCHANGED <<bundle_type, zip212_enforcement, anchor, value_balance, calls>>
  BY DEF TypeOK, Consume, config
<1>2. TypeOK'
  BY <1>1 DEF TypeOK, Finished, Reported, SpendInfos, OutputInfos
<1>3. SpendsAcceptable'
  BY <1>1 DEF SpendsAcceptable
<1>4. CASE built' = Nothing
  <2>1. ValuedSpendsAnchored' /\ BuiltSound'
    BY <1>4 DEF ValuedSpendsAnchored, BuiltSound, MetadataLocatesRequests, BundleShape,
                BuiltBalanceIsNet, BindingKeysAgree
  <2>2. QED
    BY <1>1, <1>2, <1>3, <2>1 DEF IInv
<1>5. CASE built' # Nothing
  <2>1. StructureError(bundle_type, anchor, spends') = "Ok"
    BY <1>5 DEF Finished
  <2>2. PICK b \in PreparedBundles(bundle_type, spends', outputs') :
          built' = Unauthorized(b) \/ built' = Pczt(b)
    BY <1>5 DEF Finished
  <2>3. ValuedSpendsAnchored'
    <3>1. \A i \in DOMAIN built'.anchors :
            built'.spend_cvs[i].v # 0 => built'.anchors[i] = anchor
      BY <2>1, <2>2, BuiltAnchored
    <3>2. QED
      BY <1>1, <3>1 DEF ValuedSpendsAnchored
  <2>4. MetadataLocatesRequests'
    <3>1. Locates(built', spends', outputs')
      BY <2>2, BuiltLocates
    <3>2. QED
      BY <3>1 DEF Locates, MetadataLocatesRequests
  <2>5. BundleShape'
    <3> DEFINE nSpends == Len(built'.nullifiers)
               nOutputs == Len(built'.cmus)
    <3>1. /\ nSpends = NumSpends(bundle_type, Len(spends'))
          /\ nOutputs = NumOutputs(bundle_type, Len(spends'), Len(outputs'))
      BY <2>2, BuiltCounts
    <3>2. Len(spends') \in Nat /\ Len(outputs') \in Nat /\ (spends' # <<>> <=> Len(spends') # 0)
      OBVIOUS
    <3>3. bundle_type = "Coinbase" => Len(spends') = 0
      BY <2>1, <3>2, StructureOk
    <3>4. /\ bundle_type = "Coinbase" => nSpends = 0 /\ nOutputs = Len(outputs')
          /\ bundle_type = "TransactionalRequired" => nSpends >= 1
          /\ bundle_type # "Coinbase" /\ nSpends + nOutputs > 0 => nOutputs >= 2
          /\ Len(spends') # 0 => nSpends = Len(spends')
          /\ Len(outputs') >= 2 => nOutputs = Len(outputs')
      BY <1>1, <3>1, <3>2, <3>3, CountsHaveShape
    <3>5. QED
      BY <1>1, <3>2, <3>4 DEF BundleShape
  <2>6. BuiltBalanceIsNet' /\ BindingKeysAgree'
    <3>1. Balanced(built', spends', outputs')
      BY <2>2, BuiltBalances
    <3>2. QED
      BY <3>1 DEF Balanced, BuiltBalanceIsNet, NetOfLists, BindingKeysAgree
  <2>7. QED
    BY <1>1, <1>2, <1>3, <2>3, <2>4, <2>5, <2>6 DEF IInv, BuiltSound
<1>6. QED
  BY <1>4, <1>5

\* The lists that the function bundle may be given are sequences.
LEMMA ListsAreSequences ==
  /\ \A ss \in SpendLists : ss \in Seq(SpendInfos)
  /\ \A os \in OutputLists : os \in Seq(OutputInfos)
<1>1. MaxListed \in Nat
  BY BuilderAssumption DEF BuilderAssumption
<1>2. ASSUME NEW S, NEW list \in BoundedSeq(S, MaxListed)
      PROVE  list \in Seq(S)
  <2>1. PICK m \in 0 .. MaxListed : list \in [1 .. m -> S]
    BY <1>2 DEF BoundedSeq, SeqOf
  <2>2. QED
    BY <1>1, <2>1
<1>3. QED
  BY <1>2 DEF SpendLists, OutputLists, SpendInfos, OutputInfos

\* A call that uses the builder up is sound, whatever lists it is given.
LEMMA ConsumingIsSound ==
  ASSUME TypeOK,
         \/ \E extsks \in ExtskSets, V \in ValueTypes, SP \in SpendProvers :
              Build(extsks, V, SP)
         \/ \E ss \in SpendLists, os \in OutputLists, extsks \in ExtskSets,
               V \in ValueTypes, SP \in SpendProvers :
              BundleFromLists(ss, os, extsks, V, SP)
         \/ BuildForPczt
  PROVE  IInv' /\ BuiltSound'
<1>1. spends \in Seq(SpendInfos) /\ outputs \in Seq(OutputInfos)
  BY DEF TypeOK, SpendInfos, OutputInfos
<1>2. ASSUME NEW extsks \in ExtskSets, NEW V \in ValueTypes, NEW SP \in SpendProvers,
             Build(extsks, V, SP)
      PROVE  Consume /\ UNCHANGED <<spends, outputs>> /\ Finished(spends, outputs)
  BY <1>2, FinishBundleFinishes DEF Build
<1>3. ASSUME NEW ss \in SpendLists, NEW os \in OutputLists, NEW extsks \in ExtskSets,
             NEW V \in ValueTypes, NEW SP \in SpendProvers,
             BundleFromLists(ss, os, extsks, V, SP)
      PROVE  Consume /\ spends' = ss /\ outputs' = os /\ Finished(ss, os)
  BY <1>3, FinishBundleFinishes DEF BundleFromLists
<1>4. ASSUME BuildForPczt
      PROVE  Consume /\ UNCHANGED <<spends, outputs>> /\ Finished(spends, outputs)
  BY <1>4, BuildForPcztFinishes DEF BuildForPczt
<1>5. /\ Consume
      /\ spends' \in Seq(SpendInfos) /\ outputs' \in Seq(OutputInfos)
      /\ Finished(spends', outputs')
  <2>1. CASE \E extsks \in ExtskSets, V \in ValueTypes, SP \in SpendProvers :
               Build(extsks, V, SP)
    BY <1>1, <1>2, <2>1
  <2>2. CASE \E ss \in SpendLists, os \in OutputLists, extsks \in ExtskSets,
                V \in ValueTypes, SP \in SpendProvers :
               BundleFromLists(ss, os, extsks, V, SP)
    BY <1>3, <2>2, ListsAreSequences
  <2>3. CASE BuildForPczt
    BY <1>1, <1>4, <2>3
  <2>4. QED
    BY <2>1, <2>2, <2>3
<1>6. QED
  BY <1>5, ConsumedIsSound

\* Every step keeps the invariant.
LEMMA NextIInv == IInv /\ [Next]_vars => IInv'
<1> SUFFICES ASSUME IInv, [Next]_vars PROVE IInv'
  OBVIOUS
<1>1. ASSUME NEW s \in SpendRequests, AddSpend(s) PROVE IInv'
  BY <1>1, AddSpendIInv
<1>2. ASSUME NEW o \in OutputRequests, AddOutput(o) PROVE IInv'
  BY <1>2, AddOutputIInv
<1>3. ASSUME NEW extsks \in ExtskSets, NEW V \in ValueTypes, NEW SP \in SpendProvers,
             Build(extsks, V, SP)
      PROVE  IInv'
  BY <1>3, ConsumingIsSound DEF IInv
<1>4. ASSUME NEW ss \in SpendLists, NEW os \in OutputLists, NEW extsks \in ExtskSets,
             NEW V \in ValueTypes, NEW SP \in SpendProvers,
             BundleFromLists(ss, os, extsks, V, SP)
      PROVE  IInv'
  BY <1>4, ConsumingIsSound DEF IInv
<1>5. CASE BuildForPczt
  BY <1>5, ConsumingIsSound DEF IInv
<1>6. CASE UNCHANGED vars
  BY <1>6 DEF vars, IInv, TypeOK, SpendsAcceptable, ValuedSpendsAnchored
<1>7. QED
  BY <1>1, <1>2, <1>3, <1>4, <1>5, <1>6 DEF Next

\* What was built keeps its promises: while the builder is open there is
\* nothing built, and afterwards nothing changes.
LEMMA NextBuilt == IInv /\ BuiltSound /\ [Next]_vars => BuiltSound'
<1> SUFFICES ASSUME IInv, BuiltSound, [Next]_vars PROVE BuiltSound'
  OBVIOUS
<1>1. ASSUME built' = Nothing
      PROVE  BuiltSound'
  BY <1>1 DEF BuiltSound, MetadataLocatesRequests, BundleShape, BuiltBalanceIsNet,
              BindingKeysAgree
<1>2. ASSUME NEW s \in SpendRequests, AddSpend(s)
      PROVE  built' = Nothing
  BY <1>2 DEF AddSpend, IInv
<1>3. ASSUME NEW o \in OutputRequests, AddOutput(o)
      PROVE  built' = Nothing
  BY <1>3 DEF AddOutput, IInv
<1>4. ASSUME \/ \E extsks \in ExtskSets, V \in ValueTypes, SP \in SpendProvers :
                  Build(extsks, V, SP)
             \/ \E ss \in SpendLists, os \in OutputLists, extsks \in ExtskSets,
                   V \in ValueTypes, SP \in SpendProvers :
                  BundleFromLists(ss, os, extsks, V, SP)
             \/ BuildForPczt
      PROVE  BuiltSound'
  BY <1>4, ConsumingIsSound DEF IInv
<1>5. CASE UNCHANGED vars
  BY <1>5 DEF vars, BuiltSound, MetadataLocatesRequests, BundleShape, BuiltBalanceIsNet,
              NetOfLists, BindingKeysAgree
<1>6. QED
  BY <1>1, <1>2, <1>3, <1>4, <1>5 DEF Next

\* Nothing is built at first.
LEMMA InitBuilt == Init => BuiltSound
BY DEF Init, BuiltSound, MetadataLocatesRequests, BundleShape, BuiltBalanceIsNet,
       BindingKeysAgree

-----------------------------------------------------------------------------
(* The running balance                                                      *)

\* A request that is listed moves the net of the lists by its value.
LEMMA ListedMovesNet ==
  ASSUME NEW ss \in Seq(SpendInfos), NEW os \in Seq(OutputInfos)
  PROVE  /\ TotalOf(Values(ss) \o NegateAll(Values(os))) \in Int
         /\ \A s \in SpendInfos :
              TotalOf(Values(Append(ss, s)) \o NegateAll(Values(os)))
                = TotalOf(Values(ss) \o NegateAll(Values(os))) + s.value
         /\ \A o \in OutputInfos :
              TotalOf(Values(ss) \o NegateAll(Values(Append(os, o))))
                = TotalOf(Values(ss) \o NegateAll(Values(os))) - o.value
<1>1. Values(ss) \in Seq(Int) /\ Values(os) \in Seq(Int)
  BY ValuesAreIntegers
<1>2. ASSUME NEW S, NEW infos \in Seq(S), Values(infos) \in Seq(Int), NEW x \in S,
             x.value \in Int
      PROVE  /\ Values(Append(infos, x)) \in Seq(Int)
             /\ SumFunction(Values(Append(infos, x))) = SumFunction(Values(infos)) + x.value
  <2>1. Values(Append(infos, x)) = Append(Values(infos), x.value)
    <3>1. /\ DOMAIN infos = 1 .. Len(infos) /\ Len(infos) \in Nat
          /\ DOMAIN Values(infos) = 1 .. Len(infos)
          /\ \A i \in 1 .. Len(infos) : Values(infos)[i] = infos[i].value
      BY DEF Values
    <3>2. Len(Values(infos)) = Len(infos)
      BY <1>2, <3>1
    <3>3. /\ DOMAIN Append(infos, x) = 1 .. Len(infos) + 1
          /\ \A i \in 1 .. Len(infos) : Append(infos, x)[i] = infos[i]
          /\ Append(infos, x)[Len(infos) + 1] = x
      OBVIOUS
    <3>4. /\ Append(Values(infos), x.value) \in Seq(Int)
          /\ DOMAIN Append(Values(infos), x.value) = 1 .. Len(infos) + 1
          /\ \A i \in 1 .. Len(infos) : Append(Values(infos), x.value)[i] = Values(infos)[i]
          /\ Append(Values(infos), x.value)[Len(infos) + 1] = x.value
      BY <1>2, <3>2
    <3>5. \A i \in 1 .. Len(infos) + 1 :
            Append(infos, x)[i].value = Append(Values(infos), x.value)[i]
      BY <3>1, <3>3, <3>4
    <3>6. Append(Values(infos), x.value)
            = [i \in 1 .. Len(infos) + 1 |-> Append(Values(infos), x.value)[i]]
      BY <3>4
    <3>7. QED
      BY <3>3, <3>5, <3>6 DEF Values
  <2>2. QED
    BY <1>2, <2>1, SumOfAppend
<1>3. /\ \A s \in SpendInfos : s.value \in Int
      /\ \A o \in OutputInfos : o.value \in Int
  BY BuilderAssumption, I64MaxAssumption
  DEF BuilderAssumption, I64MaxAssumption, SpendInfos, SpendInfo, OutputInfos, OutputInfo,
      U64, U64Max
<1>4. /\ SumFunction(Values(ss)) \in Int /\ SumFunction(Values(os)) \in Int
      /\ TotalOf(Values(ss) \o NegateAll(Values(os)))
           = SumFunction(Values(ss)) - SumFunction(Values(os))
  BY <1>1, NetIsDifference
<1>5. ASSUME NEW s \in SpendInfos
      PROVE  TotalOf(Values(Append(ss, s)) \o NegateAll(Values(os)))
               = TotalOf(Values(ss) \o NegateAll(Values(os))) + s.value
  <2>1. /\ Values(Append(ss, s)) \in Seq(Int)
        /\ SumFunction(Values(Append(ss, s))) = SumFunction(Values(ss)) + s.value
    BY <1>1, <1>2, <1>3
  <2>2. TotalOf(Values(Append(ss, s)) \o NegateAll(Values(os)))
          = SumFunction(Values(Append(ss, s))) - SumFunction(Values(os))
    BY <1>1, <2>1, NetIsDifference
  <2>3. s.value \in Int
    BY <1>3
  <2>4. QED
    BY <1>4, <2>1, <2>2, <2>3
<1>6. ASSUME NEW o \in OutputInfos
      PROVE  TotalOf(Values(ss) \o NegateAll(Values(Append(os, o))))
               = TotalOf(Values(ss) \o NegateAll(Values(os))) - o.value
  <2>1. /\ Values(Append(os, o)) \in Seq(Int)
        /\ SumFunction(Values(Append(os, o))) = SumFunction(Values(os)) + o.value
    BY <1>1, <1>2, <1>3
  <2>2. TotalOf(Values(ss) \o NegateAll(Values(Append(os, o))))
          = SumFunction(Values(ss)) - SumFunction(Values(Append(os, o)))
    BY <1>1, <2>1, NetIsDifference
  <2>3. o.value \in Int
    BY <1>3
  <2>4. QED
    BY <1>4, <2>1, <2>2, <2>3
<1>7. QED
  BY <1>4, <1>5, <1>6

\* Outside a call that returns InvalidAmount, balance and lists move together.
LEMMA StepKeepsDrift ==
  ASSUME TypeOK, [Next]_vars, phase' = "open", result' # "InvalidAmount"
  PROVE  Drift' = Drift
<1>1. /\ spends \in Seq(SpendInfos) /\ outputs \in Seq(OutputInfos)
      /\ value_balance \in Int
  BY I64MaxAssumption DEF I64MaxAssumption, TypeOK, SpendInfos, OutputInfos, I128, I128Max
<1>2. NetOfLists \in Int
  BY <1>1, ListedMovesNet DEF NetOfLists
<1>3. ASSUME NEW s \in SpendRequests, AddSpend(s)
      PROVE  Drift' = Drift
  <2>1. SpendInfo(s) \in SpendInfos /\ SpendInfo(s).value = s.value /\ s.value \in Int
    <3>1. SpendInfo(s) \in SpendInfos
      BY DEF SpendInfos
    <3>2. SpendInfo(s).value = s.value
      BY DEF SpendInfo
    <3>3. s.value \in Int
      BY BuilderAssumption, I64MaxAssumption
      DEF BuilderAssumption, I64MaxAssumption, U64, U64Max
    <3>4. QED
      BY <3>1, <3>2, <3>3
  <2>2. outputs' = outputs
    BY <1>3 DEF AddSpend
  <2>3. CASE result' = "Ok"
    <3>1. value_balance' = value_balance + s.value /\ spends' = Append(spends, SpendInfo(s))
      BY <1>3, <2>3 DEF AddSpend, Accumulate
    <3>2. NetOfLists' = NetOfLists + s.value
      BY <1>1, <2>1, <2>2, <3>1, ListedMovesNet DEF NetOfLists
    <3>3. QED
      BY <1>1, <1>2, <2>1, <3>1, <3>2 DEF Drift
  <2>4. CASE result' # "Ok"
    BY <1>3, <2>2, <2>4 DEF AddSpend, Accumulate, Drift, NetOfLists
  <2>5. QED
    BY <2>3, <2>4
<1>4. ASSUME NEW o \in OutputRequests, AddOutput(o)
      PROVE  Drift' = Drift
  <2>1. OutputInfo(o) \in OutputInfos /\ OutputInfo(o).value = o.value /\ o.value \in Int
    <3>1. OutputInfo(o) \in OutputInfos
      BY DEF OutputInfos
    <3>2. OutputInfo(o).value = o.value
      BY DEF OutputInfo
    <3>3. o.value \in Int
      BY BuilderAssumption, I64MaxAssumption
      DEF BuilderAssumption, I64MaxAssumption, U64, U64Max
    <3>4. QED
      BY <3>1, <3>2, <3>3
  <2>2. spends' = spends
    BY <1>4 DEF AddOutput
  <2>3. CASE result' = "Ok"
    <3>1. value_balance' = value_balance - o.value /\ outputs' = Append(outputs, OutputInfo(o))
      BY <1>4, <2>3 DEF AddOutput, Accumulate
    <3>2. NetOfLists' = NetOfLists - o.value
      BY <1>1, <2>1, <2>2, <3>1, ListedMovesNet DEF NetOfLists
    <3>3. QED
      BY <1>1, <1>2, <2>1, <3>1, <3>2 DEF Drift
  <2>4. CASE result' # "Ok"
    BY <1>4, <2>2, <2>4 DEF AddOutput, Accumulate, Drift, NetOfLists
  <2>5. QED
    BY <2>3, <2>4
<1>5. CASE UNCHANGED vars
  BY <1>5 DEF vars, Drift, NetOfLists
<1>6. QED
  BY <1>3, <1>4, <1>5 DEF Next, Build, BundleFromLists, BuildForPczt, Consume

-----------------------------------------------------------------------------
(* The theorems                                                             *)

\* The builder's state is well typed and build never meets a key that does
\* not fit; what an open builder has accepted, build accepts; and whatever is
\* built, through build, build_for_pczt or the function bundle on any lists,
\* anchors each spend with a value where the builder promised.
THEOREM InductiveInvariant == Spec => []IInv
<1>1. Init => IInv
  BY InitIInv
<1>2. IInv /\ [Next]_vars => IInv'
  BY NextIInv
<1>3. QED
  BY <1>1, <1>2, PTL DEF Spec

\* For any number of requests and dummies, any shuffle and any trapdoors, the
\* metadata of what is built gives each request its own position, where its
\* description is, and every position not given is a dummy of value zero.
THEOREM RequestsLocated == Spec => []MetadataLocatesRequests
<1>1. BuiltSound => MetadataLocatesRequests
  BY DEF BuiltSound
<1>2. QED
  BY <1>1, InitIInv, InitBuilt, NextIInv, NextBuilt, PTL DEF Spec

\* For any number of requests, dummies pad a bundle only up to the minimum of
\* its type, and a coinbase bundle has no spends and no padding.
THEOREM ShapeKept == Spec => []BundleShape
<1>1. BuiltSound => BundleShape
  BY DEF BuiltSound
<1>2. QED
  BY <1>1, InitIInv, InitBuilt, NextIInv, NextBuilt, PTL DEF Spec

\* For any requests and any shuffle, the balance of what is built is the net
\* value of the requests: the dummies add nothing, and no request is added
\* twice or left out.
THEOREM BalanceIsNet == Spec => []BuiltBalanceIsNet
<1>1. BuiltSound => BuiltBalanceIsNet
  BY DEF BuiltSound
<1>2. QED
  BY <1>1, InitIInv, InitBuilt, NextIInv, NextBuilt, PTL DEF Spec

\* The binding key that the signer makes from the trapdoors verifies against
\* what the verifier makes of the commitments and the balance, for any values
\* and trapdoors and whatever the sign of the balance.
THEOREM KeysAgree == Spec => []BindingKeysAgree
<1>1. BuiltSound => BindingKeysAgree
  BY DEF BuiltSound
<1>2. QED
  BY <1>1, InitIInv, InitBuilt, NextIInv, NextBuilt, PTL DEF Spec

\* For any requests in any order, the running balance leaves the net of the
\* lists only in a call that returns InvalidAmount.
THEOREM DriftReported == Spec => DriftOnlyOnInvalidAmount
<1>1. IInv /\ [Next]_vars => (phase' = "open" /\ result' # "InvalidAmount" => Drift' = Drift)
  BY StepKeepsDrift DEF IInv
<1>2. IInv /\ [Next]_vars => [phase' = "open" /\ result' # "InvalidAmount" => Drift' = Drift]_vars
  BY <1>1
<1>3. QED
  BY <1>2, InitIInv, NextIInv, PTL DEF Spec, DriftOnlyOnInvalidAmount

=============================================================================
