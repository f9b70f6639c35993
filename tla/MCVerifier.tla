----------------------------- MODULE MCVerifier -----------------------------
(***************************************************************************)
(* Bundles for the verifiers' small instances: valid ones, among them one  *)
(* with the least balance an i64 can hold, and for each check one that     *)
(* fails it.                                                               *)
(***************************************************************************)
EXTENDS SaplingValue, SequencesExt

\* A point other than a value commitment, by its name
Point(name) == [point |-> name]

MCSmallOrder == {Point("identity")}
MCMalformedPoints == {Point("garbage")}
MCMalformedProofs == {<<"garbage">>}

Spend(value, rcv, rk, h) ==
  LET cv == Derive(value, rcv)
  IN  [cv |-> cv, anchor |-> "anchor", nullifier |-> "nf", rk |-> rk,
       sig |-> [vk |-> rk, msg |-> h], zkproof |-> <<rk, cv, "anchor", "nf">>]

Output(value, rcv, epk) ==
  LET cv == Derive(value, rcv)
  IN  [cv |-> cv, cmu |-> "cmu", epk |-> epk, zkproof |-> <<cv, epk, "cmu">>]

\* A bundle with the balance and the binding signature it should have
Balanced(ss, os, h) ==
  [spends |-> ss, outputs |-> os,
   value_balance |-> SumFunction([i \in DOMAIN ss |-> ss[i].cv.v])
                       - SumFunction([j \in DOMAIN os |-> os[j].cv.v]),
   binding_sig |->
     [vk |-> BindingVk(SumFunction([i \in DOMAIN ss |-> ss[i].cv.r])
                         - SumFunction([j \in DOMAIN os |-> os[j].cv.r])),
      msg |-> h]]

SpendA == Spend(1, 3, Point("rk1"), "h1")
SpendB == Spend(1, 5, Point("rk2"), "h1")
OutputA == Output(1, 2, Point("epk1"))
OutputB == Output(1, 4, Point("epk2"))

Payment == Balanced(<<SpendA, SpendB>>, <<OutputA, OutputB>>, "h1")

ValidBundles ==
  {Payment,
   Balanced(<<SpendA>>, <<>>, "h1"),
   Balanced(<<>>, <<OutputA, OutputB>>, "h1"),
   Balanced(<<Spend(1, 3, Point("rk1"), "h2")>>, <<OutputB>>, "h2")}

FaultySpends ==
  {[SpendB EXCEPT !.sig.msg = "h2"],
   [SpendB EXCEPT !.zkproof[1] = Point("rk1")],
   [SpendB EXCEPT !.anchor = "another anchor"],
   [SpendB EXCEPT !.nullifier = "another nf"],
   [SpendB EXCEPT !.zkproof = <<"garbage">>],
   Spend(1, 5, Point("identity"), "h1")}

FaultyOutputs ==
  {[OutputB EXCEPT !.zkproof[1] = OutputA.cv],
   [OutputB EXCEPT !.cmu = "another cmu"],
   [OutputB EXCEPT !.zkproof = <<"garbage">>],
   Output(1, 4, Point("garbage")),
   Output(1, 4, Point("identity"))}

InvalidBundles ==
  {Balanced(<<SpendA, s>>, <<OutputA>>, "h1") : s \in FaultySpends}
    \cup {Balanced(<<SpendA>>, <<OutputA, o>>, "h1") : o \in FaultyOutputs}
    \cup {[Payment EXCEPT !.value_balance = 1], [Payment EXCEPT !.binding_sig.msg = "h2"]}

MCBundles == ValidBundles \cup InvalidBundles
=============================================================================
