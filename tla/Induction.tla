------------------------------ MODULE Induction ------------------------------
(***************************************************************************)
(* Induction over natural numbers and finite sets, and what it gives for   *)
(* the sums of the community modules, division and the powers of two:      *)
(* facts about data that the other proof modules share.                    *)
(*                                                                         *)
(* The induction theorems of the library take the formula to prove as an   *)
(* operator.  Here it is a set instead, of the numbers or of the sets that *)
(* have the property, and the base of it all is that the order of the      *)
(* natural numbers is well founded.                                        *)
(***************************************************************************)
EXTENDS Integers, Sequences, FiniteSets, Functions, FiniteSetTheorems,
        WellFoundedInduction, TLAPS

\* A set of natural numbers that is not empty has a least one.
LEMMA LeastExists ==
  ASSUME NEW S \in SUBSET Nat, S # {}
  PROVE  \E i \in S : \A j \in S : i <= j
<1> DEFINE R == OpToRel(<, Nat)
<1>1. IsWellFoundedOn(R, Nat)
  BY NatLessThanWellFounded
<1>2. \A i, j \in Nat : j < i => <<j, i>> \in R
  BY DEF OpToRel
<1> HIDE DEF R
<1>3. PICK i \in S : \A j \in S : ~(<<j, i>> \in R)
  BY <1>1, WFMin
<1>4. \A j \in S : i <= j
  <2> TAKE j \in S
  <2>1. i \in Nat /\ j \in Nat
    OBVIOUS
  <2>2. ~(j < i)
    BY <1>2, <1>3, <2>1
  <2>3. QED
    BY <2>1, <2>2
<1>5. QED
  BY <1>4

\* Induction over the natural numbers, for a set of them.
LEMMA SetInduction ==
  ASSUME NEW S, 0 \in S, \A n \in Nat : n \in S => n + 1 \in S
  PROVE  \A n \in Nat : n \in S
<1> SUFFICES ASSUME NEW n \in Nat, n \notin S PROVE FALSE
  OBVIOUS
<1> DEFINE Missing == {m \in Nat : m \notin S}
<1>1. Missing # {} /\ Missing \in SUBSET Nat
  OBVIOUS
<1> HIDE DEF Missing
<1>2. PICK m \in Missing : \A k \in Missing : m <= k
  BY <1>1, LeastExists
<1>3. m \in Nat /\ m \notin S
  BY <1>2 DEF Missing
<1>4. m # 0
  BY <1>3
<1>5. m - 1 \in Nat /\ ~(m <= m - 1)
  BY <1>3, <1>4
<1>6. m - 1 \in S
  BY <1>2, <1>5 DEF Missing
<1>7. (m - 1) + 1 = m
  BY <1>3
<1>8. QED
  BY <1>3, <1>5, <1>6, <1>7

\* A family of subsets of a finite set that holds the empty set, and with a
\* set every set that has one element more, holds them all.
LEMMA FiniteInduction ==
  ASSUME NEW S, IsFiniteSet(S), NEW F, {} \in F,
         \A T \in SUBSET S : \A x \in S \ T : T \in F => T \cup {x} \in F
  PROVE  \A T \in SUBSET S : T \in F
<1> DEFINE P == {n \in Nat : \A T \in SUBSET S : Cardinality(T) = n => T \in F}
<1>1. \A T \in SUBSET S : IsFiniteSet(T) /\ Cardinality(T) \in Nat
  BY FS_Subset, FS_CardinalityType
<1>2. 0 \in P
  BY <1>1, FS_EmptySet
<1>3. ASSUME NEW n \in Nat, n \in P
      PROVE  n + 1 \in P
  <2>1. ASSUME NEW T \in SUBSET S, Cardinality(T) = n + 1
        PROVE  T \in F
    <3>1. T # {}
      BY <1>1, <2>1, FS_EmptySet
    <3>2. PICK x \in T : TRUE
      BY <3>1
    <3>3. Cardinality(T \ {x}) = n
      <4>1. IsFiniteSet(T)
        BY <1>1
      <4>2. Cardinality(T \ {x}) = Cardinality(T) - 1
        BY <3>2, <4>1, FS_RemoveElement
      <4>3. QED
        BY <1>3, <2>1, <4>2
    <3>4. T \ {x} \in F
      BY <1>3, <3>3
    <3>5. (T \ {x}) \cup {x} \in F
      BY <3>2, <3>4
    <3>6. (T \ {x}) \cup {x} = T
      BY <3>2
    <3>7. QED
      BY <3>5, <3>6
  <2>2. QED
    BY <2>1
<1> HIDE DEF P
<1>4. \A n \in Nat : n \in P
  BY <1>2, <1>3, SetInduction
<1>5. QED
  BY <1>1, <1>4 DEF P

-----------------------------------------------------------------------------
(* Division                                                                 *)

\* A number is its quotient times the divisor and its remainder.
LEMMA Division ==
  ASSUME NEW p \in Nat, NEW c \in Nat \ {0}
  PROVE  /\ p \div c \in Nat /\ p % c \in 0 .. c - 1
         /\ p = c * (p \div c) + (p % c)
OBVIOUS

\* They are the only such numbers.
LEMMA DivisionUnique ==
  ASSUME NEW c \in Nat \ {0}, NEW q \in Nat, NEW r \in 0 .. c - 1, NEW p \in Nat, p = c * q + r
  PROVE  p \div c = q /\ p % c = r
<1> DEFINE q2 == p \div c
           r2 == p % c
<1>1. q2 \in Nat /\ r2 \in 0 .. c - 1 /\ p = c * q2 + r2
  BY Division
<1> HIDE DEF q2, r2
<1>2. c * q2 + r2 = c * q + r
  BY <1>1
<1>3. ASSUME NEW x \in Nat, NEW y \in Nat, NEW s \in 0 .. c - 1, NEW t \in 0 .. c - 1, x < y
      PROVE  c * x + s < c * y + t
  <2>1. PICK z \in Nat : y = x + 1 + z
    <3>1. y - x - 1 \in Nat /\ y = x + 1 + (y - x - 1)
      BY <1>3
    <3>2. QED
      BY <3>1
  <2>2. c * y = c * x + c + c * z
    BY <2>1
  <2>3. c * x \in Nat /\ c * z \in Nat
    OBVIOUS
  <2>4. QED
    BY <2>2, <2>3
<1>4. ~(q2 < q) /\ ~(q < q2)
  <2>1. c * q2 + r2 \in Nat
    BY <1>1
  <2>2. QED
    BY <1>1, <1>2, <1>3, <2>1
<1>5. q2 = q
  BY <1>1, <1>4
<1>6. r2 = r
  BY <1>1, <1>2, <1>5
<1>7. QED
  BY <1>5, <1>6 DEF q2, r2

-----------------------------------------------------------------------------
(* Sums                                                                     *)

Chosen(T) == CHOOSE x \in T : TRUE

\* A function g on sets adds fun up over them, one chosen element at a time.
AddsUp(g, fun, Sets) ==
  g = [T \in Sets |-> IF T = {} THEN 0
                      ELSE fun[Chosen(T)] + g[T \ {Chosen(T)}]]

\* The sum of the community modules is the value on S of such a function.
LEMMA SumIsChosen ==
  ASSUME NEW fun, NEW S
  PROVE  SumFunctionOnSet(fun, S) = (CHOOSE g : AddsUp(g, fun, SUBSET S))[S]
BY DEF SumFunctionOnSet, FoldFunctionOnSet, MapThenFoldSet, AddsUp, Chosen

\* There is such a function, on the subsets of any finite set.
LEMMA SumExists ==
  ASSUME NEW fun, NEW S, IsFiniteSet(S)
  PROVE  \E g : AddsUp(g, fun, SUBSET S)
<1> DEFINE Small(n) == {T \in SUBSET S : Cardinality(T) <= n}
           P == {n \in Nat : \E g : AddsUp(g, fun, Small(n))}
<1>1. \A T \in SUBSET S : /\ IsFiniteSet(T) /\ Cardinality(T) \in Nat
                          /\ Cardinality(T) = 0 <=> T = {}
  BY FS_Subset, FS_CardinalityType, FS_EmptySet
<1>2. 0 \in P
  <2>1. \A T \in Small(0) : T = {}
    BY <1>1
  <2>2. AddsUp([T \in Small(0) |-> 0], fun, Small(0))
    BY <2>1 DEF AddsUp
  <2>3. QED
    BY <2>2
<1>3. ASSUME NEW n \in Nat, n \in P
      PROVE  n + 1 \in P
  <2>1. PICK g : AddsUp(g, fun, Small(n))
    BY <1>3
  <2> DEFINE Value(T) == IF T = {} THEN 0 ELSE fun[Chosen(T)] + g[T \ {Chosen(T)}]
             h == [T \in Small(n + 1) |-> Value(T)]
  <2>2. \A T \in Small(n) : g[T] = Value(T)
    BY <2>1 DEF AddsUp
  <2>3. \A T \in Small(n) : T \in Small(n + 1) /\ h[T] = g[T]
    <3>1. \A T \in Small(n) : T \in Small(n + 1)
      BY <1>1
    <3> HIDE DEF Value, Small
    <3>2. QED
      BY <2>2, <3>1
  <2>4. ASSUME NEW T \in Small(n + 1), T # {}
        PROVE  h[T] = fun[Chosen(T)] + h[T \ {Chosen(T)}]
    <3>1. Chosen(T) \in T
      BY <2>4 DEF Chosen
    <3>2. IsFiniteSet(T)
      BY <1>1
    <3>3. Cardinality(T \ {Chosen(T)}) = Cardinality(T) - 1
      BY <3>1, <3>2, FS_RemoveElement
    <3>4. T \ {Chosen(T)} \in Small(n)
      BY <1>1, <3>3
    <3>5. h[T] = Value(T)
      BY Zenon
    <3>6. h[T \ {Chosen(T)}] = g[T \ {Chosen(T)}]
      BY <2>3, <3>4
    <3> HIDE DEF h
    <3>7. QED
      BY <2>4, <3>5, <3>6
  <2>5. AddsUp(h, fun, Small(n + 1))
    <3>1. \A T \in Small(n + 1) :
            h[T] = IF T = {} THEN 0 ELSE fun[Chosen(T)] + h[T \ {Chosen(T)}]
      <4>1. \A T \in Small(n + 1) : T = {} => h[T] = 0
        OBVIOUS
      <4> HIDE DEF h, Small
      <4>2. QED
        BY <2>4, <4>1
    <3>2. h = [T \in Small(n + 1) |-> h[T]]
      OBVIOUS
    <3> HIDE DEF h, Small
    <3>3. QED
      BY <3>1, <3>2 DEF AddsUp
  <2>6. \E f : AddsUp(f, fun, Small(n + 1))
    <3> HIDE DEF h, Small
    <3>1. QED
      BY <2>5
  <2>7. n + 1 \in Nat
    OBVIOUS
  <2> HIDE DEF Small
  <2>8. QED
    BY <2>6, <2>7
<1> HIDE DEF P
<1>4. \A n \in Nat : n \in P
  BY <1>2, <1>3, SetInduction
<1>5. Cardinality(S) \in Nat
  BY FS_CardinalityType
<1>6. \A T \in SUBSET S : Cardinality(T) <= Cardinality(S)
  BY FS_Subset
<1>7. Small(Cardinality(S)) = SUBSET S
  BY <1>6
<1>8. QED
  BY <1>4, <1>5, <1>7 DEF P

\* A function that adds up integers has integer values.
LEMMA IntegerSums ==
  ASSUME NEW S, IsFiniteSet(S), NEW fun, \A x \in S : fun[x] \in Int,
         NEW g, AddsUp(g, fun, SUBSET S)
  PROVE  \A T \in SUBSET S : g[T] \in Int
<1> DEFINE P == {n \in Nat : \A T \in SUBSET S : Cardinality(T) = n => g[T] \in Int}
<1>1. \A T \in SUBSET S : /\ IsFiniteSet(T) /\ Cardinality(T) \in Nat
                          /\ Cardinality(T) = 0 <=> T = {}
  BY FS_Subset, FS_CardinalityType, FS_EmptySet
<1>2. \A T \in SUBSET S :
        g[T] = IF T = {} THEN 0 ELSE fun[Chosen(T)] + g[T \ {Chosen(T)}]
  BY DEF AddsUp
<1>3. 0 \in P
  <2>1. ASSUME NEW T \in SUBSET S, Cardinality(T) = 0
        PROVE  g[T] \in Int
    <3>1. T = {}
      BY <1>1, <2>1
    <3>2. g[T] = 0
      BY <1>2, <3>1
    <3>3. QED
      BY <3>2
  <2>2. QED
    BY <2>1
<1>4. ASSUME NEW n \in Nat, n \in P
      PROVE  n + 1 \in P
  <2>1. ASSUME NEW T \in SUBSET S, Cardinality(T) = n + 1
        PROVE  g[T] \in Int
    <3>1. T # {} /\ IsFiniteSet(T)
      BY <1>1, <2>1
    <3>2. Chosen(T) \in T
      BY <3>1 DEF Chosen
    <3>3. Cardinality(T \ {Chosen(T)}) = Cardinality(T) - 1
      BY <3>1, <3>2, FS_RemoveElement
    <3>4. g[T \ {Chosen(T)}] \in Int
      BY <1>4, <2>1, <3>3
    <3>5. fun[Chosen(T)] \in Int
      BY <2>1, <3>2
    <3>6. g[T] = fun[Chosen(T)] + g[T \ {Chosen(T)}]
      BY <1>2, <3>1
    <3>7. QED
      BY <3>4, <3>5, <3>6
  <2>2. QED
    BY <2>1
<1> HIDE DEF P
<1>5. \A n \in Nat : n \in P
  BY <1>3, <1>4, SetInduction
<1>6. QED
  BY <1>1, <1>5 DEF P

\* In whatever order the elements are taken, a function that adds up adds up
\* one element and the rest.
LEMMA AnyOrder ==
  ASSUME NEW S, IsFiniteSet(S), NEW fun, \A x \in S : fun[x] \in Int,
         NEW g, AddsUp(g, fun, SUBSET S)
  PROVE  \A T \in SUBSET S : \A x \in T : g[T] = fun[x] + g[T \ {x}]
<1> DEFINE P == {n \in Nat : \A T \in SUBSET S : Cardinality(T) = n =>
                    \A x \in T : g[T] = fun[x] + g[T \ {x}]}
<1>1. \A T \in SUBSET S : /\ IsFiniteSet(T) /\ Cardinality(T) \in Nat
                          /\ Cardinality(T) = 0 <=> T = {}
  BY FS_Subset, FS_CardinalityType, FS_EmptySet
<1>2. \A T \in SUBSET S :
        g[T] = IF T = {} THEN 0 ELSE fun[Chosen(T)] + g[T \ {Chosen(T)}]
  BY DEF AddsUp
<1>3. \A T \in SUBSET S : g[T] \in Int
  BY IntegerSums
<1>4. 0 \in P
  BY <1>1
<1>5. ASSUME NEW n \in Nat, n \in P
      PROVE  n + 1 \in P
  <2>1. ASSUME NEW T \in SUBSET S, Cardinality(T) = n + 1, NEW x \in T
        PROVE  g[T] = fun[x] + g[T \ {x}]
    <3> DEFINE c == Chosen(T)
    <3>1. c \in T /\ g[T] = fun[c] + g[T \ {c}]
      <4>1. T # {}
        BY <2>1
      <4>2. c \in T
        BY <4>1 DEF Chosen
      <4>3. QED
        BY <1>2, <4>1, <4>2
    <3> HIDE DEF c
    <3>2. \A y \in T : \A z \in T \ {y} : g[T \ {y}] = fun[z] + g[(T \ {y}) \ {z}]
      <4> TAKE y \in T
      <4>1. IsFiniteSet(T)
        BY <1>1
      <4>2. Cardinality(T \ {y}) = Cardinality(T) - 1
        BY <4>1, FS_RemoveElement
      <4>3. QED
        BY <1>5, <2>1, <4>2
    <3>3. CASE x = c
      BY <3>1, <3>3
    <3>4. CASE x # c
      <4>1. (T \ {x}) \ {c} = (T \ {c}) \ {x}
        OBVIOUS
      <4>2. /\ g[T \ {c}] = fun[x] + g[(T \ {c}) \ {x}]
            /\ g[T \ {x}] = fun[c] + g[(T \ {c}) \ {x}]
        BY <2>1, <3>1, <3>2, <3>4, <4>1
      <4>3. /\ g[(T \ {c}) \ {x}] \in Int
            /\ fun[x] \in Int /\ fun[c] \in Int
        BY <1>3, <2>1, <3>1
      <4>4. QED
        BY <3>1, <4>2, <4>3
    <3>5. QED
      BY <3>3, <3>4
  <2>2. QED
    BY <2>1
<1> HIDE DEF P
<1>6. \A n \in Nat : n \in P
  BY <1>4, <1>5, SetInduction
<1>7. QED
  BY <1>1, <1>6 DEF P

\* The sum of integers over a finite set: nothing for the empty set, and any
\* element and the sum of the others.
LEMMA SumOfSet ==
  ASSUME NEW S, IsFiniteSet(S), NEW fun, \A x \in S : fun[x] \in Int
  PROVE  /\ SumFunctionOnSet(fun, {}) = 0
         /\ SumFunctionOnSet(fun, S) \in Int
         /\ \A x \in S : SumFunctionOnSet(fun, S)
                           = fun[x] + SumFunctionOnSet(fun, S \ {x})
<1> DEFINE G(T) == CHOOSE g : AddsUp(g, fun, SUBSET T)
<1>1. \A T \in SUBSET S : IsFiniteSet(T)
  BY FS_Subset
<1>2. ASSUME NEW T \in SUBSET S
      PROVE  AddsUp(G(T), fun, SUBSET T)
  BY <1>1, SumExists
<1>3. \A T \in SUBSET S : SumFunctionOnSet(fun, T) = G(T)[T]
  BY SumIsChosen
<1> HIDE DEF G
<1>4. G({})[{}] = 0
  BY <1>2 DEF AddsUp
<1>5. ASSUME NEW T \in SUBSET S
      PROVE  \A U \in SUBSET T : G(T)[U] = G(S)[U]
  <2> DEFINE Same == {U \in SUBSET T : G(T)[U] = G(S)[U]}
  <2>1. AddsUp(G(T), fun, SUBSET T) /\ AddsUp(G(S), fun, SUBSET S)
    BY <1>2
  <2>2. {} \in Same
    BY <2>1 DEF AddsUp
  <2>3. ASSUME NEW U \in SUBSET T, NEW x \in T \ U, U \in Same
        PROVE  U \cup {x} \in Same
    <3> DEFINE V == U \cup {x}
    <3>1. V \ {x} = U /\ x \in V /\ V \in SUBSET T /\ V \in SUBSET S
      OBVIOUS
    <3> HIDE DEF V
    <3>2. G(T)[V] = fun[x] + G(T)[V \ {x}]
      BY <1>1, <2>1, <3>1, AnyOrder
    <3>3. G(S)[V] = fun[x] + G(S)[V \ {x}]
      BY <2>1, <3>1, AnyOrder
    <3>4. V \in Same
      BY <2>3, <3>1, <3>2, <3>3
    <3>5. QED
      BY <3>4 DEF V
  <2>4. IsFiniteSet(T)
    BY <1>1
  <2> HIDE DEF Same
  <2>5. \A U \in SUBSET T : U \in Same
    BY <2>2, <2>3, <2>4, FiniteInduction
  <2>6. QED
    BY <2>5 DEF Same
<1>6. AddsUp(G(S), fun, SUBSET S)
  BY <1>2
<1>7. \A T \in SUBSET S : G(S)[T] \in Int
  BY <1>6, IntegerSums
<1>8. \A x \in S : G(S)[S] = fun[x] + G(S)[S \ {x}]
  BY <1>6, AnyOrder
<1>9. ASSUME NEW T \in SUBSET S
      PROVE  SumFunctionOnSet(fun, T) = G(S)[T]
  BY <1>3, <1>5
<1>10. {} \in SUBSET S /\ S \in SUBSET S /\ \A x \in S : S \ {x} \in SUBSET S
  OBVIOUS
<1>11. SumFunctionOnSet(fun, {}) = 0
  BY <1>3, <1>4, <1>10
<1>12. SumFunctionOnSet(fun, S) \in Int
  BY <1>7, <1>9, <1>10
<1>13. \A x \in S : SumFunctionOnSet(fun, S) = fun[x] + SumFunctionOnSet(fun, S \ {x})
  BY <1>8, <1>9, <1>10
<1>14. QED
  BY <1>11, <1>12, <1>13

\* One element more adds its value.
LEMMA SumWithElement ==
  ASSUME NEW S, IsFiniteSet(S), NEW x, x \notin S, NEW fun,
         \A y \in S \cup {x} : fun[y] \in Int
  PROVE  /\ SumFunctionOnSet(fun, S) \in Int
         /\ SumFunctionOnSet(fun, S \cup {x}) = fun[x] + SumFunctionOnSet(fun, S)
<1>1. IsFiniteSet(S \cup {x})
  BY FS_AddElement
<1>2. (S \cup {x}) \ {x} = S
  OBVIOUS
<1>3. SumFunctionOnSet(fun, S \cup {x}) = fun[x] + SumFunctionOnSet(fun, (S \cup {x}) \ {x})
  BY <1>1, SumOfSet
<1>4. SumFunctionOnSet(fun, S) \in Int
  BY SumOfSet
<1>5. QED
  BY <1>2, <1>3, <1>4

\* Two sets without a common element add up to the sum over both.
LEMMA SumOfUnion ==
  ASSUME NEW S, IsFiniteSet(S), NEW T, IsFiniteSet(T), S \cap T = {}, NEW fun,
         \A x \in S \cup T : fun[x] \in Int
  PROVE  SumFunctionOnSet(fun, S \cup T)
           = SumFunctionOnSet(fun, S) + SumFunctionOnSet(fun, T)
<1> DEFINE Sum(U) == SumFunctionOnSet(fun, U)
           F == {U \in SUBSET T : Sum(S \cup U) = Sum(S) + Sum(U)}
<1>1. Sum({}) = 0 /\ Sum(S) \in Int
  BY SumOfSet
<1>2. {} \in F
  BY <1>1
<1>3. ASSUME NEW U \in SUBSET T, NEW x \in T \ U, U \in F
      PROVE  U \cup {x} \in F
  <2>1. IsFiniteSet(U)
    BY FS_Subset
  <2>2. IsFiniteSet(S \cup U)
    BY <2>1, FS_Union
  <2>3. x \notin S \cup U /\ S \cup (U \cup {x}) = (S \cup U) \cup {x}
    OBVIOUS
  <2>4. /\ \A y \in (S \cup U) \cup {x} : fun[y] \in Int
        /\ \A y \in U \cup {x} : fun[y] \in Int
    OBVIOUS
  <2>5. Sum((S \cup U) \cup {x}) = fun[x] + Sum(S \cup U)
    BY <2>2, <2>3, <2>4, SumWithElement
  <2>6. Sum(U) \in Int /\ Sum(U \cup {x}) = fun[x] + Sum(U)
    BY <2>1, <2>4, SumWithElement
  <2>7. fun[x] \in Int /\ Sum(S \cup U) = Sum(S) + Sum(U)
    BY <1>3
  <2> HIDE DEF Sum
  <2>8. Sum(S \cup (U \cup {x})) = Sum((S \cup U) \cup {x})
    BY <2>3
  <2>9. Sum((S \cup U) \cup {x}) = Sum(S) + Sum(U \cup {x})
    BY <1>1, <2>5, <2>6, <2>7
  <2>10. QED
    BY <2>8, <2>9
<1> HIDE DEF F
<1>4. \A U \in SUBSET T : U \in F
  BY <1>2, <1>3, FiniteInduction
<1>5. T \in F
  BY <1>4
<1>6. QED
  BY <1>5 DEF F

\* The values of g on S are those of fun under other names, each used once.
Renamed(g, fun, index, S) ==
  /\ \A x, y \in S : index[x] = index[y] => x = y
  /\ \A x \in S : fun[index[x]] \in Int
  /\ \A x \in S : g[x] = fun[index[x]]

\* They have the same sum.
LEMMA SumReindexed ==
  ASSUME NEW S, IsFiniteSet(S), NEW index, NEW fun, NEW g, Renamed(g, fun, index, S)
  PROVE  SumFunctionOnSet(g, S) = SumFunctionOnSet(fun, {index[x] : x \in S})
<1> USE DEF Renamed
<1> DEFINE Image(U) == {index[x] : x \in U}
           F == {U \in SUBSET S : /\ IsFiniteSet(Image(U))
                                  /\ SumFunctionOnSet(g, U) = SumFunctionOnSet(fun, Image(U))}
<1>1. {} \in F
  <2>1. Image({}) = {}
    OBVIOUS
  <2>2. IsFiniteSet({})
    BY FS_EmptySet
  <2>3. SumFunctionOnSet(g, {}) = 0 /\ SumFunctionOnSet(fun, {}) = 0
    BY <2>2, SumOfSet
  <2> HIDE DEF Image
  <2>4. QED
    BY <2>1, <2>2, <2>3
<1>2. ASSUME NEW U \in SUBSET S, NEW x \in S \ U, U \in F
      PROVE  U \cup {x} \in F
  <2>1. IsFiniteSet(U)
    BY FS_Subset
  <2>2. /\ Image(U \cup {x}) = Image(U) \cup {index[x]}
        /\ index[x] \notin Image(U)
    OBVIOUS
  <2>3. IsFiniteSet(Image(U)) /\ SumFunctionOnSet(g, U) = SumFunctionOnSet(fun, Image(U))
    BY <1>2
  <2>4. \A y \in Image(U) \cup {index[x]} : fun[y] \in Int
    OBVIOUS
  <2>5. \A y \in U \cup {x} : g[y] \in Int
    OBVIOUS
  <2>6. g[x] = fun[index[x]]
    OBVIOUS
  <2> HIDE DEF Image
  <2>7. SumFunctionOnSet(fun, Image(U) \cup {index[x]})
          = fun[index[x]] + SumFunctionOnSet(fun, Image(U))
    BY <2>2, <2>3, <2>4, SumWithElement
  <2>8. SumFunctionOnSet(g, U \cup {x}) = g[x] + SumFunctionOnSet(g, U)
    BY <2>1, <2>5, SumWithElement
  <2>9. IsFiniteSet(Image(U) \cup {index[x]})
    BY <2>3, FS_AddElement
  <2>10. QED
    BY <2>2, <2>3, <2>6, <2>7, <2>8, <2>9
<1> HIDE DEF F, Renamed
<1>3. \A U \in SUBSET S : U \in F
  BY <1>1, <1>2, FiniteInduction
<1>4. S \in F
  BY <1>3
<1>5. QED
  BY <1>4 DEF F

\* The sum depends on the values alone.
LEMMA SumOfEqual ==
  ASSUME NEW S, IsFiniteSet(S), NEW f, NEW g,
         \A x \in S : f[x] \in Int /\ g[x] = f[x]
  PROVE  SumFunctionOnSet(g, S) = SumFunctionOnSet(f, S)
<1> DEFINE id == [x \in S |-> x]
<1>1. {id[x] : x \in S} = S
  OBVIOUS
<1>2. Renamed(g, f, id, S)
  BY DEF Renamed
<1> HIDE DEF id
<1>3. QED
  BY <1>1, <1>2, SumReindexed

\* A change of one value changes the sum by as much.
LEMMA SumWithChange ==
  ASSUME NEW S, IsFiniteSet(S), NEW x \in S, NEW f, NEW g, NEW d \in Int,
         \A y \in S : f[y] \in Int,
         \A y \in S \ {x} : g[y] = f[y],
         g[x] = f[x] + d
  PROVE  SumFunctionOnSet(g, S) = SumFunctionOnSet(f, S) + d
<1>1. IsFiniteSet(S \ {x})
  BY FS_RemoveElement
<1>2. SumFunctionOnSet(g, S \ {x}) = SumFunctionOnSet(f, S \ {x})
  BY <1>1, SumOfEqual
<1>3. \A y \in S : g[y] \in Int
  OBVIOUS
<1>4. SumFunctionOnSet(g, S) = g[x] + SumFunctionOnSet(g, S \ {x})
  BY <1>3, SumOfSet
<1>5. SumFunctionOnSet(f, S) = f[x] + SumFunctionOnSet(f, S \ {x})
  BY SumOfSet
<1>6. SumFunctionOnSet(f, S \ {x}) \in Int
  BY <1>1, SumOfSet
<1>7. QED
  BY <1>2, <1>4, <1>5, <1>6

\* Zeros add up to zero.
LEMMA SumOfZeros ==
  ASSUME NEW S, IsFiniteSet(S), NEW fun, \A x \in S : fun[x] = 0
  PROVE  SumFunctionOnSet(fun, S) = 0
<1> DEFINE F == {U \in SUBSET S : SumFunctionOnSet(fun, U) = 0}
<1>1. {} \in F
  BY SumOfSet
<1>2. ASSUME NEW U \in SUBSET S, NEW x \in S \ U, U \in F
      PROVE  U \cup {x} \in F
  <2>1. IsFiniteSet(U)
    BY FS_Subset
  <2>2. \A y \in U \cup {x} : fun[y] \in Int
    OBVIOUS
  <2>3. SumFunctionOnSet(fun, U \cup {x}) = fun[x] + SumFunctionOnSet(fun, U)
    BY <2>1, <2>2, SumWithElement
  <2>4. QED
    BY <1>2, <2>3
<1> HIDE DEF F
<1>3. \A U \in SUBSET S : U \in F
  BY <1>1, <1>2, FiniteInduction
<1>4. S \in F
  BY <1>3
<1>5. QED
  BY <1>4 DEF F

\* The sum of a pointwise sum is the sum of the sums.
LEMMA SumOfSums ==
  ASSUME NEW S, IsFiniteSet(S), NEW f, NEW g, NEW h,
         \A x \in S : f[x] \in Int /\ g[x] \in Int /\ h[x] = f[x] + g[x]
  PROVE  SumFunctionOnSet(h, S) = SumFunctionOnSet(f, S) + SumFunctionOnSet(g, S)
<1> DEFINE F == {U \in SUBSET S :
                   SumFunctionOnSet(h, U) = SumFunctionOnSet(f, U) + SumFunctionOnSet(g, U)}
<1>1. {} \in F
  <2>1. IsFiniteSet({})
    BY FS_EmptySet
  <2>2. /\ SumFunctionOnSet(f, {}) = 0
        /\ SumFunctionOnSet(g, {}) = 0
        /\ SumFunctionOnSet(h, {}) = 0
    BY <2>1, SumOfSet
  <2>3. QED
    BY <2>2
<1>2. ASSUME NEW U \in SUBSET S, NEW x \in S \ U, U \in F
      PROVE  U \cup {x} \in F
  <2>1. IsFiniteSet(U)
    BY FS_Subset
  <2>2. \A y \in U \cup {x} : f[y] \in Int /\ g[y] \in Int /\ h[y] \in Int
    OBVIOUS
  <2>3. /\ SumFunctionOnSet(f, U) \in Int
        /\ SumFunctionOnSet(f, U \cup {x}) = f[x] + SumFunctionOnSet(f, U)
    BY <2>1, <2>2, SumWithElement
  <2>4. /\ SumFunctionOnSet(g, U) \in Int
        /\ SumFunctionOnSet(g, U \cup {x}) = g[x] + SumFunctionOnSet(g, U)
    BY <2>1, <2>2, SumWithElement
  <2>5. SumFunctionOnSet(h, U \cup {x}) = h[x] + SumFunctionOnSet(h, U)
    BY <2>1, <2>2, SumWithElement
  <2>6. h[x] = f[x] + g[x] /\ f[x] \in Int /\ g[x] \in Int
    OBVIOUS
  <2>7. QED
    BY <1>2, <2>3, <2>4, <2>5, <2>6
<1> HIDE DEF F
<1>3. \A U \in SUBSET S : U \in F
  BY <1>1, <1>2, FiniteInduction
<1>4. S \in F
  BY <1>3
<1>5. QED
  BY <1>4 DEF F

\* The negatives add up to the negative.
LEMMA SumOfNegatives ==
  ASSUME NEW S, IsFiniteSet(S), NEW f, NEW g,
         \A x \in S : f[x] \in Int /\ g[x] = -f[x]
  PROVE  SumFunctionOnSet(g, S) = -SumFunctionOnSet(f, S)
<1> DEFINE zero == [x \in S |-> 0]
<1>1. \A x \in S : zero[x] = 0 /\ zero[x] = f[x] + g[x] /\ g[x] \in Int /\ f[x] \in Int
  OBVIOUS
<1> HIDE DEF zero
<1>2. SumFunctionOnSet(zero, S) = 0
  BY <1>1, SumOfZeros
<1>3. SumFunctionOnSet(zero, S) = SumFunctionOnSet(f, S) + SumFunctionOnSet(g, S)
  BY <1>1, SumOfSums
<1>4. SumFunctionOnSet(f, S) \in Int /\ SumFunctionOnSet(g, S) \in Int
  BY <1>1, SumOfSet
<1>5. QED
  BY <1>2, <1>3, <1>4

-----------------------------------------------------------------------------
(* Sums of sequences                                                        *)

\* The sum of a sequence of integers, and of its concatenation with another
LEMMA SumOfConcat ==
  ASSUME NEW s \in Seq(Int), NEW t \in Seq(Int)
  PROVE  /\ SumFunction(s) \in Int
         /\ SumFunction(s \o t) = SumFunction(s) + SumFunction(t)
<1> DEFINE m == Len(s)
           n == Len(t)
           st == s \o t
<1>1. /\ m \in Nat /\ n \in Nat
      /\ DOMAIN s = 1 .. m /\ DOMAIN t = 1 .. n
      /\ \A i \in 1 .. m : s[i] \in Int
      /\ \A i \in 1 .. n : t[i] \in Int
  OBVIOUS
<1>2. /\ DOMAIN st = 1 .. m + n
      /\ \A i \in 1 .. m : st[i] = s[i]
      /\ \A i \in 1 .. n : st[m + i] = t[i]
  OBVIOUS
<1> HIDE DEF m, n, st
<1>3. /\ IsFiniteSet(1 .. m) /\ IsFiniteSet(1 .. n) /\ IsFiniteSet(m + 1 .. m + n)
  BY <1>1, FS_Interval
<1>4. SumFunctionOnSet(st, 1 .. m) = SumFunctionOnSet(s, 1 .. m)
  BY <1>1, <1>2, <1>3, SumOfEqual
<1>5. SumFunctionOnSet(t, 1 .. n) = SumFunctionOnSet(st, m + 1 .. m + n)
  <2> DEFINE index == [i \in 1 .. n |-> m + i]
  <2>1. {index[i] : i \in 1 .. n} = m + 1 .. m + n
    <3>1. ASSUME NEW j \in m + 1 .. m + n
          PROVE  j \in {index[i] : i \in 1 .. n}
      <4>1. PICK i \in 1 .. n : m + i = j
        <5>1. j - m \in 1 .. n /\ m + (j - m) = j
          BY <1>1
        <5>2. QED
          BY <5>1
      <4>2. index[i] = j
        BY <4>1
      <4> HIDE DEF index
      <4>3. QED
        BY <4>2
    <3>2. \A i \in 1 .. n : index[i] \in m + 1 .. m + n
      BY <1>1
    <3>3. QED
      BY <3>1, <3>2
  <2>2. \A i \in 1 .. n : index[i] = m + i
    OBVIOUS
  <2> HIDE DEF index
  <2>3. /\ \A i, j \in 1 .. n : index[i] = index[j] => i = j
        /\ \A i \in 1 .. n : st[index[i]] \in Int
        /\ \A i \in 1 .. n : t[i] = st[index[i]]
    <3>1. \A i, j \in 1 .. n : m + i = m + j => i = j
      BY <1>1
    <3>2. \A i \in 1 .. n : t[i] \in Int /\ t[i] = st[m + i]
      BY <1>1, <1>2
    <3>3. QED
      BY <2>2, <3>1, <3>2
  <2> DEFINE D == 1 .. n
  <2> HIDE DEF D
  <2>4. SumFunctionOnSet(t, D) = SumFunctionOnSet(st, {index[i] : i \in D})
    <3>1. IsFiniteSet(D)
      BY <1>3 DEF D
    <3>2. Renamed(t, st, index, D)
      BY <2>3 DEF D, Renamed
    <3>3. QED
      BY <3>1, <3>2, SumReindexed
  <2>5. QED
    BY <2>1, <2>4 DEF D
<1>6. SumFunctionOnSet(st, (1 .. m) \cup (m + 1 .. m + n))
        = SumFunctionOnSet(st, 1 .. m) + SumFunctionOnSet(st, m + 1 .. m + n)
  <2>1. (1 .. m) \cap (m + 1 .. m + n) = {}
    BY <1>1
  <2>2. \A i \in (1 .. m) \cup (m + 1 .. m + n) : st[i] \in Int
    <3>1. ASSUME NEW i \in m + 1 .. m + n
          PROVE  st[i] \in Int
      <4>1. i - m \in 1 .. n /\ m + (i - m) = i
        BY <1>1
      <4>2. QED
        BY <1>1, <1>2, <4>1
    <3>2. QED
      BY <1>1, <1>2, <3>1
  <2>3. QED
    BY <1>3, <2>1, <2>2, SumOfUnion
<1>7. (1 .. m) \cup (m + 1 .. m + n) = 1 .. m + n
  BY <1>1
<1>8. SumFunctionOnSet(s, 1 .. m) \in Int
  BY <1>1, <1>3, SumOfSet
<1>9. QED
  BY <1>1, <1>2, <1>4, <1>5, <1>6, <1>7, <1>8 DEF SumFunction, st

\* One more integer
LEMMA SumOfAppend ==
  ASSUME NEW s \in Seq(Int), NEW x \in Int
  PROVE  SumFunction(Append(s, x)) = SumFunction(s) + x
<1>1. Append(s, x) = s \o <<x>> /\ <<x>> \in Seq(Int)
  OBVIOUS
<1>2. SumFunction(<<x>>) = x
  <2>1. DOMAIN <<x>> = {} \cup {1} /\ <<x>>[1] = x
    OBVIOUS
  <2>2. IsFiniteSet({}) /\ 1 \notin {}
    BY FS_EmptySet
  <2>3. SumFunctionOnSet(<<x>>, {} \cup {1}) = x + SumFunctionOnSet(<<x>>, {})
    <3>1. \A y \in {} \cup {1} : <<x>>[y] \in Int
      OBVIOUS
    <3>2. QED
      BY <2>1, <2>2, <3>1, SumWithElement
  <2>4. SumFunctionOnSet(<<x>>, {}) = 0
    BY <2>2, SumOfSet
  <2>5. QED
    BY <2>1, <2>3, <2>4 DEF SumFunction
<1>3. SumFunction(s \o <<x>>) = SumFunction(s) + SumFunction(<<x>>)
  BY <1>1, SumOfConcat
<1>4. QED
  BY <1>1, <1>2, <1>3

-----------------------------------------------------------------------------
(* Powers of two                                                            *)

\* A power of two: what the library says of the number of subsets.
LEMMA PowerOfTwo ==
  ASSUME NEW n \in Nat
  PROVE  /\ 2 ^ n \in Nat
         /\ 2 ^ (n + 1) = 2 * 2 ^ n
<1>1. \A m \in Nat : IsFiniteSet(1 .. m) /\ Cardinality(1 .. m) = m
  <2> TAKE m \in Nat
  <2>1. 1 \in Int /\ m \in Int
    OBVIOUS
  <2>2. IsFiniteSet(1 .. m) /\ Cardinality(1 .. m) = IF 1 > m THEN 0 ELSE m - 1 + 1
    BY <2>1, FS_Interval
  <2>3. QED
    BY <2>2
<1> DEFINE S == 1 .. n
           With == {B \cup {n + 1} : B \in SUBSET S}
<1>2. IsFiniteSet(S) /\ Cardinality(S) = n
  BY <1>1
<1>3. IsFiniteSet(SUBSET S) /\ Cardinality(SUBSET S) = 2 ^ n
  BY <1>2, FS_SUBSET
<1>4. Cardinality(SUBSET (1 .. n + 1)) = 2 ^ (n + 1)
  <2>1. IsFiniteSet(1 .. n + 1) /\ Cardinality(1 .. n + 1) = n + 1
    BY <1>1
  <2>2. Cardinality(SUBSET (1 .. n + 1)) = 2 ^ Cardinality(1 .. n + 1)
    BY <2>1, FS_SUBSET
  <2>3. QED
    BY <2>1, <2>2
<1>5. SUBSET (1 .. n + 1) = (SUBSET S) \cup With /\ (SUBSET S) \cap With = {}
  <2>1. 1 .. n + 1 = S \cup {n + 1} /\ n + 1 \notin S
    OBVIOUS
  <2> HIDE DEF S
  <2>2. ASSUME NEW T \in SUBSET (1 .. n + 1)
        PROVE  T \in (SUBSET S) \cup With
    <3>1. CASE n + 1 \in T
      <4>1. T \ {n + 1} \in SUBSET S /\ T = (T \ {n + 1}) \cup {n + 1}
        BY <2>1, <3>1
      <4>2. QED
        BY <4>1
    <3>2. CASE n + 1 \notin T
      BY <2>1, <3>2
    <3>3. QED
      BY <3>1, <3>2
  <2>3. \A T \in (SUBSET S) \cup With : T \in SUBSET (1 .. n + 1)
    BY <2>1
  <2>4. (SUBSET S) \cap With = {}
    BY <2>1
  <2>5. QED
    BY <2>2, <2>3, <2>4
<1>6. IsFiniteSet(With) /\ Cardinality(With) = Cardinality(SUBSET S)
  <2> DEFINE f == [B \in SUBSET S |-> B \cup {n + 1}]
  <2>1. n + 1 \notin S
    OBVIOUS
  <2> HIDE DEF S
  <2>2. f \in Bijection(SUBSET S, With)
    <3>1. f \in [SUBSET S -> With]
      OBVIOUS
    <3>2. \A A, B \in SUBSET S : f[A] = f[B] => A = B
      BY <2>1
    <3>3. \A T \in With : \E A \in SUBSET S : f[A] = T
      OBVIOUS
    <3>4. QED
      BY <3>1, <3>2, <3>3, Zenon DEF Bijection, Injection, Surjection, IsInjective
  <2>3. ExistsBijection(SUBSET S, With)
    BY <2>2, Zenon DEF ExistsBijection
  <2>4. QED
    BY <1>3, <2>3, FS_Bijection
<1> HIDE DEF S, With
<1>7. Cardinality((SUBSET S) \cup With) = 2 ^ n + 2 ^ n
  <2>1. Cardinality((SUBSET S) \cup With)
        = Cardinality(SUBSET S) + Cardinality(With) - Cardinality((SUBSET S) \cap With)
    BY <1>3, <1>6, FS_Union
  <2>2. Cardinality((SUBSET S) \cap With) = 0
    BY <1>5, FS_EmptySet
  <2>3. 2 ^ n \in Nat
    BY <1>3, FS_CardinalityType
  <2>4. QED
    BY <1>3, <1>6, <2>1, <2>2, <2>3
<1>8. 2 ^ n \in Nat
  BY <1>3, FS_CardinalityType
<1>9. 2 ^ (n + 1) = 2 ^ n + 2 ^ n
  BY <1>4, <1>5, <1>7
<1>10. QED
  BY <1>8, <1>9

\* Powers of two are positive.
LEMMA PowersPositive == \A n \in Nat : 2 ^ n \in Nat \ {0}
<1>1. \A n \in Nat : 2 ^ n \in Nat /\ 2 ^ (n + 1) = 2 * 2 ^ n
  BY PowerOfTwo
<1> DEFINE Q == {n \in Nat : 2 ^ n # 0}
<1>2. 0 \in Q
  OBVIOUS
<1>3. \A n \in Nat : n \in Q => n + 1 \in Q
  BY <1>1
<1> HIDE DEF Q
<1>4. \A n \in Nat : n \in Q
  BY <1>2, <1>3, SetInduction
<1>5. QED
  BY <1>1, <1>4 DEF Q

=============================================================================
