--------------------------- MODULE Statements_proofs ---------------------------
(***************************************************************************)
(* What the statements of the circuits are worth, proved for trees of any  *)
(* depth and any number of leaves, spends, keys, notes and deviations.     *)
(*                                                                         *)
(* To a chain that accepts their proofs (ShieldedPool): the pool is backed,*)
(* nobody else spends a note of the wallet, and the wallet can spend each  *)
(* of its notes.  To the roles of a PCZT (PcztFields): what a Signer signs *)
(* for is its own, a proof is valid exactly if the checks pass, an honest  *)
(* bundle passes them all, and the v5 format keeps proofs as they were.    *)
(*                                                                         *)
(* And about the keys in those statements (Zip32), for any permutations,   *)
(* any paths and any encodings read: the keys held are sound, encodings    *)
(* read back, diversifier indices are found again, and scopes stay apart.  *)
(***************************************************************************)
EXTENDS ShieldedPool, PcztFields, Zip32, Induction, SequenceTheorems, TLAPS

Depth == NOTE_COMMITMENT_TREE_DEPTH

-----------------------------------------------------------------------------
(* Powers of two, quotients and bits                                        *)

\* A function on 1 .. n is a sequence of length n.
LEMMA IsSequence ==
  ASSUME NEW n \in Nat, NEW f, f = [l \in 1 .. n |-> f[l]]
  PROVE  f \in Seq({f[l] : l \in 1 .. n}) /\ Len(f) = n
<1> DEFINE T == {f[l] : l \in 1 .. n}
<1>1. f \in [1 .. n -> T]
  OBVIOUS
<1> HIDE DEF T
<1>2. f \in Seq(T)
  BY <1>1
<1>3. DOMAIN f = 1 .. n
  BY <1>1
<1>4. Len(f) = n
  BY <1>2, <1>3
<1>5. QED
  BY <1>2, <1>4 DEF T

\* Halving once more, and the last bit of what is halved.
LEMMA HalvedAgain ==
  ASSUME NEW p \in Nat, NEW b \in Nat \ {0}
  PROVE  /\ p \div b \in Nat
         /\ p \div (2 * b) = (p \div b) \div 2
         /\ p % (2 * b) = (p % b) + b * ((p \div b) % 2)
<1> DEFINE q == p \div b
           r == p % b
           h == q \div 2
           t == q % 2
<1>1. q \in Nat /\ r \in 0 .. b - 1 /\ p = b * q + r
  BY Division
<1> HIDE DEF q, r
<1>2. h \in Nat /\ t \in 0 .. 1 /\ q = 2 * h + t
  BY <1>1
<1> HIDE DEF h, t
<1>3. p = (2 * b) * h + (r + b * t)
  <2>1. b * q = (2 * b) * h + b * t
    BY <1>1, <1>2
  <2>2. (2 * b) * h \in Nat /\ b * t \in Nat
    BY <1>2
  <2>3. QED
    BY <1>1, <2>1, <2>2
<1>4. r + b * t \in 0 .. (2 * b) - 1 /\ 2 * b \in Nat \ {0}
  <2>1. b * t = 0 \/ b * t = b
    BY <1>2
  <2>2. QED
    BY <1>1, <2>1
<1>5. p \div (2 * b) = h /\ (p % (2 * b)) = r + b * t
  <2> DEFINE c == 2 * b
  <2> HIDE DEF c
  <2>1. c \in Nat \ {0} /\ r + b * t \in 0 .. c - 1 /\ p = c * h + (r + b * t)
    BY <1>3, <1>4 DEF c
  <2>2. p \div c = h /\ (p % c) = r + b * t
    <3>1. r + b * t \in 0 .. c - 1 /\ p = c * h + (r + b * t) /\ c \in Nat \ {0} /\ h \in Nat
      BY <1>2, <2>1
    <3>2. \A s \in 0 .. c - 1 : p = c * h + s => p \div c = h /\ (p % c) = s
      BY <1>2, <2>1, DivisionUnique
    <3>3. QED
      BY <3>1, <3>2
  <2>3. QED
    BY <2>2 DEF c
<1>6. QED
  BY <1>1, <1>5 DEF q, r, h, t

-----------------------------------------------------------------------------
(* The tree                                                                 *)

\* The root of an empty tree is made of those of smaller ones.
LEMMA EmptyRoots ==
  /\ EMPTY_ROOTS[0] = empty_leaf
  /\ \A d \in Levels : EMPTY_ROOTS[d] = combine(d - 1, EMPTY_ROOTS[d - 1], EMPTY_ROOTS[d - 1])
<1> DEFINE Step(v, d) == IF d = 0 THEN empty_leaf ELSE combine(d - 1, v[d - 1], v[d - 1])
           P == {n \in Nat : \E v : v = [d \in 0 .. n |-> Step(v, d)]}
<1>1. Depth \in Nat \ {0} /\ Levels = 1 .. Depth
  BY TreeAssumption DEF TreeAssumption, Levels, Depth
<1>2. \A f, g, d : (d # 0 => f[d - 1] = g[d - 1]) => Step(f, d) = Step(g, d)
  OBVIOUS
<1>3. \A f : Step(f, 0) = empty_leaf
  OBVIOUS
<1>4. \A f : \A d \in Levels : Step(f, d) = combine(d - 1, f[d - 1], f[d - 1])
  BY <1>1
<1>5. EMPTY_ROOTS = CHOOSE v : v = [d \in 0 .. Depth |-> Step(v, d)]
  BY DEF EMPTY_ROOTS, Depth
<1> HIDE DEF Step
<1>6. 0 \in P
  <2> DEFINE v == [d \in 0 .. 0 |-> empty_leaf]
  <2>1. v = [d \in 0 .. 0 |-> Step(v, d)]
    BY <1>3
  <2>2. QED
    BY <2>1
<1>7. ASSUME NEW n \in Nat, n \in P
      PROVE  n + 1 \in P
  <2>1. PICK v : v = [d \in 0 .. n |-> Step(v, d)]
    BY <1>7
  <2> DEFINE x == [d \in 0 .. n + 1 |-> IF d <= n THEN v[d] ELSE Step(v, n + 1)]
  <2>2. \A d \in 0 .. n : x[d] = v[d] /\ v[d] = Step(v, d)
    BY <2>1
  <2>3. x[n + 1] = Step(v, n + 1)
    OBVIOUS
  <2>4. x = [d \in 0 .. n + 1 |-> x[d]]
    OBVIOUS
  <2> HIDE DEF x
  <2>5. \A d \in 0 .. n + 1 : x[d] = Step(x, d)
    <3> TAKE d \in 0 .. n + 1
    <3>1. d # 0 => d - 1 \in 0 .. n
      OBVIOUS
    <3>2. Step(x, d) = Step(v, d)
      BY <1>2, <2>2, <3>1
    <3>3. QED
      BY <2>2, <2>3, <3>2
  <2>6. x = [d \in 0 .. n + 1 |-> Step(x, d)]
    BY <2>4, <2>5
  <2>7. QED
    BY <2>6
<1>8. Depth \in P
  <2> HIDE DEF P
  <2>1. QED
    BY <1>1, <1>6, <1>7, SetInduction
<1>9. EMPTY_ROOTS = [d \in 0 .. Depth |-> Step(EMPTY_ROOTS, d)]
  <2>1. \E v : v = [d \in 0 .. Depth |-> Step(v, d)]
    BY <1>8
  <2>2. QED
    BY <1>5, <2>1, Zenon
<1>10. \A d \in 0 .. Depth : EMPTY_ROOTS[d] = Step(EMPTY_ROOTS, d)
  BY <1>9
<1>11. 0 \in 0 .. Depth /\ \A d \in Levels : d \in 0 .. Depth
  BY <1>1
<1>12. QED
  BY <1>3, <1>4, <1>10, <1>11

\* The nodes of a tree that may have leaves at these indices of a level
Width(l) == 0 .. 2 ^ (Depth - l) - 1

NodesBy(leaves, at, l) ==
  [i \in Width(l) |->
     IF i * 2 ^ l >= Len(leaves) THEN EMPTY_ROOTS[l]
     ELSE IF l = 0 THEN leaves[i + 1]
     ELSE combine(l - 1, at[l - 1][2 * i], at[l - 1][2 * i + 1])]

\* Each level of nodes is made of the one below.
LEMMA NodesByLevel ==
  ASSUME NEW leaves
  PROVE  \A l \in 0 .. Depth : NodesOf(leaves)[l] = NodesBy(leaves, NodesOf(leaves), l)
<1> DEFINE Step(v, d) == NodesBy(leaves, v, d)
           P == {n \in Nat : \E v : v = [d \in 0 .. n |-> Step(v, d)]}
           N == NodesOf(leaves)
<1>1. Depth \in Nat \ {0}
  BY TreeAssumption DEF TreeAssumption, Depth
<1>2. \A f, g, d : (d # 0 => f[d - 1] = g[d - 1]) => Step(f, d) = Step(g, d)
  BY DEF NodesBy
<1>3. N = CHOOSE v : v = [d \in 0 .. Depth |-> Step(v, d)]
  BY DEF NodesOf, NodesBy, Width, Depth
<1> HIDE DEF Step, N
<1>4. 0 \in P
  <2> DEFINE v == [d \in 0 .. 0 |-> Step(<<>>, 0)]
  <2>1. Step(v, 0) = Step(<<>>, 0)
    BY <1>2
  <2>2. v = [d \in 0 .. 0 |-> Step(v, d)]
    BY <2>1
  <2>3. QED
    BY <2>2
<1>5. ASSUME NEW n \in Nat, n \in P
      PROVE  n + 1 \in P
  <2>1. PICK v : v = [d \in 0 .. n |-> Step(v, d)]
    BY <1>5
  <2> DEFINE x == [d \in 0 .. n + 1 |-> IF d <= n THEN v[d] ELSE Step(v, n + 1)]
  <2>2. \A d \in 0 .. n : x[d] = v[d] /\ v[d] = Step(v, d)
    BY <2>1
  <2>3. x[n + 1] = Step(v, n + 1)
    OBVIOUS
  <2>4. x = [d \in 0 .. n + 1 |-> x[d]]
    OBVIOUS
  <2> HIDE DEF x
  <2>5. \A d \in 0 .. n + 1 : x[d] = Step(x, d)
    <3> TAKE d \in 0 .. n + 1
    <3>1. d # 0 => d - 1 \in 0 .. n
      OBVIOUS
    <3>2. Step(x, d) = Step(v, d)
      BY <1>2, <2>2, <3>1
    <3>3. QED
      BY <2>2, <2>3, <3>2
  <2>6. x = [d \in 0 .. n + 1 |-> Step(x, d)]
    BY <2>4, <2>5
  <2>7. QED
    BY <2>6
<1>6. Depth \in P
  <2> HIDE DEF P
  <2>1. QED
    BY <1>1, <1>4, <1>5, SetInduction
<1>7. N = [d \in 0 .. Depth |-> Step(N, d)]
  <2>1. \E v : v = [d \in 0 .. Depth |-> Step(v, d)]
    BY <1>6
  <2>2. QED
    BY <1>3, <2>1, Zenon
<1>8. \A d \in 0 .. Depth : N[d] = Step(N, d)
  BY <1>7
<1>9. QED
  BY <1>8 DEF N, Step

\* The indices of a level, from those of the level above
LEMMA Widths ==
  ASSUME NEW l \in Levels, NEW i \in Width(l)
  PROVE  /\ i \in Nat /\ 2 ^ l \in Nat /\ 2 ^ (l - 1) \in Nat
         /\ 2 ^ l = 2 * 2 ^ (l - 1)
         /\ 2 * i \in Width(l - 1) /\ 2 * i + 1 \in Width(l - 1)
<1>1. l \in Nat /\ l - 1 \in Nat /\ Depth - l \in Nat /\ Depth - (l - 1) = Depth - l + 1
  BY TreeAssumption DEF TreeAssumption, Levels, Depth
<1>2. 2 ^ (l - 1) \in Nat /\ 2 ^ ((l - 1) + 1) = 2 * 2 ^ (l - 1) /\ (l - 1) + 1 = l
  BY <1>1, PowerOfTwo
<1>3. 2 ^ (Depth - l) \in Nat /\ 2 ^ (Depth - (l - 1)) = 2 * 2 ^ (Depth - l)
  BY <1>1, PowerOfTwo
<1>4. i \in Nat /\ 2 * i + 1 <= 2 ^ (Depth - (l - 1)) - 1
  BY <1>3 DEF Width
<1>5. 2 ^ l \in Nat /\ 2 ^ l = 2 * 2 ^ (l - 1)
  BY <1>2
<1>6. 2 ^ (Depth - (l - 1)) \in Nat
  BY <1>3
<1>7. 2 * i \in Width(l - 1) /\ 2 * i + 1 \in Width(l - 1)
  BY <1>4, <1>6 DEF Width
<1>8. QED
  BY <1>2, <1>4, <1>5, <1>7

\* A node above the leaves is made of its children, also where the tree is
\* still empty.
LEMMA NodeOfChildren ==
  ASSUME NEW leaves, Len(leaves) \in Nat, NEW l \in Levels, NEW i \in Width(l)
  PROVE  NodesOf(leaves)[l][i]
         = combine(l - 1, NodesOf(leaves)[l - 1][2 * i], NodesOf(leaves)[l - 1][2 * i + 1])
<1> DEFINE N == NodesOf(leaves)
           b == 2 ^ (l - 1)
           n == Len(leaves)
<1> SUFFICES N[l][i] = combine(l - 1, N[l - 1][2 * i], N[l - 1][2 * i + 1])
  OBVIOUS
<1>1. l \in 0 .. Depth /\ l - 1 \in 0 .. Depth /\ l # 0
  BY TreeAssumption DEF TreeAssumption, Levels, Depth
<1>2. N[l] = NodesBy(leaves, N, l) /\ N[l - 1] = NodesBy(leaves, N, l - 1)
  BY <1>1, NodesByLevel
<1>3. /\ i \in Nat /\ b \in Nat /\ 2 ^ l = 2 * b
      /\ 2 * i \in Width(l - 1) /\ 2 * i + 1 \in Width(l - 1)
  BY Widths
<1> HIDE DEF N
<1>4. N[l][i] = IF i * 2 ^ l >= n THEN EMPTY_ROOTS[l]
                ELSE combine(l - 1, N[l - 1][2 * i], N[l - 1][2 * i + 1])
  BY <1>1, <1>2 DEF NodesBy
<1>5. CASE i * 2 ^ l >= n
  <2>1. \A j \in Width(l - 1) : j * b >= n => N[l - 1][j] = EMPTY_ROOTS[l - 1]
    BY <1>2 DEF NodesBy
  <2> HIDE DEF b, n
  <2>2. (2 * i) * b >= n /\ (2 * i + 1) * b >= n
    <3>1. i * (2 * b) = (2 * i) * b /\ (2 * i + 1) * b = (2 * i) * b + b
      BY <1>3
    <3>2. (2 * i) * b \in Nat /\ n \in Nat
      BY <1>3 DEF n
    <3>3. QED
      BY <1>3, <1>5, <3>1, <3>2
  <2>3. /\ N[l - 1][2 * i] = EMPTY_ROOTS[l - 1]
        /\ N[l - 1][2 * i + 1] = EMPTY_ROOTS[l - 1]
    BY <1>3, <2>1, <2>2
  <2>4. N[l][i] = EMPTY_ROOTS[l]
    BY <1>4, <1>5
  <2>5. QED
    BY <2>3, <2>4, EmptyRoots
<1>6. CASE ~(i * 2 ^ l >= n)
  BY <1>4, <1>6
<1>7. QED
  BY <1>5, <1>6

-----------------------------------------------------------------------------
(* Paths                                                                    *)

\* Sums of the first values of a function
LEMMA RunningSums ==
  ASSUME NEW N \in Nat, NEW g
  PROVE  \E f : f = [n \in 0 .. N |-> IF n = 0 THEN 0 ELSE f[n - 1] + g[n]]
<1> DEFINE Step(v, d) == IF d = 0 THEN 0 ELSE v[d - 1] + g[d]
           P == {n \in Nat : \E v : v = [d \in 0 .. n |-> Step(v, d)]}
<1>1. \A f, h, d : (d # 0 => f[d - 1] = h[d - 1]) => Step(f, d) = Step(h, d)
  OBVIOUS
<1>2. \A f : Step(f, 0) = 0
  OBVIOUS
<1> SUFFICES \E v : v = [d \in 0 .. N |-> Step(v, d)]
  OBVIOUS
<1> HIDE DEF Step
<1>3. 0 \in P
  <2> DEFINE v == [d \in 0 .. 0 |-> 0]
  <2>1. v = [d \in 0 .. 0 |-> Step(v, d)]
    BY <1>2
  <2>2. QED
    BY <2>1
<1>4. ASSUME NEW n \in Nat, n \in P
      PROVE  n + 1 \in P
  <2>1. PICK v : v = [d \in 0 .. n |-> Step(v, d)]
    BY <1>4
  <2> DEFINE x == [d \in 0 .. n + 1 |-> IF d <= n THEN v[d] ELSE Step(v, n + 1)]
  <2>2. \A d \in 0 .. n : x[d] = v[d] /\ v[d] = Step(v, d)
    BY <2>1
  <2>3. x[n + 1] = Step(v, n + 1)
    OBVIOUS
  <2>4. x = [d \in 0 .. n + 1 |-> x[d]]
    OBVIOUS
  <2> HIDE DEF x
  <2>5. \A d \in 0 .. n + 1 : x[d] = Step(x, d)
    <3> TAKE d \in 0 .. n + 1
    <3>1. d # 0 => d - 1 \in 0 .. n
      OBVIOUS
    <3>2. Step(x, d) = Step(v, d)
      BY <1>1, <2>2, <3>1
    <3>3. QED
      BY <2>2, <2>3, <3>2
  <2>6. x = [d \in 0 .. n + 1 |-> Step(x, d)]
    BY <2>4, <2>5
  <2>7. QED
    BY <2>6
<1>5. N \in P
  <2> HIDE DEF P
  <2>1. QED
    BY <1>3, <1>4, SetInduction
<1>6. QED
  BY <1>5

\* What the first bits of a path add up to
LEMMA PositionAddsUp ==
  ASSUME NEW path, Len(path) \in Nat
  PROVE  \E sum : /\ PositionOf(path) = sum[Len(path)]
                  /\ sum[0] = 0 /\ \A l \in 0 .. Len(path) : sum[l] \in Nat
                  /\ \A l \in 1 .. Len(path) :
                       sum[l] = sum[l - 1] + (IF path[l][2] THEN 2 ^ (l - 1) ELSE 0)
<1> DEFINE N == Len(path)
           g == [l \in 1 .. N |-> IF path[l][2] THEN 2 ^ (l - 1) ELSE 0]
           Eq(f) == f = [n \in 0 .. N |->
                           IF n = 0 THEN 0
                           ELSE f[n - 1] + (IF path[n][2] THEN 2 ^ (n - 1) ELSE 0)]
           sum == CHOOSE f : Eq(f)
<1>1. PositionOf(path) = sum[N]
  BY DEF PositionOf
<1>2. \E f : Eq(f)
  <2>1. \A n \in 0 .. N :
          n # 0 => g[n] = IF path[n][2] THEN 2 ^ (n - 1) ELSE 0
    OBVIOUS
  <2> HIDE DEF g
  <2>2. PICK f : f = [n \in 0 .. N |-> IF n = 0 THEN 0 ELSE f[n - 1] + g[n]]
    BY RunningSums
  <2>3. Eq(f)
    BY <2>1, <2>2
  <2>4. QED
    BY <2>3
<1>3. Eq(sum)
  <2> HIDE DEF Eq
  <2>1. QED
    BY <1>2, Zenon
<1> HIDE DEF sum
<1>4. /\ sum[0] = 0
      /\ \A l \in 1 .. N : sum[l] = sum[l - 1] + (IF path[l][2] THEN 2 ^ (l - 1) ELSE 0)
  BY <1>3
<1>5. \A l \in Nat : l <= N => sum[l] \in Nat
  <2> DEFINE Q == {l \in Nat : l <= N => sum[l] \in Nat}
  <2>1. 0 \in Q
    BY <1>4
  <2>2. ASSUME NEW l \in Nat, l \in Q
        PROVE  l + 1 \in Q
    <3>1. 2 ^ l \in Nat
      BY PowerOfTwo
    <3>2. ASSUME l + 1 <= N
          PROVE  sum[l + 1] \in Nat
      <4>1. l + 1 \in 1 .. N /\ (l + 1) - 1 = l /\ sum[l] \in Nat
        BY <2>2, <3>2
      <4>2. QED
        BY <1>4, <3>1, <4>1
    <3>3. QED
      BY <3>2
  <2> HIDE DEF Q
  <2>3. \A l \in Nat : l \in Q
    BY <2>1, <2>2, SetInduction
  <2>4. QED
    BY <2>3 DEF Q
<1>6. QED
  BY <1>1, <1>4, <1>5

\* The nodes that a path leads over, from a leaf to a root
Ascends(cur, path, leaf) ==
  /\ cur[0] = leaf
  /\ \A l \in 1 .. Len(path) :
       cur[l] = IF path[l][2] THEN combine(l - 1, path[l][1], cur[l - 1])
                ELSE combine(l - 1, cur[l - 1], path[l][1])

\* The root that the statement computes is reached level by level.
LEMMA RootIsAscended ==
  ASSUME NEW w, Len(w.auth_path) \in Nat
  PROVE  \E cur : /\ Ascends(cur, w.auth_path, extract_p(SpendCm(w)))
                  /\ SpendRoot(w) = cur[Len(w.auth_path)]
<1> DEFINE path == w.auth_path
           leaf == extract_p(SpendCm(w))
           Step(v, l) == IF l = 0 THEN leaf
                         ELSE IF path[l][2] THEN combine(l - 1, path[l][1], v[l - 1])
                         ELSE combine(l - 1, v[l - 1], path[l][1])
           P == {n \in Nat : \E v : v = [d \in 0 .. n |-> Step(v, d)]}
           cur == CHOOSE v : v = [d \in 0 .. Len(path) |-> Step(v, d)]
<1>1. Len(path) \in Nat
  OBVIOUS
<1>2. \A f, g, d : (d # 0 => f[d - 1] = g[d - 1]) => Step(f, d) = Step(g, d)
  OBVIOUS
<1>3. \A f : Step(f, 0) = leaf
  OBVIOUS
<1>4. \A f : \A l \in 1 .. Len(path) :
        Step(f, l) = IF path[l][2] THEN combine(l - 1, path[l][1], f[l - 1])
                     ELSE combine(l - 1, f[l - 1], path[l][1])
  OBVIOUS
<1>5. SpendRoot(w) = cur[Len(path)]
  BY DEF SpendRoot
<1> HIDE DEF Step, leaf, path
<1>6. 0 \in P
  <2> DEFINE v == [d \in 0 .. 0 |-> leaf]
  <2>1. v = [d \in 0 .. 0 |-> Step(v, d)]
    BY <1>3
  <2>2. QED
    BY <2>1
<1>7. ASSUME NEW n \in Nat, n \in P
      PROVE  n + 1 \in P
  <2>1. PICK v : v = [d \in 0 .. n |-> Step(v, d)]
    BY <1>7
  <2> DEFINE x == [d \in 0 .. n + 1 |-> IF d <= n THEN v[d] ELSE Step(v, n + 1)]
  <2>2. \A d \in 0 .. n : x[d] = v[d] /\ v[d] = Step(v, d)
    <3>1. \A d \in 0 .. n : v[d] = Step(v, d)
      BY <2>1
    <3>2. \A d \in 0 .. n : x[d] = v[d]
      OBVIOUS
    <3>3. QED
      BY <3>1, <3>2
  <2>3. x[n + 1] = Step(v, n + 1)
    OBVIOUS
  <2>4. x = [d \in 0 .. n + 1 |-> x[d]]
    OBVIOUS
  <2> HIDE DEF x
  <2>5. \A d \in 0 .. n + 1 : x[d] = Step(x, d)
    <3> TAKE d \in 0 .. n + 1
    <3>1. d # 0 => d - 1 \in 0 .. n
      OBVIOUS
    <3>2. Step(x, d) = Step(v, d)
      BY <1>2, <2>2, <3>1
    <3>3. QED
      BY <2>2, <2>3, <3>2
  <2>6. x = [d \in 0 .. n + 1 |-> Step(x, d)]
    BY <2>4, <2>5
  <2>7. QED
    BY <2>6
<1>8. Len(path) \in P
  <2> HIDE DEF P
  <2>1. QED
    BY <1>1, <1>6, <1>7, SetInduction
<1>9. cur = [d \in 0 .. Len(path) |-> Step(cur, d)]
  <2>1. \E v : v = [d \in 0 .. Len(path) |-> Step(v, d)]
    BY <1>8
  <2>2. QED
    BY <2>1, Zenon
<1> HIDE DEF cur
<1>10. \A d \in 0 .. Len(path) : cur[d] = Step(cur, d)
  BY <1>9
<1>11. 0 \in 0 .. Len(path) /\ \A l \in 1 .. Len(path) : l \in 0 .. Len(path)
  BY <1>1
<1>12. Ascends(cur, path, leaf)
  BY <1>3, <1>4, <1>10, <1>11 DEF Ascends
<1>13. QED
  BY <1>5, <1>12 DEF path, leaf

\* Whoever ascends to the root of a tree has started at one of its leaves: the
\* one at the position that the path spells.
LEMMA LeafOfRoot ==
  ASSUME NEW leaves, Len(leaves) \in Nat, NEW w, Len(w.auth_path) = Depth,
         SpendRoot(w) = RootOf(leaves)
  PROVE  /\ PositionOf(w.auth_path) \in 0 .. Len(leaves) - 1
         /\ leaves[PositionOf(w.auth_path) + 1] = extract_p(SpendCm(w))
<1> DEFINE path == w.auth_path
           N == NodesOf(leaves)
           position == PositionOf(path)
<1>1. Depth \in Nat \ {0} /\ Levels = 1 .. Depth
  BY TreeAssumption DEF TreeAssumption, Levels, Depth
<1>2. PICK sum : /\ position = sum[Depth]
                 /\ sum[0] = 0 /\ \A l \in 0 .. Depth : sum[l] \in Nat
                 /\ \A l \in Levels :
                      sum[l] = sum[l - 1] + (IF path[l][2] THEN 2 ^ (l - 1) ELSE 0)
  <2>1. Len(path) \in Nat /\ Len(path) = Depth /\ Levels = 1 .. Len(path)
    BY <1>1
  <2> HIDE DEF path
  <2>2. PICK sum : /\ PositionOf(path) = sum[Len(path)]
                   /\ sum[0] = 0 /\ \A l \in 0 .. Len(path) : sum[l] \in Nat
                   /\ \A l \in 1 .. Len(path) :
                        sum[l] = sum[l - 1] + (IF path[l][2] THEN 2 ^ (l - 1) ELSE 0)
    BY <2>1, PositionAddsUp
  <2>3. QED
    BY <2>1, <2>2
<1>3. PICK cur : /\ Ascends(cur, path, extract_p(SpendCm(w)))
                 /\ SpendRoot(w) = cur[Depth]
  BY <1>1, RootIsAscended
<1>4. RootOf(leaves) = N[Depth][0]
  BY DEF RootOf, Depth
<1> DEFINE On(l, i) == cur[l] = N[l][i] /\ position = i * 2 ^ l + sum[l]
           P == {m \in Nat : m <= Depth => \E i \in Width(Depth - m) : On(Depth - m, i)}
<1> HIDE DEF N, position
<1>5. 0 \in P
  <2>1. 2 ^ (Depth - Depth) = 1 /\ Depth - 0 = Depth
    BY <1>1
  <2>2. 0 \in Width(Depth)
    BY <2>1 DEF Width
  <2>3. 0 * 2 ^ Depth = 0
    BY <1>1, PowerOfTwo
  <2>4. On(Depth, 0)
    <3>1. sum[Depth] \in Nat /\ position = sum[Depth]
      BY <1>1, <1>2
    <3>2. position = 0 * 2 ^ Depth + sum[Depth]
      BY <2>3, <3>1
    <3>3. cur[Depth] = N[Depth][0]
      BY <1>3, <1>4
    <3>4. QED
      BY <3>2, <3>3
  <2>5. QED
    BY <2>1, <2>2, <2>4
<1>6. ASSUME NEW m \in Nat, m \in P
      PROVE  m + 1 \in P
  <2> SUFFICES ASSUME m + 1 <= Depth
               PROVE  \E i \in Width(Depth - (m + 1)) : On(Depth - (m + 1), i)
    OBVIOUS
  <2>1. PICK l \in Levels : l = Depth - m /\ l - 1 = Depth - (m + 1) /\ l - 1 \in 0 .. Depth
    BY <1>1
  <2>2. PICK i \in Width(l) : On(l, i)
    BY <1>1, <1>6, <2>1
  <2>3. /\ i \in Nat /\ 2 ^ (l - 1) \in Nat /\ 2 ^ l = 2 * 2 ^ (l - 1)
        /\ 2 * i \in Width(l - 1) /\ 2 * i + 1 \in Width(l - 1)
    BY Widths
  <2>4. N[l][i] = combine(l - 1, N[l - 1][2 * i], N[l - 1][2 * i + 1])
    BY NodeOfChildren DEF N
  <2>5. sum[l - 1] \in Nat
    BY <1>2, <2>1
  <2>6. l \in 1 .. Len(path)
    BY <1>1
  <2>7. CASE path[l][2]
    <3>1. cur[l] = combine(l - 1, path[l][1], cur[l - 1])
      BY <1>3, <2>6, <2>7 DEF Ascends
    <3>2. cur[l - 1] = N[l - 1][2 * i + 1]
      BY <2>2, <2>4, <3>1 DEF combine
    <3>3. position = (2 * i + 1) * 2 ^ (l - 1) + sum[l - 1]
      <4>1. sum[l] = sum[l - 1] + 2 ^ (l - 1)
        BY <1>2, <2>7
      <4>2. PICK e \in Nat : e = 2 ^ (l - 1)
        BY <2>3
      <4>3. i * (2 * e) + (sum[l - 1] + e) = (2 * i + 1) * e + sum[l - 1]
        <5>1. PICK c \in Nat : c = sum[l - 1]
          BY <2>5
        <5>2. i \in Nat
          BY <2>3
        <5>3. i * (2 * e) + (c + e) = (2 * i + 1) * e + c
          BY <5>2
        <5>4. QED
          BY <5>1, <5>3
      <4>4. position = i * (2 * e) + sum[l]
        BY <2>2, <2>3, <4>2
      <4>5. QED
        BY <4>1, <4>2, <4>3, <4>4
    <3>4. On(l - 1, 2 * i + 1)
      BY <3>2, <3>3
    <3> HIDE DEF On
    <3>5. QED
      BY <2>1, <2>3, <3>4
  <2>8. CASE ~path[l][2]
    <3>1. cur[l] = combine(l - 1, cur[l - 1], path[l][1])
      BY <1>3, <2>6, <2>8 DEF Ascends
    <3>2. cur[l - 1] = N[l - 1][2 * i]
      BY <2>2, <2>4, <3>1 DEF combine
    <3>3. position = (2 * i) * 2 ^ (l - 1) + sum[l - 1]
      <4>1. sum[l] = sum[l - 1]
        BY <1>2, <2>5, <2>8
      <4>2. PICK e \in Nat : e = 2 ^ (l - 1)
        BY <2>3
      <4>3. i * (2 * e) + sum[l - 1] = (2 * i) * e + sum[l - 1]
        <5>1. i \in Nat
          BY <2>3
        <5>2. i * (2 * e) = (2 * i) * e
          BY <5>1
        <5>3. QED
          BY <5>2
      <4>4. position = i * (2 * e) + sum[l]
        BY <2>2, <2>3, <4>2
      <4>5. QED
        BY <4>1, <4>2, <4>3, <4>4
    <3>4. On(l - 1, 2 * i)
      BY <3>2, <3>3
    <3> HIDE DEF On
    <3>5. QED
      BY <2>1, <2>3, <3>4
  <2>9. QED
    BY <2>7, <2>8
<1>7. \E i \in Width(0) : On(0, i)
  <2> HIDE DEF P
  <2>1. Depth \in P
    BY <1>1, <1>5, <1>6, SetInduction
  <2>2. Depth - Depth = 0 /\ Depth <= Depth
    BY <1>1
  <2> HIDE DEF On
  <2>3. QED
    BY <2>1, <2>2 DEF P
<1>8. PICK i \in Width(0) : On(0, i)
  BY <1>7
<1>9. i \in Nat /\ i * 2 ^ 0 = i
  <2>1. 2 ^ 0 = 1 /\ 2 ^ (Depth - 0) \in Nat
    BY <1>1, PowerOfTwo
  <2>2. QED
    BY <2>1 DEF Width
<1>10. position = i /\ N[0][i] = extract_p(SpendCm(w))
  BY <1>2, <1>3, <1>8, <1>9 DEF Ascends
<1>11. N[0][i] = IF i >= Len(leaves) THEN empty_leaf ELSE leaves[i + 1]
  <2>1. N[0] = NodesBy(leaves, N, 0)
    BY <1>1, NodesByLevel DEF N
  <2>2. QED
    BY <1>9, <2>1, EmptyRoots DEF NodesBy
<1>12. extract_p(SpendCm(w)) # empty_leaf
  BY DEF extract_p, empty_leaf
<1>13. position \in 0 .. Len(leaves) - 1 /\ leaves[position + 1] = extract_p(SpendCm(w))
  BY <1>9, <1>10, <1>11, <1>12
<1>14. QED
  BY <1>13 DEF position

\* The node of each level that is above a position
LEMMA Ancestors ==
  ASSUME NEW p \in 0 .. 2 ^ Depth - 1
  PROVE  /\ p \in Nat
         /\ \A l \in 0 .. Depth : p \div 2 ^ l \in Width(l)
         /\ p \div 2 ^ Depth = 0 /\ p % 2 ^ Depth = p
<1>1. Depth \in Nat \ {0}
  BY TreeAssumption DEF TreeAssumption, Depth
<1>2. \A n \in Nat : 2 ^ n \in Nat \ {0}
  BY PowersPositive
<1>3. p \in Nat
  BY <1>1, <1>2
<1>4. p \div 2 ^ Depth = 0 /\ p % 2 ^ Depth = p
  <2>1. PICK c \in Nat \ {0} : c = 2 ^ Depth
    BY <1>1, <1>2
  <2>2. p \in 0 .. c - 1 /\ p = c * 0 + p
    BY <1>3, <2>1
  <2>3. p \div c = 0 /\ p % c = p
    BY <1>3, <2>2, DivisionUnique
  <2>4. QED
    BY <2>1, <2>3
<1> DEFINE P == {m \in Nat : m <= Depth => p \div 2 ^ (Depth - m) \in Width(Depth - m)}
<1>5. 0 \in P
  <2>1. 2 ^ (Depth - Depth) = 1 /\ Depth - 0 = Depth
    BY <1>1
  <2>2. QED
    BY <1>4, <2>1 DEF Width
<1>6. ASSUME NEW m \in Nat, m \in P
      PROVE  m + 1 \in P
  <2> SUFFICES ASSUME m + 1 <= Depth
               PROVE  p \div 2 ^ (Depth - (m + 1)) \in Width(Depth - (m + 1))
    OBVIOUS
  <2>1. PICK k \in Nat : k = Depth - (m + 1) /\ k + 1 = Depth - m
    BY <1>1
  <2>2. PICK b \in Nat \ {0} : b = 2 ^ k /\ 2 ^ (k + 1) = 2 * b
    BY <1>2, PowerOfTwo
  <2>3. p \div b \in Nat /\ p \div (2 * b) = (p \div b) \div 2
    BY <1>3, HalvedAgain
  <2>4. Depth - k = m + 1 /\ Depth - (k + 1) = m
    BY <1>1, <2>1
  <2>5. 2 ^ m \in Nat /\ 2 ^ (m + 1) = 2 * 2 ^ m
    BY PowerOfTwo
  <2>6. (p \div b) \div 2 \in 0 .. 2 ^ m - 1
    <3>1. m <= Depth
      BY <1>1
    <3>2. p \div 2 ^ (Depth - m) \in Width(Depth - m)
      BY <1>6, <3>1
    <3>3. p \div (2 * b) \in Width(k + 1)
      BY <2>1, <2>2, <3>2
    <3>4. Width(k + 1) = 0 .. 2 ^ m - 1
      BY <2>4 DEF Width
    <3>5. QED
      BY <2>3, <3>3, <3>4
  <2>7. p \div b \in 0 .. 2 ^ (m + 1) - 1
    <3>1. PICK q \in Nat : q = p \div b
      BY <2>3
    <3>2. PICK x \in Nat : x = 2 ^ m
      BY <2>5
    <3>3. q \div 2 \in 0 .. x - 1
      BY <2>6, <3>1, <3>2
    <3>4. q <= 2 * x - 1
      BY <3>3
    <3>5. QED
      BY <2>5, <3>1, <3>2, <3>4
  <2>8. QED
    BY <2>1, <2>2, <2>4, <2>7 DEF Width
<1> HIDE DEF P
<1>7. \A m \in Nat : m \in P
  BY <1>5, <1>6, SetInduction
<1>8. ASSUME NEW l \in 0 .. Depth
      PROVE  p \div 2 ^ l \in Width(l)
  <2>1. Depth - l \in Nat /\ Depth - l <= Depth /\ Depth - (Depth - l) = l
    BY <1>1
  <2>2. QED
    BY <1>7, <2>1 DEF P
<1>9. QED
  BY <1>3, <1>4, <1>8

\* The bits of a position spell it.
LEMMA BitsSpell ==
  ASSUME NEW p \in 0 .. 2 ^ Depth - 1, NEW path, Len(path) = Depth,
         \A l \in Levels : path[l][2] = ((p \div 2 ^ (l - 1)) % 2 = 1)
  PROVE  PositionOf(path) = p
<1>1. Depth \in Nat \ {0} /\ Levels = 1 .. Depth /\ Len(path) \in Nat
  BY TreeAssumption DEF TreeAssumption, Levels, Depth
<1>2. p \in Nat /\ p % 2 ^ Depth = p
  BY Ancestors
<1>3. PICK sum : /\ PositionOf(path) = sum[Len(path)]
                 /\ sum[0] = 0 /\ \A l \in 0 .. Len(path) : sum[l] \in Nat
                 /\ \A l \in 1 .. Len(path) :
                      sum[l] = sum[l - 1] + (IF path[l][2] THEN 2 ^ (l - 1) ELSE 0)
  BY <1>1, PositionAddsUp
<1> DEFINE P == {l \in Nat : l <= Depth => sum[l] = p % 2 ^ l}
<1>4. 0 \in P
  <2>1. \A z \in Nat : z = 0 => 2 ^ z = 1
    OBVIOUS
  <2>2. 2 ^ 0 = 1 /\ p % 1 = 0
    BY <1>2
  <2>3. QED
    BY <1>3, <2>1, <2>2
<1>5. ASSUME NEW k \in Nat, k \in P
      PROVE  k + 1 \in P
  <2> SUFFICES ASSUME k + 1 <= Depth
               PROVE  sum[k + 1] = p % 2 ^ (k + 1)
    OBVIOUS
  <2>1. k + 1 \in Levels /\ k + 1 \in 1 .. Len(path) /\ (k + 1) - 1 = k
    BY <1>1
  <2>2. 2 ^ k \in Nat /\ 2 ^ (k + 1) = 2 * 2 ^ k
    BY PowerOfTwo
  <2>3. PICK b \in Nat \ {0} : b = 2 ^ k
    BY PowersPositive
  <2>4. p % (2 * b) = (p % b) + b * ((p \div b) % 2) /\ p \div b \in Nat
    BY <1>2, HalvedAgain
  <2>5. sum[k] = p % b
    BY <1>5, <2>3
  <2>6. sum[k + 1] = sum[k] + (IF (p \div b) % 2 = 1 THEN b ELSE 0)
    BY <1>3, <2>1, <2>3
  <2>7. (p \div b) % 2 = 0 \/ (p \div b) % 2 = 1
    BY <2>4
  <2>8. b * 0 = 0 /\ b * 1 = b /\ p % b \in Nat
    BY <1>2, Division
  <2>9. sum[k + 1] = p % (2 * b)
    BY <2>4, <2>5, <2>6, <2>7, <2>8
  <2>10. QED
    BY <2>2, <2>3, <2>9
<1>6. Depth \in P
  <2> HIDE DEF P
  <2>1. QED
    BY <1>1, <1>4, <1>5, SetInduction
<1>7. QED
  BY <1>1, <1>2, <1>3, <1>6

\* Which of two siblings a node is, and where the other one is.
LEMMA OddSibling ==
  ASSUME NEW q \in Nat, q % 2 = 1
  PROVE  q = 2 * (q \div 2) + 1 /\ Sibling(q) = 2 * (q \div 2)
<1>1. q = 2 * (q \div 2) + 1
  OBVIOUS
<1>2. Sibling(q) = q - 1
  BY DEF Sibling
<1>3. QED
  BY <1>1, <1>2

\* A left child and its right sibling have the same parent.
LEMMA EvenSibling ==
  ASSUME NEW q \in Nat, q % 2 = 0
  PROVE  q = 2 * (q \div 2) /\ Sibling(q) = 2 * (q \div 2) + 1
<1>1. q = 2 * (q \div 2)
  OBVIOUS
<1>2. Sibling(q) = q + 1
  BY DEF Sibling
<1>3. QED
  BY <1>1, <1>2

\* The path of a witness is that of leaf p.
HasPathOf(w, leaves, p) ==
  /\ Len(w.auth_path) = Depth
  /\ \A l \in Levels :
       w.auth_path[l] = <<MerklePathOf(leaves, p).path_elems[l],
                          (p \div 2 ^ (l - 1)) % 2 = 1>>

\* It leads to the root, and spells the position of the leaf.
LEMMA RootOfLeaf ==
  ASSUME NEW leaves, Len(leaves) \in Nat, Len(leaves) <= 2 ^ Depth,
         NEW p \in 0 .. Len(leaves) - 1,
         NEW w, HasPathOf(w, leaves, p), extract_p(SpendCm(w)) = leaves[p + 1]
  PROVE  SpendRoot(w) = RootOf(leaves) /\ PositionOf(w.auth_path) = p
<1> USE DEF HasPathOf
<1> DEFINE path == w.auth_path
           N == NodesOf(leaves)
<1>1. Depth \in Nat \ {0} /\ Levels = 1 .. Depth /\ Len(path) \in Nat /\ Len(path) = Depth
  BY TreeAssumption DEF TreeAssumption, Levels, Depth
<1>2. p \in 0 .. 2 ^ Depth - 1 /\ p \in Nat
  <2>1. 2 ^ Depth \in Nat
    BY <1>1, PowersPositive
  <2>2. QED
    BY <2>1
<1>3. \A l \in Levels : /\ path[l][1] = N[l - 1][Sibling(p \div 2 ^ (l - 1))]
                        /\ path[l][2] = ((p \div 2 ^ (l - 1)) % 2 = 1)
  BY DEF MerklePathOf
<1>4. PositionOf(path) = p
  BY <1>1, <1>2, <1>3, BitsSpell
<1>5. PICK cur : /\ Ascends(cur, path, extract_p(SpendCm(w)))
                 /\ SpendRoot(w) = cur[Depth]
  BY <1>1, RootIsAscended
<1>6. RootOf(leaves) = N[Depth][0]
  BY DEF RootOf, Depth
<1>7. N[0] = NodesBy(leaves, N, 0)
  BY <1>1, NodesByLevel
<1> HIDE DEF N, path, HasPathOf
<1> DEFINE P == {l \in Nat : l <= Depth => cur[l] = N[l][p \div 2 ^ l]}
<1>8. 0 \in P
  <2>1. 2 ^ 0 = 1 /\ p \div 1 = p
    BY <1>2
  <2>2. \A z \in Nat : z = 0 => 2 ^ z = 1
    OBVIOUS
  <2>3. p \div 2 ^ 0 = p /\ p \in Width(0)
    <3>1. 2 ^ 0 = 1
      BY <2>2
    <3>2. p \div 2 ^ 0 = p
      BY <2>1, <3>1
    <3>3. p \div 2 ^ 0 \in Width(0)
      <4>1. \A z \in 0 .. Depth : p \div 2 ^ z \in Width(z)
        BY <1>2, Ancestors
      <4>2. 0 \in 0 .. Depth
        BY <1>1
      <4>3. QED
        BY <4>1, <4>2, Zenon
    <3>4. QED
      BY <3>2, <3>3
  <2>4. N[0][p] = IF p * 2 ^ 0 >= Len(leaves) THEN EMPTY_ROOTS[0] ELSE leaves[p + 1]
    BY <1>7, <2>3 DEF NodesBy
  <2>5. p * 2 ^ 0 = p
    BY <1>2, <2>1
  <2>6. cur[0] = N[0][p]
    BY <1>2, <1>5, <2>4, <2>5 DEF Ascends
  <2>7. QED
    BY <2>3, <2>6
<1>9. ASSUME NEW k \in Nat, k \in P
      PROVE  k + 1 \in P
  <2> SUFFICES ASSUME k + 1 <= Depth
               PROVE  cur[k + 1] = N[k + 1][p \div 2 ^ (k + 1)]
    OBVIOUS
  <2>1. PICK l \in Levels : l = k + 1 /\ l - 1 = k /\ l \in 1 .. Len(path)
    BY <1>1
  <2>2. PICK b \in Nat \ {0} : b = 2 ^ k /\ 2 ^ l = 2 * b
    BY <2>1, PowerOfTwo, PowersPositive
  <2>3. PICK q \in Nat : q = p \div b
    BY <1>2, Division
  <2>4. PICK i \in Width(l) : i = p \div 2 ^ l
    BY <1>1, <1>2, Ancestors
  <2>5. i = q \div 2
    <3>1. p \div (2 * b) = (p \div b) \div 2
      BY <1>2, HalvedAgain
    <3>2. QED
      BY <2>2, <2>3, <2>4, <3>1
  <2>6. N[l][i] = combine(l - 1, N[l - 1][2 * i], N[l - 1][2 * i + 1])
    BY NodeOfChildren DEF N
  <2>7. cur[l - 1] = N[l - 1][q]
    <3>1. cur[k] = N[k][p \div 2 ^ k]
      BY <1>1, <1>9
    <3>2. QED
      BY <2>1, <2>2, <2>3, <3>1
  <2>8. path[l][1] = N[l - 1][Sibling(q)] /\ path[l][2] = (q % 2 = 1)
    <3>1. 2 ^ (l - 1) = b
      BY <2>1, <2>2
    <3>2. QED
      BY <1>3, <2>3, <3>1
  <2>9. cur[l] = IF path[l][2] THEN combine(l - 1, path[l][1], cur[l - 1])
                 ELSE combine(l - 1, cur[l - 1], path[l][1])
    BY <1>5, <2>1 DEF Ascends
  <2>10. CASE q % 2 = 1
    <3>1. q = 2 * i + 1 /\ Sibling(q) = 2 * i
      BY <2>5, <2>10, OddSibling
    <3>2. path[l][2] /\ path[l][1] = N[l - 1][2 * i] /\ cur[l - 1] = N[l - 1][2 * i + 1]
      BY <2>7, <2>8, <2>10, <3>1
    <3>3. cur[l] = combine(l - 1, N[l - 1][2 * i], N[l - 1][2 * i + 1])
      BY <2>9, <3>2
    <3>4. QED
      BY <2>1, <2>4, <2>6, <3>3
  <2>11. CASE q % 2 = 0
    <3>1. q = 2 * i /\ Sibling(q) = 2 * i + 1
      BY <2>5, <2>11, EvenSibling
    <3>2. path[l][2] = FALSE
      <4>1. ~(q % 2 = 1)
        BY <2>11
      <4>2. QED
        BY <2>8, <4>1
    <3>3. path[l][1] = N[l - 1][2 * i + 1] /\ cur[l - 1] = N[l - 1][2 * i]
      BY <2>7, <2>8, <3>1
    <3>4. cur[l] = combine(l - 1, N[l - 1][2 * i], N[l - 1][2 * i + 1])
      BY <2>9, <3>2, <3>3
    <3>5. QED
      BY <2>1, <2>4, <2>6, <3>4
  <2>12. QED
    BY <2>3, <2>10, <2>11
<1>10. Depth \in P
  <2> HIDE DEF P
  <2>1. QED
    BY <1>1, <1>8, <1>9, SetInduction
<1>11. p \div 2 ^ Depth = 0
  BY <1>2, Ancestors
<1>12. SpendRoot(w) = RootOf(leaves)
  BY <1>1, <1>5, <1>6, <1>10, <1>11
<1>13. QED
  BY <1>4, <1>12 DEF path

-----------------------------------------------------------------------------
(* Values                                                                   *)

\* What a change of d at p makes of the n-th value and of the sum of n values
Change(p, d, n) == IF n - 1 = p THEN d ELSE 0
SumChange(p, d, n) == IF p < n THEN d ELSE 0

\* f is the sums of the first values of x; y has x's values with the change.
SumsUp(f, x, N) == f[0] = 0 /\ \A n \in 1 .. N : x[n] \in Int /\ f[n] = f[n - 1] + x[n]
Changed(x, y, N, p, d) == \A n \in 1 .. N : y[n] = x[n] + Change(p, d, n)

\* Sums of values that differ at one place at most
LEMMA SumsDiffer ==
  ASSUME NEW N \in Nat, NEW f, NEW g, NEW x, NEW y, NEW p \in Nat, NEW d \in Int,
         SumsUp(f, x, N), SumsUp(g, y, N), Changed(x, y, N, p, d)
  PROVE  f[N] \in Int /\ g[N] = f[N] + SumChange(p, d, N)
<1> DEFINE P == {n \in Nat : n <= N => f[n] \in Int /\ g[n] = f[n] + SumChange(p, d, n)}
<1>1. 0 \in P
  BY DEF SumChange, SumsUp
<1>2. ASSUME NEW n \in Nat, n \in P
      PROVE  n + 1 \in P
  <2> SUFFICES ASSUME n + 1 <= N
               PROVE  /\ f[n + 1] \in Int
                      /\ g[n + 1] = f[n + 1] + SumChange(p, d, n + 1)
    OBVIOUS
  <2>1. n + 1 \in 1 .. N /\ (n + 1) - 1 = n
    OBVIOUS
  <2>2. f[n] \in Int /\ g[n] = f[n] + (IF p < n THEN d ELSE 0)
    BY <1>2 DEF SumChange
  <2>3. x[n + 1] \in Int /\ f[n + 1] = f[n] + x[n + 1] /\ g[n + 1] = g[n] + y[n + 1]
    BY <2>1 DEF SumsUp
  <2>4. y[n + 1] = x[n + 1] + (IF n = p THEN d ELSE 0)
    BY <2>1 DEF Change, Changed
  <2>5. QED
    BY <2>2, <2>3, <2>4 DEF SumChange
<1> HIDE DEF P
<1>3. N \in P
  BY <1>1, <1>2, SetInduction
<1>4. QED
  BY <1>3 DEF P

\* The value of the positions S of a sequence of outputs
ValueOf(outs, S) ==
  LET sum[n \in 0 .. Len(outs)] ==
        IF n = 0 THEN 0
        ELSE sum[n - 1] + (IF n - 1 \in S THEN outs[n].value ELSE 0)
  IN  sum[Len(outs)]

Share(outs, S, n) == IF n - 1 \in S THEN outs[n].value ELSE 0

\* The value of some outputs is a sum over all of them.
LEMMA ValueAddsUp ==
  ASSUME NEW outs, Len(outs) \in Nat, NEW S
  PROVE  \E sum : /\ ValueOf(outs, S) = sum[Len(outs)]
                  /\ sum[0] = 0
                  /\ \A n \in 1 .. Len(outs) : sum[n] = sum[n - 1] + Share(outs, S, n)
<1> DEFINE N == Len(outs)
           g == [n \in 1 .. N |-> Share(outs, S, n)]
           Eq(f) == f = [n \in 0 .. N |->
                           IF n = 0 THEN 0 ELSE f[n - 1] + Share(outs, S, n)]
           sum == CHOOSE f : Eq(f)
<1>1. ValueOf(outs, S) = sum[N]
  BY DEF ValueOf, Share
<1>2. \E f : Eq(f)
  <2>1. \A n \in 0 .. N : n # 0 => g[n] = Share(outs, S, n)
    OBVIOUS
  <2> HIDE DEF g
  <2>2. PICK f : f = [n \in 0 .. N |-> IF n = 0 THEN 0 ELSE f[n - 1] + g[n]]
    BY RunningSums
  <2>3. Eq(f)
    BY <2>1, <2>2
  <2>4. QED
    BY <2>3
<1>3. Eq(sum)
  <2> HIDE DEF Eq
  <2>1. QED
    BY <1>2, Zenon
<1> HIDE DEF sum
<1>4. /\ sum[0] = 0
      /\ \A n \in 1 .. N : sum[n] = sum[n - 1] + Share(outs, S, n)
  BY <1>3
<1>5. QED
  BY <1>1, <1>4

\* Sequences of outputs with values
Valued(outs) ==
  /\ Len(outs) \in Nat
  /\ \A n \in 1 .. Len(outs) : outs[n].value \in Nat

\* Values are integers.
LEMMA ValueIsInteger ==
  ASSUME NEW outs, Valued(outs), NEW S
  PROVE  ValueOf(outs, S) \in Int
<1> DEFINE N == Len(outs)
           x == [n \in 1 .. N |-> Share(outs, S, n)]
<1>1. N \in Nat /\ 0 \in Int
  BY DEF Valued
<1>2. PICK f : /\ ValueOf(outs, S) = f[N]
               /\ f[0] = 0 /\ \A n \in 1 .. N : f[n] = f[n - 1] + Share(outs, S, n)
  BY <1>1, ValueAddsUp
<1>3. SumsUp(f, x, N)
  BY <1>2 DEF Share, Valued, SumsUp
<1>4. Changed(x, x, N, N, 0)
  BY <1>3 DEF Changed, Change, SumsUp
<1> HIDE DEF x, N
<1>5. f[N] \in Int
  BY <1>1, <1>3, <1>4, SumsDiffer
<1>6. QED
  BY <1>2, <1>5

\* One position less is worth its value less.
LEMMA ValueOfFewer ==
  ASSUME NEW outs, Valued(outs), NEW S, NEW p \in S, p \in 0 .. Len(outs) - 1
  PROVE  /\ ValueOf(outs, S) \in Int
         /\ ValueOf(outs, S \ {p}) = ValueOf(outs, S) - outs[p + 1].value
<1> DEFINE N == Len(outs)
           T == S \ {p}
           x == [n \in 1 .. N |-> Share(outs, S, n)]
           y == [n \in 1 .. N |-> Share(outs, T, n)]
           d == -outs[p + 1].value
<1>1. N \in Nat /\ p \in Nat /\ p < N /\ d \in Int
  BY DEF Valued
<1>2. PICK f : /\ ValueOf(outs, S) = f[N]
               /\ f[0] = 0 /\ \A n \in 1 .. N : f[n] = f[n - 1] + Share(outs, S, n)
  BY <1>1, ValueAddsUp
<1>3. PICK g : /\ ValueOf(outs, T) = g[N]
               /\ g[0] = 0 /\ \A n \in 1 .. N : g[n] = g[n - 1] + Share(outs, T, n)
  <2> HIDE DEF T
  <2>1. QED
    BY <1>1, ValueAddsUp
<1>4. SumsUp(f, x, N)
  BY <1>2 DEF Share, Valued, SumsUp
<1>5. SumsUp(g, y, N)
  BY <1>3 DEF Share, Valued, SumsUp
<1>6. Changed(x, y, N, p, d)
  <2> SUFFICES ASSUME NEW n \in 1 .. N
               PROVE  y[n] = x[n] + Change(p, d, n)
    BY DEF Changed
  <2>1. CASE n - 1 = p
    <3>1. n = p + 1
      BY <1>1, <2>1
    <3>2. x[n] = outs[p + 1].value /\ y[n] = 0
      BY <2>1, <3>1 DEF Share
    <3>3. outs[p + 1].value \in Nat
      BY <1>1 DEF Valued
    <3>4. QED
      BY <2>1, <3>2, <3>3 DEF Change
  <2>2. CASE n - 1 # p
    <3>1. x[n] = y[n]
      BY <2>2 DEF Share
    <3>2. QED
      BY <1>4, <2>2, <3>1 DEF Change, SumsUp
  <2>3. QED
    BY <2>1, <2>2
<1> HIDE DEF x, y, d, T, N
<1>7. f[N] \in Int /\ g[N] = f[N] + SumChange(p, d, N)
  <2>1. N \in Nat
    BY <1>1
  <2>2. p \in Nat
    BY <1>1
  <2>3. d \in Int
    BY <1>1
  <2>4. QED
    BY <1>4, <1>5, <1>6, <2>1, <2>2, <2>3, SumsDiffer
<1>8. ValueOf(outs, S) \in Int /\ ValueOf(outs, T) = ValueOf(outs, S) + d
  BY <1>1, <1>2, <1>3, <1>7 DEF SumChange
<1>9. outs[p + 1].value \in Nat
  BY <1>1 DEF N, Valued
<1>10. QED
  BY <1>8, <1>9 DEF T, d

\* One output more, which is not among those left out, adds its value.
LEMMA ValueOfMore ==
  ASSUME NEW outs, Valued(outs), NEW o, o.value \in Nat, NEW more,
         Len(more) = Len(outs) + 1, \A n \in 1 .. Len(outs) : more[n] = outs[n],
         more[Len(outs) + 1] = o,
         NEW S, NEW T, Len(outs) \in T,
         \A p \in 0 .. Len(outs) - 1 : p \in S <=> p \in T
  PROVE  /\ ValueOf(outs, S) \in Int
         /\ ValueOf(more, T) = ValueOf(outs, S) + o.value
<1> DEFINE N == Len(outs)
           x == [n \in 1 .. N |-> Share(outs, S, n)]
<1>1. N \in Nat /\ Len(more) \in Nat /\ Len(more) = N + 1 /\ N + 1 \in 1 .. Len(more)
  BY DEF Valued
<1>2. PICK f : /\ ValueOf(outs, S) = f[N]
               /\ f[0] = 0 /\ \A n \in 1 .. N : f[n] = f[n - 1] + Share(outs, S, n)
  BY <1>1, ValueAddsUp
<1>3. PICK g : /\ ValueOf(more, T) = g[Len(more)]
               /\ g[0] = 0 /\ \A n \in 1 .. Len(more) : g[n] = g[n - 1] + Share(more, T, n)
  BY <1>1, ValueAddsUp
<1>4. SumsUp(f, x, N)
  BY <1>2 DEF Share, Valued, SumsUp
<1>5. SumsUp(g, x, N)
  <2> SUFFICES ASSUME NEW n \in 1 .. N
               PROVE  g[n] = g[n - 1] + x[n]
    BY <1>3, <1>4 DEF SumsUp
  <2>1. n \in 1 .. Len(more) /\ n - 1 \in 0 .. N - 1 /\ more[n] = outs[n]
    BY <1>1
  <2>2. Share(more, T, n) = Share(outs, S, n)
    BY <2>1 DEF Share
  <2>3. QED
    BY <1>3, <2>1, <2>2
<1>6. g[N + 1] = g[N] + o.value
  <2>1. Share(more, T, N + 1) = o.value
    BY <1>1 DEF Share
  <2>2. QED
    BY <1>1, <1>3, <2>1
<1>7. Changed(x, x, N, N, 0)
  BY <1>4 DEF Changed, Change, SumsUp
<1> HIDE DEF x, N
<1>8. f[N] \in Int /\ g[N] = f[N] + SumChange(N, 0, N)
  <2>1. N \in Nat
    BY <1>1
  <2>2. 0 \in Int
    OBVIOUS
  <2>3. QED
    BY <1>4, <1>5, <1>7, <2>1, <2>2, SumsDiffer
<1>9. QED
  BY <1>1, <1>2, <1>3, <1>6, <1>8 DEF SumChange

-----------------------------------------------------------------------------
(* Notes, keys and nullifiers                                               *)

\* A key that can spend what an output is paid to
Holds(pgk, o) ==
  /\ o.g_d # SmallOrderPoint
  /\ o.pk_d = ka_sapling_derive_public(Ivk(to_viewing_key(pgk)), o.g_d)

\* The nullifier that it reveals for it at a position
NullifierAt(pgk, o, p) ==
  prf_nf(NullifierDerivingKey(pgk.nsk),
         mixing_pedersen_hash(NoteCommit(o.g_d, o.pk_d, o.value, o.rcm), p))

HeldByOthers(pgk) == pgk.ak[2] \subseteq KnownScalars

SameContents(o, q) == o.g_d = q.g_d /\ o.pk_d = q.pk_d /\ o.value = q.value /\ o.rcm = q.rcm

\* Outputs with the same commitment have the same contents.
LEMMA CommitmentsBind ==
  ASSUME NEW o, NEW q, OutputCmu(o) = OutputCmu(q)
  PROVE  SameContents(o, q)
BY DEF OutputCmu, extract_p, NoteCommit, windowed_pedersen_commit, SameContents

\* The same key, position and note
SameSource(j, o, p, k, q, r) ==
  /\ p = r
  /\ NullifierDerivingKey(j.nsk) = NullifierDerivingKey(k.nsk)
  /\ SameContents(o, q)

\* A nullifier is that of one key, position and note.
LEMMA NullifiersBind ==
  ASSUME NEW o, NEW q, NEW j, NEW k, NEW p \in Nat, NEW r \in Nat,
         NullifierAt(j, o, p) = NullifierAt(k, q, r)
  PROVE  SameSource(j, o, p, k, q, r)
<1>1. ASSUME NEW a, NEW c, NEW n \in Nat
      PROVE  mixing_pedersen_hash([hash |-> a, r |-> c, position |-> 0], n)
             = [hash |-> a, r |-> c, position |-> n]
  BY DEF mixing_pedersen_hash
<1> USE DEF SameSource
<1>2. /\ NullifierDerivingKey(j.nsk) = NullifierDerivingKey(k.nsk)
      /\ [hash |-> <<"NoteCommitment", <<o.value, o.g_d, o.pk_d>>>>, r |-> o.rcm,
          position |-> p]
         = [hash |-> <<"NoteCommitment", <<q.value, q.g_d, q.pk_d>>>>, r |-> q.rcm,
            position |-> r]
  BY <1>1 DEF NullifierAt, prf_nf, NoteCommit, windowed_pedersen_commit
<1>3. p = r /\ SameContents(o, q)
  BY <1>2 DEF SameContents
<1>4. QED
  BY <1>2, <1>3

\* What is paid to a key is not paid to another.
LEMMA OneOwner ==
  ASSUME NEW o, NEW q, NEW j, NEW k, Holds(j, o), Holds(k, q), SameContents(o, q)
  PROVE  j.ak = k.ak /\ NullifierDerivingKey(j.nsk) = NullifierDerivingKey(k.nsk)
<1>1. Ivk(to_viewing_key(j)) = Ivk(to_viewing_key(k))
  BY DEF Holds, SameContents, ka_sapling_derive_public
<1>2. to_viewing_key(j).ak = to_viewing_key(k).ak /\ to_viewing_key(j).nk = to_viewing_key(k).nk
  BY <1>1 DEF Ivk
<1>3. QED
  BY <1>2 DEF to_viewing_key

WalletPgk == proof_generation_key(WalletKey)

\* Nobody else holds the wallet's key.
LEMMA WalletIsAlone ==
  ASSUME NEW j, j.ak = WalletPgk.ak
  PROVE  ~HeldByOthers(j)
BY SecretAssumption DEF SecretAssumption, HeldByOthers, WalletPgk, proof_generation_key,
   SpendValidatingKey

\* Randomizing a key that is not of small order hides none of its scalars.
LEMMA KeysOfOthers ==
  ASSUME NEW pgk \in ProofGenerationKeys, pgk.ak # SmallOrderPoint
  PROVE  \A ar : CanSign(randomize(pgk.ak, ar)) => HeldByOthers(pgk)
BY DEF ProofGenerationKeys, SpendValidatingKey, SmallOrderPoint, CanSign, randomize,
   HeldByOthers

\* The output that a spend is of, by what its witness says
Opening(w) ==
  [value |-> w.value, rcv |-> Rcv, g_d |-> w.g_d,
   pk_d |-> ka_sapling_derive_public(SpendIvk(w), w.g_d), rcm |-> w.rcm, esk |-> Esk]

\* A witness of a spend opens the commitment that it shows to be in the tree.
LEMMA OpeningOfWitness ==
  ASSUME NEW w, w.g_d # SmallOrderPoint
  PROVE  /\ Holds(w.proof_generation_key, Opening(w))
         /\ extract_p(SpendCm(w)) = OutputCmu(Opening(w))
         /\ SpendNf(w)
            = NullifierAt(w.proof_generation_key, Opening(w), PositionOf(w.auth_path))
BY DEF Holds, Opening, SpendIvk, SpendNk, to_viewing_key, OutputCmu, SpendCm, SpendNf,
   NullifierAt

\* The trees over the first leaves
LEMMA Subtrees ==
  ASSUME outputs \in Seq(OutputWitnesses), NEW k \in 0 .. Len(outputs)
  PROVE  /\ Len(SubSeq(Leaves, 1, k)) = k
         /\ \A i \in 1 .. k : SubSeq(Leaves, 1, k)[i] = OutputCmu(outputs[i])
<1>1. Len(outputs) \in Nat /\ DOMAIN outputs = 1 .. Len(outputs)
  OBVIOUS
<1>2. Leaves \in Seq({OutputCmu(outputs[i]) : i \in DOMAIN outputs}) /\ Len(Leaves) = Len(outputs)
  BY <1>1 DEF Leaves
<1>3. \A i \in 1 .. Len(outputs) : Leaves[i] = OutputCmu(outputs[i])
  BY <1>1 DEF Leaves
<1> HIDE DEF Leaves
<1>4. k \in Nat /\ k <= Len(Leaves)
  BY <1>1, <1>2
<1>5. Len(SubSeq(Leaves, 1, k)) = k /\ \A i \in 1 .. k : SubSeq(Leaves, 1, k)[i] = Leaves[i]
  BY <1>2, <1>4
<1>6. QED
  BY <1>1, <1>3, <1>5

\* Positions are naturals.
LEMMA PositionIsNatural ==
  ASSUME NEW path, Len(path) = Depth
  PROVE  PositionOf(path) \in Nat
<1>1. Len(path) \in Nat
  BY TreeAssumption DEF TreeAssumption, Depth
<1>2. PICK sum : PositionOf(path) = sum[Len(path)] /\ \A l \in 0 .. Len(path) : sum[l] \in Nat
  BY <1>1, PositionAddsUp
<1>3. QED
  BY <1>1, <1>2

\* A spend with a value is of the leaf at the position it reveals its
\* nullifier for.
LEMMA SpendOfLeaf ==
  ASSUME outputs \in Seq(OutputWitnesses), NEW w, Len(w.auth_path) = Depth,
         SpendSatisfied(w), w.anchor \in Anchors, w.value # 0
  PROVE  /\ PositionOf(w.auth_path) \in Positions
         /\ SameContents(outputs[PositionOf(w.auth_path) + 1], Opening(w))
<1> DEFINE p == PositionOf(w.auth_path)
<1>1. w.g_d # SmallOrderPoint /\ SpendRoot(w) = w.anchor
  BY DEF SpendSatisfied, assert_not_small_order, AnchorFits
<1>2. PICK k \in 0 .. Len(outputs) : w.anchor = RootOf(SubSeq(Leaves, 1, k))
  BY DEF Anchors
<1>3. PICK tree : tree = SubSeq(Leaves, 1, k)
  OBVIOUS
<1>4. Len(tree) = k /\ \A i \in 1 .. k : tree[i] = OutputCmu(outputs[i])
  BY <1>3, Subtrees
<1>5. k \in Nat /\ k <= Len(outputs) /\ Len(outputs) \in Nat
  OBVIOUS
<1>6. p \in 0 .. k - 1 /\ tree[p + 1] = extract_p(SpendCm(w))
  <2>1. Len(tree) \in Nat
    BY <1>4, <1>5
  <2>2. SpendRoot(w) = RootOf(tree)
    BY <1>1, <1>2, <1>3
  <2>3. /\ PositionOf(w.auth_path) \in 0 .. Len(tree) - 1
        /\ tree[PositionOf(w.auth_path) + 1] = extract_p(SpendCm(w))
    BY <2>1, <2>2, LeafOfRoot
  <2>4. QED
    BY <1>4, <2>3
<1> HIDE DEF p
<1>7. OutputCmu(outputs[p + 1]) = OutputCmu(Opening(w))
  <2>1. p + 1 \in 1 .. k
    BY <1>5, <1>6
  <2>2. tree[p + 1] = OutputCmu(outputs[p + 1])
    BY <1>4, <2>1
  <2>3. QED
    BY <1>1, <1>6, <2>2, OpeningOfWitness
<1>8. SameContents(outputs[p + 1], Opening(w))
  BY <1>7, CommitmentsBind
<1>9. p \in Positions
  BY <1>5, <1>6 DEF Positions
<1>10. QED
  BY <1>8, <1>9 DEF p

-----------------------------------------------------------------------------
(* The invariant of the pool                                               *)

\* Of every note that was spent the nullifier is known: that of its owner.
SpentAreRevealed ==
  \A p \in spent :
    \E pgk \in ProofGenerationKeys :
      /\ Holds(pgk, outputs[p + 1])
      /\ NullifierAt(pgk, outputs[p + 1], p) \in nullifiers

\* What others spent they own.
TakenAreOthers ==
  \A p \in taken :
    /\ p \in Positions
    /\ \E pgk \in ProofGenerationKeys : Holds(pgk, outputs[p + 1]) /\ HeldByOthers(pgk)

\* Nullifiers come from others for what they own, whether it is in the tree or
\* not, and from the wallet for the positions it has tried.
RevealedByOwners ==
  \A f \in nullifiers :
    \E pgk \in ProofGenerationKeys, o \in OutputWitnesses, p \in Nat :
      /\ Holds(pgk, o)
      /\ f = NullifierAt(pgk, o, p)
      /\ HeldByOthers(pgk) \/ p \in attempted

IInv ==
  /\ outputs \in Seq(OutputWitnesses) /\ Len(outputs) <= MaxLeaves
  /\ PoolIsBacked
  /\ SpentAreRevealed
  /\ TakenAreOthers
  /\ RevealedByOwners
  /\ WalletIsNeverRefused

\* The outputs of the chain have values.
LEMMA OutputsAreValued ==
  ASSUME outputs \in Seq(OutputWitnesses)
  PROVE  Valued(outputs) /\ \A S : ValueAt(S) = ValueOf(outputs, S)
<1>1. Values \subseteq Nat
  BY PoolAssumption DEF PoolAssumption
<1>2. \A o \in OutputWitnesses : o.value \in Nat
  BY <1>1 DEF OutputWitnesses
<1>3. Valued(outputs)
  BY <1>2 DEF Valued
<1>4. QED
  BY <1>3 DEF ValueAt, ValueOf

\* A new nullifier with a value takes one note from what backs the pool, and
\* with none nothing.
LEMMA SpendIsBacked ==
  ASSUME outputs \in Seq(OutputWitnesses), PoolIsBacked, SpentAreRevealed,
         NEW w, w.proof_generation_key \in ProofGenerationKeys, w.value \in Values,
         Len(w.auth_path) = Depth, SpendSatisfied(w), w.anchor \in Anchors,
         NEW d, d.nullifier = SpendNf(w), d.nullifier \notin nullifiers,
         Accept(d, w.value, PositionOf(w.auth_path)), UNCHANGED outputs
  PROVE  /\ PoolIsBacked' /\ SpentAreRevealed'
         /\ w.value # 0 => /\ PositionOf(w.auth_path) \in Positions
                           /\ Holds(w.proof_generation_key,
                                   outputs[PositionOf(w.auth_path) + 1])
<1> DEFINE p == PositionOf(w.auth_path)
           pgk == w.proof_generation_key
           o == outputs[p + 1]
<1>1. /\ nullifiers' = nullifiers \cup {SpendNf(w)}
      /\ pool' = pool - w.value
      /\ spent' = IF w.value = 0 THEN spent ELSE spent \cup {p}
  BY DEF Accept
<1>2. w.g_d # SmallOrderPoint
  BY DEF SpendSatisfied, assert_not_small_order
<1>3. /\ Holds(pgk, Opening(w))
      /\ SpendNf(w) = NullifierAt(pgk, Opening(w), p)
  BY <1>2, OpeningOfWitness
<1>4. Positions' = Positions /\ \A S : ValueAt(S)' = ValueAt(S)
  BY DEF Positions, ValueAt
<1>5. CASE w.value = 0
  <2>1. spent' = spent /\ pool' = pool
    <3>1. pool \in Int
      <4>1. PICK S : pool = ValueOf(outputs, S)
        BY OutputsAreValued DEF PoolIsBacked
      <4>2. QED
        BY <4>1, OutputsAreValued, ValueIsInteger
    <3>2. QED
      BY <1>1, <1>5, <3>1
  <2>2. PoolIsBacked'
    BY <1>4, <2>1 DEF PoolIsBacked
  <2>3. SpentAreRevealed'
    BY <1>1, <2>1 DEF SpentAreRevealed
  <2>4. QED
    BY <1>5, <2>2, <2>3
<1>6. CASE w.value # 0
  <2>1. p \in Positions /\ SameContents(o, Opening(w))
    BY <1>6, SpendOfLeaf
  <2>2. Holds(pgk, o) /\ NullifierAt(pgk, o, p) = SpendNf(w) /\ o.value = w.value
    BY <1>3, <2>1 DEF SameContents, Holds, NullifierAt, Opening
  <2>3. p \notin spent
    <3>1. SUFFICES ASSUME p \in spent PROVE FALSE
      OBVIOUS
    <3>2. PICK j \in ProofGenerationKeys : Holds(j, o) /\ NullifierAt(j, o, p) \in nullifiers
      BY <3>1 DEF SpentAreRevealed
    <3>3. NullifierDerivingKey(j.nsk) = NullifierDerivingKey(pgk.nsk)
      BY <2>2, <3>2, OneOwner DEF SameContents
    <3>4. NullifierAt(j, o, p) = NullifierAt(pgk, o, p)
      BY <3>3 DEF NullifierAt
    <3>5. QED
      BY <2>2, <3>2, <3>4
  <2>4. spent' = spent \cup {p}
    BY <1>1, <1>6
  <2>5. PoolIsBacked'
    <3> DEFINE S == Positions \ spent
    <3>1. Positions \ spent' = S \ {p} /\ spent' \subseteq Positions /\ p \in S
      BY <2>1, <2>3, <2>4 DEF PoolIsBacked
    <3>2. p \in 0 .. Len(outputs) - 1
      BY <2>1 DEF Positions
    <3>3. /\ ValueOf(outputs, S) \in Int
          /\ ValueOf(outputs, S \ {p}) = ValueOf(outputs, S) - o.value
      <4>1. Valued(outputs)
        BY OutputsAreValued
      <4> HIDE DEF S, p
      <4>2. QED
        BY <3>1, <3>2, <4>1, ValueOfFewer
    <3>4. pool = ValueAt(S)
      BY DEF PoolIsBacked
    <3>5. pool' = ValueAt(S \ {p})
      <4> HIDE DEF S, p
      <4>1. QED
        BY <1>1, <2>2, <3>3, <3>4, OutputsAreValued
    <3> HIDE DEF S
    <3>6. QED
      BY <1>4, <3>1, <3>5 DEF PoolIsBacked
  <2>6. SpentAreRevealed'
    <3> SUFFICES ASSUME NEW q \in spent'
                 PROVE  \E j \in ProofGenerationKeys :
                          /\ Holds(j, outputs[q + 1])
                          /\ NullifierAt(j, outputs[q + 1], q) \in nullifiers'
      BY DEF SpentAreRevealed
    <3>1. CASE q \in spent
      BY <1>1, <3>1 DEF SpentAreRevealed
    <3>2. CASE q = p
      BY <1>1, <2>2, <3>2
    <3>3. QED
      BY <2>4, <3>1, <3>2
  <2>7. QED
    BY <2>1, <2>2, <2>5, <2>6
<1>7. QED
  BY <1>5, <1>6

\* An output backs what is paid in for it, and leaves all others where they are.
LEMMA OutputStep ==
  ASSUME IInv, NEW w \in OutputWitnesses, AddOutput(w)
  PROVE  IInv'
<1>1. /\ outputs' = Append(outputs, w) /\ pool' = pool + w.value
      /\ Len(outputs) < MaxLeaves
      /\ UNCHANGED <<nullifiers, spent, taken, attempted, refused>>
  BY DEF AddOutput
<1>2. outputs \in Seq(OutputWitnesses) /\ Len(outputs) \in Nat
  BY DEF IInv
<1>3. /\ outputs' \in Seq(OutputWitnesses) /\ Len(outputs') = Len(outputs) + 1
      /\ \A n \in 1 .. Len(outputs) : outputs'[n] = outputs[n]
      /\ outputs'[Len(outputs) + 1] = w
  BY <1>1, <1>2
<1>4. Len(outputs') <= MaxLeaves
  <2>1. MaxLeaves \in Int
    BY PoolAssumption, PowersPositive, TreeAssumption DEF PoolAssumption, TreeAssumption
  <2>2. QED
    BY <1>1, <1>2, <1>3, <2>1
<1>5. /\ Positions \subseteq Positions'
      /\ \A p \in Positions : outputs'[p + 1] = outputs[p + 1]
  BY <1>2, <1>3 DEF Positions
<1>6. PoolIsBacked'
  <2> DEFINE S == Positions \ spent
             T == Positions' \ spent'
  <2>1. spent \subseteq Positions /\ pool = ValueOf(outputs, S)
    BY <1>2, OutputsAreValued DEF IInv, PoolIsBacked
  <2>2. Len(outputs) \in T /\ \A p \in 0 .. Len(outputs) - 1 : p \in S <=> p \in T
    BY <1>1, <1>2, <1>3, <2>1 DEF Positions
  <2>3. Valued(outputs) /\ w.value \in Nat
    <3>1. w.value \in Values
      BY DEF OutputWitnesses
    <3>2. QED
      BY <1>2, <3>1, OutputsAreValued, PoolAssumption DEF PoolAssumption
  <2>4. PICK more : more = outputs'
    OBVIOUS
  <2>5. ValueOf(more, T) = ValueOf(outputs, S) + w.value
    <3> HIDE DEF S, T
    <3>1. QED
      BY <1>3, <2>2, <2>3, <2>4, ValueOfMore
  <2>6. ValueAt(Positions \ spent)' = ValueOf(outputs', T)
    BY DEF ValueAt, ValueOf
  <2>7. pool' = ValueAt(Positions \ spent)'
    <3> HIDE DEF S, T
    <3>1. QED
      BY <1>1, <2>1, <2>4, <2>5, <2>6
  <2>8. spent' \subseteq Positions'
    BY <1>1, <1>5, <2>1
  <2>9. QED
    BY <2>7, <2>8 DEF PoolIsBacked
<1>7. SpentAreRevealed'
  <2>1. spent \subseteq Positions
    BY DEF IInv, PoolIsBacked
  <2>2. \A p \in spent' : outputs'[p + 1] = outputs[p + 1] /\ p \in spent
    BY <1>1, <1>5, <2>1
  <2>3. QED
    BY <1>1, <2>2 DEF IInv, SpentAreRevealed
<1>8. TakenAreOthers'
  <2>1. \A p \in taken' : p \in Positions' /\ outputs'[p + 1] = outputs[p + 1] /\ p \in taken
    BY <1>1, <1>5 DEF IInv, TakenAreOthers
  <2>2. QED
    BY <2>1 DEF IInv, TakenAreOthers
<1>9. RevealedByOwners' /\ WalletIsNeverRefused'
  BY <1>1 DEF IInv, RevealedByOwners, WalletIsNeverRefused
<1>10. QED
  BY <1>3, <1>4, <1>6, <1>7, <1>8, <1>9 DEF IInv

\* What a witness opens is an output that could be in the tree.
LEMMA OpeningIsAnOutput ==
  ASSUME NEW w, w.value \in Values, w.g_d \in GeneratorPoints,
         w.rcm \in {rcm_of(r) : r \in Rseeds}, w.proof_generation_key \in ProofGenerationKeys
  PROVE  Opening(w) \in OutputWitnesses
<1>1. Opening(w).pk_d \in TransmissionKeys
  BY DEF TransmissionKeys, Opening, SpendIvk, SpendNk, to_viewing_key
<1>2. QED
  BY <1>1 DEF Opening, OutputWitnesses

\* Others spend what they own, and get in the way of nobody.
LEMMA OthersStep ==
  ASSUME IInv, NEW w, w.proof_generation_key \in ProofGenerationKeys, w.value \in Values,
         w.g_d \in GeneratorPoints, w.rcm \in {rcm_of(r) : r \in Rseeds},
         Len(w.auth_path) = Depth, OtherSpends(w)
  PROVE  IInv'
<1> DEFINE p == PositionOf(w.auth_path)
           pgk == w.proof_generation_key
           d == [cv |-> expose_value_commitment(w), anchor |-> w.anchor,
                 nullifier |-> SpendNf(w), rk |-> SpendRk(w), zkproof |-> ProveSpend(w)]
<1>1. /\ CanSign(SpendRk(w)) /\ SpendSatisfied(w)
      /\ Accepts(d) /\ Accept(d, w.value, p)
      /\ taken' = IF w.value = 0 THEN taken ELSE taken \cup {p}
      /\ UNCHANGED <<outputs, attempted, refused>>
  BY DEF OtherSpends
<1>2. d.nullifier = SpendNf(w) /\ d.nullifier \notin nullifiers /\ w.anchor \in Anchors
  BY <1>1 DEF Accepts
<1> HIDE DEF d
<1>3. HeldByOthers(pgk)
  <2>1. pgk.ak # SmallOrderPoint
    BY <1>1 DEF SpendSatisfied, assert_not_small_order
  <2>2. QED
    BY <1>1, <2>1, KeysOfOthers DEF SpendRk
<1>4. /\ PoolIsBacked' /\ SpentAreRevealed'
      /\ w.value # 0 => p \in Positions /\ Holds(pgk, outputs[p + 1])
  <2>1. outputs \in Seq(OutputWitnesses) /\ PoolIsBacked /\ SpentAreRevealed
    BY DEF IInv
  <2>2. UNCHANGED outputs
    BY <1>1
  <2>3. QED
    BY <1>1, <1>2, <2>1, <2>2, SpendIsBacked
<1>5. outputs' = outputs /\ attempted' = attempted /\ Positions' = Positions
  BY <1>1 DEF Positions
<1>6. TakenAreOthers'
  <2> SUFFICES ASSUME NEW q \in taken'
               PROVE  /\ q \in Positions
                      /\ \E j \in ProofGenerationKeys :
                           Holds(j, outputs[q + 1]) /\ HeldByOthers(j)
    BY <1>5 DEF TakenAreOthers
  <2>1. CASE q \in taken
    BY <2>1 DEF IInv, TakenAreOthers
  <2>2. CASE w.value # 0 /\ q = p
    BY <1>3, <1>4, <2>2
  <2>3. QED
    BY <1>1, <2>1, <2>2
<1>7. RevealedByOwners'
  <2>1. nullifiers' = nullifiers \cup {SpendNf(w)}
    BY <1>1, <1>2 DEF Accept
  <2>2. /\ Holds(pgk, Opening(w)) /\ SpendNf(w) = NullifierAt(pgk, Opening(w), p)
        /\ p \in Nat /\ Opening(w) \in OutputWitnesses
    <3>1. w.g_d # SmallOrderPoint
      BY <1>1 DEF SpendSatisfied, assert_not_small_order
    <3>2. QED
      BY <3>1, OpeningOfWitness, OpeningIsAnOutput, PositionIsNatural
  <2> HIDE DEF p
  <2> SUFFICES ASSUME NEW f \in nullifiers'
               PROVE  \E j \in ProofGenerationKeys, o \in OutputWitnesses, q \in Nat :
                        /\ Holds(j, o) /\ f = NullifierAt(j, o, q)
                        /\ HeldByOthers(j) \/ q \in attempted
    BY <1>5 DEF RevealedByOwners
  <2>3. CASE f \in nullifiers
    BY <2>3 DEF IInv, RevealedByOwners
  <2>4. CASE f = SpendNf(w)
    BY <1>3, <2>2, <2>4
  <2>5. QED
    BY <2>1, <2>3, <2>4
<1>8. WalletIsNeverRefused'
  BY <1>1 DEF IInv, WalletIsNeverRefused
<1>9. QED
  BY <1>4, <1>5, <1>6, <1>7, <1>8 DEF IInv

\* What the wallet's prover is given for its note at a position
WalletWitness(note, position, k) ==
  PrepareSpend(proof_generation_key(WalletKey), note.recipient.diversifier, note.rseed,
               note.value, Alpha, Rcv, RootOf(SubSeq(Leaves, 1, k)),
               MerklePathOf(SubSeq(Leaves, 1, k), position))[1]

\* A note that the wallet receives is an output it owns.
LEMMA NotesOfWallet ==
  ASSUME outputs \in Seq(OutputWitnesses), NEW n \in WalletNotes, IsWalletNote(n[1], n[2])
  PROVE  /\ n[1] \in Positions
         /\ Holds(WalletPgk, outputs[n[1] + 1])
         /\ \E d \in Diversifiers, r \in Rseeds :
              /\ n[2] = [recipient |-> [diversifier |-> d,
                                        pk_d |-> <<"pk_d", Ivk(WalletVk), d>>],
                         value |-> outputs[n[1] + 1].value, rseed |-> r]
              /\ diversify_hash(d)[1] = <<"g_d", d>> /\ <<"g_d", d>> \in GeneratorPoints
              /\ ToPaymentAddress(Ivk(WalletVk), d) # None
              /\ ka_sapling_derive_public(Ivk(WalletVk), <<"g_d", d>>)
                 = <<"pk_d", Ivk(WalletVk), d>>
              /\ cm_full_point(n[2])
                 = NoteCommit(<<"g_d", d>>, <<"pk_d", Ivk(WalletVk), d>>,
                              outputs[n[1] + 1].value, rcm_of(r))
              /\ SameContents(outputs[n[1] + 1],
                              [g_d |-> <<"g_d", d>>, pk_d |-> <<"pk_d", Ivk(WalletVk), d>>,
                               value |-> outputs[n[1] + 1].value, rcm |-> rcm_of(r)])
<1>1. PICK p \in Positions, d \in Diversifiers, r \in Rseeds :
        n = <<p, Note(ToPaymentAddress(Ivk(WalletVk), d)[1], outputs[p + 1].value, r)>>
  BY DEF WalletNotes
<1> DEFINE pk_d == <<"pk_d", Ivk(WalletVk), d>>
           o == outputs[p + 1]
           note == n[2]
<1>2. /\ diversify_hash(d) = Some(<<"g_d", d>>)
      /\ TransmissionKey(Ivk(WalletVk), d) = Some(pk_d)
      /\ ToPaymentAddress(Ivk(WalletVk), d) = Some([diversifier |-> d, pk_d |-> pk_d])
  <2>1. d \in ValidDiversifiers
    BY PoolAssumption DEF PoolAssumption
  <2>2. Some(pk_d) # None /\ Some(pk_d)[1] = pk_d
    BY DEF Some, None
  <2> HIDE DEF pk_d
  <2>3. TransmissionKey(Ivk(WalletVk), d) = Some(pk_d)
    BY <2>1 DEF TransmissionKey, pk_d
  <2>4. QED
    BY <2>1, <2>2, <2>3 DEF diversify_hash, ToPaymentAddress, FromParts
<1>3. n[1] = p /\ note = [recipient |-> [diversifier |-> d, pk_d |-> pk_d],
                          value |-> o.value, rseed |-> r]
  BY <1>1, <1>2 DEF Some, Note
<1>4. diversify_hash(d)[1] = <<"g_d", d>> /\ <<"g_d", d>> \in GeneratorPoints
  <2>1. diversify_hash(d)[1] = <<"g_d", d>>
    BY <1>2 DEF Some
  <2>2. QED
    BY <2>1 DEF GeneratorPoints
<1>5. <<"g_d", d>> # SmallOrderPoint
  BY DEF SmallOrderPoint
<1>6. ka_sapling_derive_public(Ivk(WalletVk), <<"g_d", d>>) = pk_d
  BY <1>5 DEF ka_sapling_derive_public
<1>7. cm_full_point(note) = NoteCommit(<<"g_d", d>>, pk_d, o.value, rcm_of(r))
  <2> HIDE DEF pk_d, o, note
  <2>1. /\ note.recipient.diversifier = d /\ note.recipient.pk_d = pk_d
        /\ note.value = o.value /\ note.rseed = r
    BY <1>3
  <2>2. QED
    BY <1>4, <2>1 DEF cm_full_point
<1>8. SameContents(o, [g_d |-> <<"g_d", d>>, pk_d |-> pk_d, value |-> o.value,
                       rcm |-> rcm_of(r)])
  <2> DEFINE q == [g_d |-> <<"g_d", d>>, pk_d |-> pk_d, value |-> o.value,
                   rcm |-> rcm_of(r)]
  <2>1. Leaves[p + 1] = OutputCmu(o)
    BY <1>1 DEF Leaves, Positions
  <2>2. OutputCmu(o) = OutputCmu(q)
    BY <1>3, <1>7, <2>1 DEF IsWalletNote, cmu, OutputCmu
  <2>3. QED
    BY <2>2, CommitmentsBind
<1>9. Holds(WalletPgk, o)
  <2>1. to_viewing_key(WalletPgk) = WalletVk
    BY DEF WalletVk, WalletPgk
  <2>2. QED
    BY <1>5, <1>6, <1>8, <2>1 DEF Holds, SameContents
<1>10. ToPaymentAddress(Ivk(WalletVk), d) # None
  BY <1>2 DEF Some, None
<1>11. QED
  BY <1>3, <1>4, <1>6, <1>7, <1>8, <1>9, <1>10

\* What the wallet proves for its note in the tree over k leaves is true, and
\* is what its description says.
LEMMA WalletProves ==
  ASSUME outputs \in Seq(OutputWitnesses), Len(outputs) <= MaxLeaves,
         NEW n \in WalletNotes, IsWalletNote(n[1], n[2]),
         NEW k \in n[1] + 1 .. Len(outputs),
         NEW w, w = WalletWitness(n[2], n[1], k),
         NEW d, d = WalletDescription(n[2], n[1], k)
  PROVE  /\ w.proof_generation_key = WalletPgk /\ w.value = n[2].value
         /\ w.value \in Values /\ w.g_d \in GeneratorPoints
         /\ w.rcm \in {rcm_of(r) : r \in Rseeds}
         /\ Len(w.auth_path) = Depth /\ PositionOf(w.auth_path) = n[1]
         /\ SpendSatisfied(w) /\ w.anchor \in Anchors /\ d.anchor \in Anchors
         /\ d.nullifier = SpendNf(w) /\ SpendVerifies(d)
         /\ SameContents(Opening(w), outputs[n[1] + 1])
<1> DEFINE p == n[1]
           note == n[2]
           o == outputs[p + 1]
           pgk == WalletPgk
<1>1. PICK dv \in Diversifiers, r \in Rseeds :
        /\ note = [recipient |-> [diversifier |-> dv,
                                  pk_d |-> <<"pk_d", Ivk(WalletVk), dv>>],
                   value |-> o.value, rseed |-> r]
        /\ diversify_hash(dv)[1] = <<"g_d", dv>> /\ <<"g_d", dv>> \in GeneratorPoints
        /\ ToPaymentAddress(Ivk(WalletVk), dv) # None
        /\ ka_sapling_derive_public(Ivk(WalletVk), <<"g_d", dv>>)
           = <<"pk_d", Ivk(WalletVk), dv>>
        /\ cm_full_point(note)
           = NoteCommit(<<"g_d", dv>>, <<"pk_d", Ivk(WalletVk), dv>>, o.value, rcm_of(r))
        /\ SameContents(o, [g_d |-> <<"g_d", dv>>, pk_d |-> <<"pk_d", Ivk(WalletVk), dv>>,
                            value |-> o.value, rcm |-> rcm_of(r)])
  BY NotesOfWallet
<1>2. p \in Positions /\ Holds(pgk, o)
  BY NotesOfWallet
<1>3. /\ p \in Nat /\ Len(outputs) \in Nat /\ k \in 0 .. Len(outputs) /\ p \in 0 .. k - 1
      /\ p + 1 \in DOMAIN outputs
  BY <1>2 DEF Positions
<1>4. PICK tree : tree = SubSeq(Leaves, 1, k)
  OBVIOUS
<1> DEFINE path == MerklePathOf(tree, p)
           bits == [l \in Levels |-> <<path.path_elems[l],
                                       (path.position \div 2 ^ (l - 1)) % 2 = 1>>]
<1>5. to_viewing_key(pgk) = WalletVk
  BY DEF WalletVk, WalletPgk
<1>6. /\ w.value = o.value /\ w.rcv = Rcv /\ w.proof_generation_key = pgk
      /\ w.g_d = <<"g_d", dv>> /\ w.rcm = rcm_of(r) /\ w.ar = Alpha
      /\ w.auth_path = bits /\ w.anchor = RootOf(tree)
  <2> HIDE DEF bits, path
  <2>1. note.recipient.diversifier = dv /\ note.rseed = r /\ note.value = o.value
    BY <1>1
  <2>2. w = PrepareSpend(pgk, dv, r, o.value, Alpha, Rcv, RootOf(tree), path)[1]
    BY <1>4, <2>1 DEF WalletWitness, WalletPgk, path
  <2>3. PrepareSpend(pgk, dv, r, o.value, Alpha, Rcv, RootOf(tree), path)
        = Some([value |-> o.value, rcv |-> Rcv, proof_generation_key |-> pgk,
                g_d |-> diversify_hash(dv)[1], rcm |-> rcm_of(r), ar |-> Alpha,
                auth_path |-> bits, anchor |-> RootOf(tree)])
    BY <1>1, <1>5 DEF PrepareSpend, bits
  <2>4. \A x : Some(x)[1] = x
    BY DEF Some
  <2>5. w = [value |-> o.value, rcv |-> Rcv, proof_generation_key |-> pgk,
             g_d |-> diversify_hash(dv)[1], rcm |-> rcm_of(r), ar |-> Alpha,
             auth_path |-> bits, anchor |-> RootOf(tree)]
    BY <2>2, <2>3, <2>4
  <2>6. diversify_hash(dv)[1] = <<"g_d", dv>>
    BY <1>1
  <2> HIDE DEF o, pgk
  <2>7. QED
    BY <2>5, <2>6
<1> HIDE DEF bits
<1>7. Len(w.auth_path) = Depth /\ \A l \in Levels :
        w.auth_path[l] = <<path.path_elems[l], (p \div 2 ^ (l - 1)) % 2 = 1>>
  <2>1. Depth \in Nat /\ Levels = 1 .. Depth
    BY TreeAssumption DEF TreeAssumption, Depth, Levels
  <2>2. path.position = p
    BY DEF MerklePathOf
  <2>3. bits \in Seq({bits[l] : l \in Levels}) /\ Len(bits) = Depth
    <3>1. DOMAIN bits = 1 .. Depth /\ bits = [l \in 1 .. Depth |-> bits[l]]
      BY <2>1 DEF bits
    <3>2. bits \in Seq({bits[l] : l \in 1 .. Depth}) /\ Len(bits) = Depth
      BY <2>1, <3>1, IsSequence
    <3>3. QED
      BY <2>1, <3>2
  <2>4. w.auth_path = bits
    BY <1>6
  <2>5. \A l \in Levels : bits[l] = <<path.path_elems[l], (p \div 2 ^ (l - 1)) % 2 = 1>>
    BY <2>2 DEF bits
  <2>6. QED
    BY <2>3, <2>4, <2>5
<1>8. /\ SpendIvk(w) = Ivk(WalletVk) /\ SpendNk(w) = WalletVk.nk
      /\ SpendCm(w) = cm_full_point(note)
  <2>1. SpendIvk(w) = Ivk(WalletVk) /\ SpendNk(w) = WalletVk.nk
    BY <1>5, <1>6 DEF SpendIvk, SpendNk, to_viewing_key
  <2>2. QED
    BY <1>1, <1>6, <2>1 DEF SpendCm
<1>9. SameContents(Opening(w), o)
  BY <1>1, <1>6, <1>8 DEF SameContents, Opening
<1>10. SpendRoot(w) = RootOf(tree) /\ PositionOf(w.auth_path) = p
  <2>1. Len(tree) = k /\ tree[p + 1] = OutputCmu(o)
    <3>1. p + 1 \in 1 .. k
      BY <1>3
    <3>2. QED
      BY <1>3, <1>4, <3>1, Subtrees
  <2>2. k \in Nat /\ k <= 2 ^ Depth
    <3>1. MaxLeaves \in 0 .. 2 ^ Depth /\ 2 ^ Depth \in Nat
      BY PoolAssumption, TreeAssumption, PowersPositive
         DEF PoolAssumption, TreeAssumption, Depth
    <3>2. QED
      BY <1>3, <3>1
  <2>3. extract_p(SpendCm(w)) = tree[p + 1]
    BY <1>1, <1>8, <2>1 DEF OutputCmu, SameContents
  <2>4. Len(tree) \in Nat /\ Len(tree) <= 2 ^ Depth /\ p \in 0 .. Len(tree) - 1
    BY <1>3, <2>1, <2>2
  <2>5. HasPathOf(w, tree, p)
    BY <1>7 DEF HasPathOf
  <2>6. QED
    BY <2>3, <2>4, <2>5, RootOfLeaf
<1>11. SpendSatisfied(w)
  <2>1. pgk.ak # SmallOrderPoint
    BY DEF WalletPgk, proof_generation_key, SpendValidatingKey, SmallOrderPoint
  <2>2. w.g_d # SmallOrderPoint
    BY <1>6 DEF SmallOrderPoint
  <2>3. QED
    BY <1>6, <1>10, <2>1, <2>2 DEF SpendSatisfied, assert_not_small_order, AnchorFits
<1>12. w.anchor \in Anchors
  BY <1>3, <1>4, <1>6 DEF Anchors
<1>13. d = [cv |-> ValueCommit(note.value, Rcv), anchor |-> RootOf(tree),
            nullifier |-> nf(note, WalletVk.nk, p), rk |-> randomize(WalletVk.ak, Alpha),
            zkproof |-> ProveSpend(w)]
  BY <1>4 DEF WalletDescription, WalletWitness
<1>14. SpendNf(w) = nf(note, WalletVk.nk, p)
  BY <1>8, <1>10 DEF SpendNf, nf
<1>15. /\ SpendRk(w) = randomize(WalletVk.ak, Alpha)
       /\ expose_value_commitment(w) = ValueCommit(note.value, Rcv)
  <2>1. pgk.ak = WalletVk.ak
    BY <1>5 DEF to_viewing_key
  <2>2. note.value = o.value
    BY <1>1
  <2>3. QED
    BY <1>6, <2>1, <2>2 DEF SpendRk, expose_value_commitment
<1>16. SpendVerifies(d)
  <2>1. /\ d.zkproof.satisfied = SpendSatisfied(w) /\ d.zkproof.inputs = SpendInputs(w)
        /\ d.rk = SpendRk(w) /\ d.cv = expose_value_commitment(w) /\ d.anchor = w.anchor
        /\ d.nullifier = SpendNf(w)
    BY <1>6, <1>13, <1>14, <1>15 DEF ProveSpend
  <2>2. QED
    BY <1>11, <2>1 DEF SpendVerifies, ProofVerifies, SpendInputs
<1>17. w.value \in Values /\ w.value = note.value
  <2>1. o \in OutputWitnesses
    BY <1>3
  <2>2. QED
    BY <1>1, <1>6, <2>1 DEF OutputWitnesses
<1>18. d.anchor = w.anchor /\ d.nullifier = SpendNf(w)
  BY <1>6, <1>13, <1>14
<1>19. QED
  BY <1>1, <1>6, <1>7, <1>9, <1>10, <1>11, <1>12, <1>16, <1>17, <1>18

\* A note that the wallet has not tried has a nullifier that nobody revealed:
\* only the wallet owns it.
LEMMA NullifierIsNew ==
  ASSUME outputs \in Seq(OutputWitnesses), RevealedByOwners,
         NEW p \in Positions, p \notin attempted, Holds(WalletPgk, outputs[p + 1]),
         NEW o, SameContents(o, outputs[p + 1])
  PROVE  NullifierAt(WalletPgk, o, p) \notin nullifiers
<1> SUFFICES ASSUME NullifierAt(WalletPgk, o, p) \in nullifiers PROVE FALSE
  OBVIOUS
<1>1. PICK pgk \in ProofGenerationKeys, q \in OutputWitnesses, r \in Nat :
        /\ Holds(pgk, q)
        /\ NullifierAt(WalletPgk, o, p) = NullifierAt(pgk, q, r)
        /\ HeldByOthers(pgk) \/ r \in attempted
  BY DEF RevealedByOwners
<1>2. p \in Nat
  BY DEF Positions
<1>3. p = r /\ SameContents(o, q)
  <2>1. r \in Nat /\ NullifierAt(WalletPgk, o, p) = NullifierAt(pgk, q, r)
    BY <1>1
  <2>2. SameSource(WalletPgk, o, p, pgk, q, r)
    BY <1>2, <2>1, NullifiersBind
  <2>3. QED
    BY <2>2 DEF SameSource
<1>4. HeldByOthers(pgk)
  BY <1>1, <1>3
<1>5. SameContents(outputs[p + 1], q)
  BY <1>3 DEF SameContents
<1>6. WalletPgk.ak = pgk.ak
  BY <1>1, <1>5, OneOwner
<1>7. QED
  BY <1>4, <1>6, WalletIsAlone

\* The wallet spends any note it has not tried yet, and is not refused.
LEMMA WalletStep ==
  ASSUME IInv, NEW n \in WalletNotes, NEW k \in n[1] + 1 .. Len(outputs),
         WalletSpends(n[1], n[2], k)
  PROVE  IInv'
<1>1. PICK w : w = WalletWitness(n[2], n[1], k)
  OBVIOUS
<1>2. PICK d : d = WalletDescription(n[2], n[1], k)
  OBVIOUS
<1>3. PICK p : p = n[1]
  OBVIOUS
<1> DEFINE pgk == w.proof_generation_key
<1>4. /\ IsWalletNote(n[1], n[2]) /\ p \notin attempted
      /\ attempted' = attempted \cup {p}
      /\ IF Accepts(d) THEN Accept(d, n[2].value, p) /\ UNCHANGED refused
         ELSE refused' = refused \cup {p} /\ UNCHANGED <<nullifiers, pool, spent>>
      /\ UNCHANGED <<outputs, taken>>
  BY <1>2, <1>3 DEF WalletSpends
<1>5. outputs \in Seq(OutputWitnesses) /\ Len(outputs) <= MaxLeaves
  BY DEF IInv
<1>6. /\ pgk = WalletPgk /\ w.value = n[2].value
      /\ w.value \in Values /\ w.g_d \in GeneratorPoints
      /\ w.rcm \in {rcm_of(r) : r \in Rseeds}
      /\ Len(w.auth_path) = Depth /\ PositionOf(w.auth_path) = p
      /\ SpendSatisfied(w) /\ w.anchor \in Anchors /\ d.anchor \in Anchors
      /\ d.nullifier = SpendNf(w) /\ SpendVerifies(d)
      /\ SameContents(Opening(w), outputs[p + 1])
  BY <1>1, <1>2, <1>3, <1>4, <1>5, WalletProves
<1>7. p \in Positions /\ Holds(WalletPgk, outputs[p + 1])
  BY <1>3, <1>4, <1>5, NotesOfWallet
<1>8. pgk \in ProofGenerationKeys
  BY <1>6 DEF WalletPgk, proof_generation_key, ProofGenerationKeys, Keys
<1>9. /\ Holds(pgk, Opening(w)) /\ Opening(w) \in OutputWitnesses
      /\ SpendNf(w) = NullifierAt(pgk, Opening(w), p)
  <2>1. w.g_d # SmallOrderPoint
    BY <1>6 DEF SpendSatisfied, assert_not_small_order
  <2>2. QED
    BY <1>6, <1>8, <2>1, OpeningOfWitness, OpeningIsAnOutput
<1>10. d.nullifier \notin nullifiers
  <2>1. RevealedByOwners
    BY DEF IInv
  <2>2. PICK o : o = Opening(w)
    OBVIOUS
  <2>3. NullifierAt(WalletPgk, o, p) \notin nullifiers
    BY <1>4, <1>5, <1>6, <1>7, <2>1, <2>2, NullifierIsNew
  <2>4. QED
    BY <1>6, <1>9, <2>2, <2>3
<1>11. Accept(d, w.value, PositionOf(w.auth_path)) /\ UNCHANGED <<outputs, refused>>
  BY <1>4, <1>6, <1>10 DEF Accepts
<1>12. PoolIsBacked' /\ SpentAreRevealed'
  <2>1. PoolIsBacked /\ SpentAreRevealed /\ UNCHANGED outputs
    BY <1>11 DEF IInv
  <2>2. QED
    BY <1>5, <1>6, <1>8, <1>10, <1>11, <2>1, SpendIsBacked
<1>13. TakenAreOthers'
  BY <1>4 DEF IInv, TakenAreOthers, Positions
<1>14. RevealedByOwners'
  <2>1. nullifiers' = nullifiers \cup {SpendNf(w)}
    BY <1>6, <1>11 DEF Accept
  <2>2. p \in Nat
    BY <1>7 DEF Positions
  <2> SUFFICES ASSUME NEW f \in nullifiers'
               PROVE  \E j \in ProofGenerationKeys, o \in OutputWitnesses, q \in Nat :
                        /\ Holds(j, o) /\ f = NullifierAt(j, o, q)
                        /\ HeldByOthers(j) \/ q \in attempted'
    BY DEF RevealedByOwners
  <2>3. CASE f \in nullifiers
    BY <1>4, <2>3 DEF IInv, RevealedByOwners
  <2>4. CASE f = SpendNf(w)
    BY <1>4, <1>8, <1>9, <2>2, <2>4
  <2>5. QED
    BY <2>1, <2>3, <2>4
<1>15. WalletIsNeverRefused'
  BY <1>11 DEF IInv, WalletIsNeverRefused
<1>16. QED
  BY <1>4, <1>5, <1>12, <1>13, <1>14, <1>15 DEF IInv

-----------------------------------------------------------------------------
(* The theorems about the pool                                             *)

\* Nothing is in the pool at first.
LEMMA InitialInvariant == Init => IInv
<1> SUFFICES ASSUME Init PROVE IInv
  OBVIOUS
<1>1. /\ outputs = <<>> /\ nullifiers = {} /\ pool = 0
      /\ spent = {} /\ taken = {} /\ refused = {}
  BY DEF Init
<1>2. outputs \in Seq(OutputWitnesses) /\ Len(outputs) = 0
  BY <1>1
<1>3. Len(outputs) <= MaxLeaves
  BY <1>2, PoolAssumption, TreeAssumption, PowersPositive DEF PoolAssumption, TreeAssumption
<1>4. PoolIsBacked
  <2>1. PICK sum : ValueOf(outputs, Positions \ spent) = sum[Len(outputs)] /\ sum[0] = 0
    BY <1>2, ValueAddsUp
  <2>2. ValueAt(Positions \ spent) = 0
    BY <1>2, <2>1, OutputsAreValued
  <2>3. QED
    BY <1>1, <2>2 DEF PoolIsBacked
<1>5. QED
  BY <1>1, <1>2, <1>3, <1>4
     DEF IInv, SpentAreRevealed, TakenAreOthers, RevealedByOwners, WalletIsNeverRefused

\* What a witness of others may be
LEMMA OthersWitness ==
  ASSUME NEW k, NEW p, NEW bits, NEW w \in SpendWitnesses(k, AuthPath(k, p, bits))
  PROVE  /\ w.proof_generation_key \in ProofGenerationKeys /\ w.value \in Values
         /\ w.g_d \in GeneratorPoints /\ w.rcm \in {rcm_of(r) : r \in Rseeds}
         /\ Len(w.auth_path) = Depth
<1>1. w.auth_path = AuthPath(k, p, bits)
  BY DEF SpendWitnesses
<1>2. Depth \in Nat /\ Levels = 1 .. Depth
  BY TreeAssumption DEF TreeAssumption, Depth, Levels
<1>3. Len(AuthPath(k, p, bits)) = Depth
  BY <1>2 DEF AuthPath
<1>4. QED
  BY <1>1, <1>3 DEF SpendWitnesses

\* Every step of the chain keeps the invariant.
LEMMA InvariantStep == IInv /\ [Next]_vars => IInv'
<1> SUFFICES ASSUME IInv, [Next]_vars PROVE IInv'
  OBVIOUS
<1>1. ASSUME NEW w \in OutputWitnesses, AddOutput(w)
      PROVE  IInv'
  BY <1>1, OutputStep
<1>2. ASSUME NEW n \in WalletNotes, NEW k \in n[1] + 1 .. Len(outputs),
             WalletSpends(n[1], n[2], k)
      PROVE  IInv'
  BY <1>2, WalletStep
<1>3. ASSUME NEW k \in 1 .. Len(outputs), NEW p \in 0 .. k - 1,
             NEW bits \in 0 .. 2 ^ NOTE_COMMITMENT_TREE_DEPTH - 1,
             NEW w \in SpendWitnesses(k, AuthPath(k, p, bits)), OtherSpends(w)
      PROVE  IInv'
  BY <1>3, OthersWitness, OthersStep
<1>4. CASE UNCHANGED vars
  BY <1>4 DEF vars, IInv, PoolIsBacked, SpentAreRevealed, TakenAreOthers, RevealedByOwners,
              WalletIsNeverRefused, Positions, ValueAt
<1>5. QED
  BY <1>1, <1>2, <1>3, <1>4 DEF Next

\* The invariant holds in every reachable state, for every tree, key and note.
THEOREM PoolInvariant == Spec => []IInv
<1>1. QED
  BY InitialInvariant, InvariantStep, PTL DEF Spec

\* The pool holds exactly the value of the notes that have not been spent: the
\* statements of circuit.rs, with nullifiers that are new and anchors that were
\* roots, let nobody spend a note twice, for another value, or out of nothing.
THEOREM PoolStaysBacked == Spec => []PoolIsBacked
<1>1. IInv => PoolIsBacked
  BY DEF IInv
<1>2. QED
  BY <1>1, PoolInvariant, PTL

\* No proof lets others spend a note of the wallet, whose ask is secret.
THEOREM NobodyElseSpends == Spec => []OnlyTheWalletSpends
<1>1. IInv => OnlyTheWalletSpends
  <2> SUFFICES ASSUME IInv, NEW n \in WalletNotes, IsWalletNote(n[1], n[2]), n[1] \in taken
               PROVE  FALSE
    BY DEF OnlyTheWalletSpends
  <2>1. PICK p : p = n[1]
    OBVIOUS
  <2>2. Holds(WalletPgk, outputs[p + 1])
    BY <2>1, NotesOfWallet DEF IInv
  <2>3. PICK j \in ProofGenerationKeys : Holds(j, outputs[p + 1]) /\ HeldByOthers(j)
    BY <2>1 DEF IInv, TakenAreOthers
  <2>4. j.ak = WalletPgk.ak
    BY <2>2, <2>3, OneOwner DEF SameContents
  <2>5. QED
    BY <2>3, <2>4, WalletIsAlone
<1>2. QED
  BY <1>1, PoolInvariant, PTL

\* What the wallet's prover and Note::nf make for a note of its own is
\* accepted, whatever others have put on the chain.
THEOREM NeverRefused == Spec => []WalletIsNeverRefused
<1>1. IInv => WalletIsNeverRefused
  BY DEF IInv
<1>2. QED
  BY <1>1, PoolInvariant, PTL



-----------------------------------------------------------------------------
(* Lists of checks                                                          *)

\* There is no first error exactly if no result is one.
LEMMA FirstErrorOk ==
  ASSUME NEW results, NEW n \in Nat, DOMAIN results = 1 .. n
  PROVE  FirstError(results) = "Ok" <=> \A i \in 1 .. n : results[i] = "Ok"
<1> DEFINE errors == {i \in DOMAIN results : results[i] # "Ok"}
           least == CHOOSE i \in errors : \A j \in errors : i <= j
<1>1. FirstError(results) = IF errors = {} THEN "Ok" ELSE results[least]
  BY DEF FirstError
<1>2. errors # {} => results[least] # "Ok"
  <2> SUFFICES ASSUME errors # {} PROVE results[least] # "Ok"
    OBVIOUS
  <2>1. errors \in SUBSET Nat
    OBVIOUS
  <2>2. \E i \in errors : \A j \in errors : i <= j
    <3> HIDE DEF errors
    <3>1. QED
      BY <2>1, LeastExists
  <2>3. least \in errors
    <3> HIDE DEF errors
    <3>1. QED
      BY <2>2
  <2>4. QED
    BY <2>3
<1>3. errors = {} <=> \A i \in 1 .. n : results[i] = "Ok"
  OBVIOUS
<1>4. QED
  BY <1>1, <1>2, <1>3

\* FirstErrorOk for a list of two.
LEMMA TwoChecks ==
  ASSUME NEW a, NEW b
  PROVE  FirstError(<<a, b>>) = "Ok" <=> a = "Ok" /\ b = "Ok"
<1> DEFINE results == <<a, b>>
<1>1. /\ DOMAIN results = 1 .. 2 /\ 2 \in Nat
      /\ results[1] = a /\ results[2] = b
  OBVIOUS
<1> HIDE DEF results
<1>2. FirstError(results) = "Ok" <=> \A i \in 1 .. 2 : results[i] = "Ok"
  BY <1>1, FirstErrorOk
<1>3. QED
  BY <1>1, <1>2 DEF results

\* FirstErrorOk for a list of three.
LEMMA ThreeChecks ==
  ASSUME NEW a, NEW b, NEW c
  PROVE  FirstError(<<a, b, c>>) = "Ok" <=> a = "Ok" /\ b = "Ok" /\ c = "Ok"
<1> DEFINE results == <<a, b, c>>
<1>1. /\ DOMAIN results = 1 .. 3 /\ 3 \in Nat
      /\ results[1] = a /\ results[2] = b /\ results[3] = c
  OBVIOUS
<1> HIDE DEF results
<1>2. FirstError(results) = "Ok" <=> \A i \in 1 .. 3 : results[i] = "Ok"
  BY <1>1, FirstErrorOk
<1>3. QED
  BY <1>1, <1>2 DEF results

\* FirstErrorOk for a list of four.
LEMMA FourChecks ==
  ASSUME NEW a, NEW b, NEW c, NEW d
  PROVE  FirstError(<<a, b, c, d>>) = "Ok" <=> a = "Ok" /\ b = "Ok" /\ c = "Ok" /\ d = "Ok"
<1> DEFINE results == <<a, b, c, d>>
<1>1. /\ DOMAIN results = 1 .. 4 /\ 4 \in Nat
      /\ results[1] = a /\ results[2] = b /\ results[3] = c /\ results[4] = d
  OBVIOUS
<1> HIDE DEF results
<1>2. FirstError(results) = "Ok" <=> \A i \in 1 .. 4 : results[i] = "Ok"
  BY <1>1, FirstErrorOk
<1>3. QED
  BY <1>1, <1>2 DEF results

\* FirstErrorOk for a list of six.
LEMMA SixChecks ==
  ASSUME NEW a, NEW b, NEW c, NEW d, NEW e, NEW f
  PROVE  FirstError(<<a, b, c, d, e, f>>) = "Ok"
           <=> a = "Ok" /\ b = "Ok" /\ c = "Ok" /\ d = "Ok" /\ e = "Ok" /\ f = "Ok"
<1> DEFINE results == <<a, b, c, d, e, f>>
<1>1. /\ DOMAIN results = 1 .. 6 /\ 6 \in Nat
      /\ results[1] = a /\ results[2] = b /\ results[3] = c
      /\ results[4] = d /\ results[5] = e /\ results[6] = f
  OBVIOUS
<1> HIDE DEF results
<1>2. FirstError(results) = "Ok" <=> \A i \in 1 .. 6 : results[i] = "Ok"
  BY <1>1, FirstErrorOk
<1>3. QED
  BY <1>1, <1>2 DEF results

\* FirstErrorOk for a list of seven.
LEMMA SevenChecks ==
  ASSUME NEW a, NEW b, NEW c, NEW d, NEW e, NEW f, NEW g
  PROVE  FirstError(<<a, b, c, d, e, f, g>>) = "Ok"
           <=> /\ a = "Ok" /\ b = "Ok" /\ c = "Ok" /\ d = "Ok" /\ e = "Ok" /\ f = "Ok"
               /\ g = "Ok"
<1> DEFINE results == <<a, b, c, d, e, f, g>>
<1>1. /\ DOMAIN results = 1 .. 7 /\ 7 \in Nat
      /\ results[1] = a /\ results[2] = b /\ results[3] = c /\ results[4] = d /\ results[5] = e
      /\ results[6] = f /\ results[7] = g
  OBVIOUS
<1> HIDE DEF results
<1>2. FirstError(results) = "Ok" <=> \A i \in 1 .. 7 : results[i] = "Ok"
  BY <1>1, FirstErrorOk
<1>3. QED
  BY <1>1, <1>2 DEF results

\* FirstErrorOk for a list of ten.
LEMMA TenChecks ==
  ASSUME NEW a, NEW b, NEW c, NEW d, NEW e, NEW f, NEW g, NEW h, NEW i, NEW j
  PROVE  FirstError(<<a, b, c, d, e, f, g, h, i, j>>) = "Ok"
           <=> /\ a = "Ok" /\ b = "Ok" /\ c = "Ok" /\ d = "Ok" /\ e = "Ok" /\ f = "Ok"
               /\ g = "Ok" /\ h = "Ok" /\ i = "Ok" /\ j = "Ok"
<1> DEFINE results == <<a, b, c, d, e, f, g, h, i, j>>
<1>1. /\ DOMAIN results = 1 .. 10 /\ 10 \in Nat
      /\ results[1] = a /\ results[2] = b /\ results[3] = c /\ results[4] = d /\ results[5] = e
      /\ results[6] = f /\ results[7] = g /\ results[8] = h /\ results[9] = i /\ results[10] = j
  OBVIOUS
<1> HIDE DEF results
<1>2. FirstError(results) = "Ok" <=> \A l \in 1 .. 10 : results[l] = "Ok"
  BY <1>1, FirstErrorOk
<1>3. QED
  BY <1>1, <1>2 DEF results

\* What is missing, and what does not decode
LEMMA MissingOk ==
  ASSUME NEW field, NEW error, error # "Ok"
  PROVE  Missing(field, error) = "Ok" <=> field # None
BY DEF Missing

\* Only bytes that do not decode are a bad field.
LEMMA BadOk ==
  ASSUME NEW field, NEW error, error # "Ok"
  PROVE  Bad(field, error) = "Ok" <=> field # Malformed
BY DEF Bad

-----------------------------------------------------------------------------
(* What each check asks                                                     *)

\* What verify_cv accepts.
LEMMA VerifyCvOk ==
  ASSUME NEW item
  PROVE  verify_cv(item) = "Ok"
           <=> /\ item.value # None /\ item.rcv # None
               /\ ValueCommit(item.value[1], item.rcv[1]) = item.cv
<1> DEFINE a == Missing(item.value, "MissingValue")
           b == Missing(item.rcv, "MissingValueCommitTrapdoor")
<1>1. FirstError(<<a, b>>) = "Ok" <=> a = "Ok" /\ b = "Ok"
  BY TwoChecks
<1>2. /\ a = "Ok" <=> item.value # None
      /\ b = "Ok" <=> item.rcv # None
  BY MissingOk
<1> HIDE DEF a, b
<1>3. verify_cv(item) = IF FirstError(<<a, b>>) # "Ok" THEN FirstError(<<a, b>>)
                        ELSE IF ValueCommit(item.value[1], item.rcv[1]) = item.cv THEN "Ok"
                        ELSE "InvalidValueCommitment"
  BY DEF verify_cv, a, b
<1>4. QED
  BY <1>1, <1>2, <1>3

\* What verify_nullifier accepts.
LEMMA VerifyNullifierOk ==
  ASSUME NEW spend, NEW fvk
  PROVE  verify_nullifier(spend, fvk) = "Ok"
           <=> /\ vk_error(spend, fvk) = "Ok"
               /\ spend.recipient # None /\ spend.value # None
               /\ spend.rseed # None /\ spend.witness # None
               /\ Owns(vk_for_validation(spend, fvk), spend.recipient[1])
               /\ nf(SpendNote(spend), vk_for_validation(spend, fvk).nk,
                     spend.witness[1].position) = spend.nullifier
<1> DEFINE a == vk_error(spend, fvk)
           b == Missing(spend.recipient, "MissingRecipient")
           c == Missing(spend.value, "MissingValue")
           d == Missing(spend.rseed, "MissingRandomSeed")
           vk == vk_for_validation(spend, fvk)
<1>1. FirstError(<<a, b, c, d>>) = "Ok" <=> a = "Ok" /\ b = "Ok" /\ c = "Ok" /\ d = "Ok"
  BY FourChecks
<1>2. /\ b = "Ok" <=> spend.recipient # None
      /\ c = "Ok" <=> spend.value # None
      /\ d = "Ok" <=> spend.rseed # None
  BY MissingOk
<1> HIDE DEF a, b, c, d, vk
<1>3. verify_nullifier(spend, fvk)
      = IF FirstError(<<a, b, c, d>>) # "Ok" THEN FirstError(<<a, b, c, d>>)
        ELSE IF ~Owns(vk, spend.recipient[1]) THEN "WrongFvkForNote"
        ELSE IF spend.witness = None THEN "MissingWitness"
        ELSE IF nf(SpendNote(spend), vk.nk, spend.witness[1].position) = spend.nullifier
        THEN "Ok" ELSE "InvalidNullifier"
  BY DEF verify_nullifier, a, b, c, d, vk
<1>4. verify_nullifier(spend, fvk) = "Ok"
      <=> /\ a = "Ok" /\ spend.recipient # None /\ spend.value # None
          /\ spend.rseed # None /\ spend.witness # None
          /\ Owns(vk, spend.recipient[1])
          /\ nf(SpendNote(spend), vk.nk, spend.witness[1].position) = spend.nullifier
  BY <1>1, <1>2, <1>3
<1>5. QED
  BY <1>4 DEF a, vk

\* What verify_rk accepts.
LEMMA VerifyRkOk ==
  ASSUME NEW spend, NEW fvk
  PROVE  verify_rk(spend, fvk) = "Ok"
           <=> /\ vk_error(spend, fvk) = "Ok" /\ spend.alpha # None
               /\ randomize(vk_for_validation(spend, fvk).ak, spend.alpha[1]) = spend.rk
<1> DEFINE a == vk_error(spend, fvk)
           b == Missing(spend.alpha, "MissingSpendAuthRandomizer")
           vk == vk_for_validation(spend, fvk)
<1>1. FirstError(<<a, b>>) = "Ok" <=> a = "Ok" /\ b = "Ok"
  BY TwoChecks
<1>2. b = "Ok" <=> spend.alpha # None
  BY MissingOk
<1> HIDE DEF a, b, vk
<1>3. verify_rk(spend, fvk)
      = IF FirstError(<<a, b>>) # "Ok" THEN FirstError(<<a, b>>)
        ELSE IF randomize(vk.ak, spend.alpha[1]) = spend.rk THEN "Ok"
        ELSE "InvalidRandomizedVerificationKey"
  BY DEF verify_rk, a, b, vk
<1>4. verify_rk(spend, fvk) = "Ok"
      <=> a = "Ok" /\ spend.alpha # None /\ randomize(vk.ak, spend.alpha[1]) = spend.rk
  BY <1>1, <1>2, <1>3
<1>5. QED
  BY <1>4 DEF a, vk

\* What verify_note_commitment accepts.
LEMMA VerifyNoteCommitmentOk ==
  ASSUME NEW output
  PROVE  verify_note_commitment(output) = "Ok"
           <=> /\ output.recipient # None /\ output.value # None /\ output.rseed # None
               /\ cmu(OutputNote(output)) = output.cmu
<1> DEFINE a == Missing(output.recipient, "MissingRecipient")
           b == Missing(output.value, "MissingValue")
           c == Missing(output.rseed, "MissingRandomSeed")
<1>1. FirstError(<<a, b, c>>) = "Ok" <=> a = "Ok" /\ b = "Ok" /\ c = "Ok"
  BY ThreeChecks
<1>2. /\ a = "Ok" <=> output.recipient # None
      /\ b = "Ok" <=> output.value # None
      /\ c = "Ok" <=> output.rseed # None
  BY MissingOk
<1> HIDE DEF a, b, c
<1>3. verify_note_commitment(output)
      = IF FirstError(<<a, b, c>>) # "Ok" THEN FirstError(<<a, b, c>>)
        ELSE IF cmu(OutputNote(output)) = output.cmu THEN "Ok"
        ELSE "InvalidExtractedNoteCommitment"
  BY DEF verify_note_commitment, a, b, c
<1>4. QED
  BY <1>1, <1>2, <1>3

\* What the Prover needs of a spend.
LEMMA SpendProverOk ==
  ASSUME NEW spend
  PROVE  spend_prover_error(spend) = "Ok"
           <=> /\ spend.proof_generation_key # None /\ spend.recipient # None
               /\ spend.value # None /\ spend.rseed # None /\ spend.alpha # None
               /\ spend.rcv # None /\ spend.witness # None
               /\ spend.recipient[1].diversifier \in ValidDiversifiers
<1> DEFINE a == Missing(spend.proof_generation_key, "MissingProofGenerationKey")
           b == Missing(spend.recipient, "MissingRecipient")
           c == Missing(spend.value, "MissingValue")
           d == Missing(spend.rseed, "MissingRandomSeed")
           e == Missing(spend.alpha, "MissingSpendAuthRandomizer")
           f == Missing(spend.rcv, "MissingValueCommitTrapdoor")
           g == Missing(spend.witness, "MissingWitness")
           first == FirstError(<<a, b, c, d, e, f, g>>)
<1>1. first = "Ok" <=> /\ a = "Ok" /\ b = "Ok" /\ c = "Ok" /\ d = "Ok"
                       /\ e = "Ok" /\ f = "Ok" /\ g = "Ok"
  BY SevenChecks
<1>2. /\ a = "Ok" <=> spend.proof_generation_key # None
      /\ b = "Ok" <=> spend.recipient # None
      /\ c = "Ok" <=> spend.value # None
      /\ d = "Ok" <=> spend.rseed # None
      /\ e = "Ok" <=> spend.alpha # None
      /\ f = "Ok" <=> spend.rcv # None
      /\ g = "Ok" <=> spend.witness # None
  BY MissingOk
<1>3. spend_prover_error(spend)
      = IF first # "Ok" THEN first
        ELSE IF spend.recipient[1].diversifier \notin ValidDiversifiers
        THEN "InvalidDiversifier" ELSE "Ok"
  BY DEF spend_prover_error
<1> HIDE DEF a, b, c, d, e, f, g, first
<1>4. QED
  BY <1>1, <1>2, <1>3

\* What the Prover needs of an output.
LEMMA OutputProverOk ==
  ASSUME NEW output
  PROVE  output_prover_error(output) = "Ok"
           <=> /\ output.recipient # None /\ output.value # None
               /\ output.rseed # None /\ output.rcv # None
<1> DEFINE a == Missing(output.recipient, "MissingRecipient")
           b == Missing(output.value, "MissingValue")
           c == Missing(output.rseed, "MissingRandomSeed")
           d == Missing(output.rcv, "MissingValueCommitTrapdoor")
<1>1. FirstError(<<a, b, c, d>>) = "Ok" <=> a = "Ok" /\ b = "Ok" /\ c = "Ok" /\ d = "Ok"
  BY FourChecks
<1>2. /\ a = "Ok" <=> output.recipient # None
      /\ b = "Ok" <=> output.value # None
      /\ c = "Ok" <=> output.rseed # None
      /\ d = "Ok" <=> output.rcv # None
  BY MissingOk
<1>3. output_prover_error(output) = FirstError(<<a, b, c, d>>)
  BY DEF output_prover_error
<1> HIDE DEF a, b, c, d
<1>4. QED
  BY <1>1, <1>2, <1>3

-----------------------------------------------------------------------------
(* The fields of a bundle                                                   *)

SpendFields ==
  {"cv", "nullifier", "rk", "recipient", "value", "rcm", "rseed", "rcv",
   "proof_generation_key", "witness", "alpha", "zip32_derivation", "dummy_ask",
   "zkproof", "spend_auth_sig"}
OutputFields ==
  {"cv", "cmu", "ephemeral_key", "enc_ciphertext", "out_ciphertext", "recipient",
   "value", "rseed", "rcv", "ock", "zip32_derivation", "zkproof"}

\* Which of them the roles that follow the parser may set
SpendEdits == {"proof_generation_key", "zkproof", "spend_auth_sig"}
OutputEdits == {"zkproof"}

HasFields(b) ==
  /\ DOMAIN b = {"spend", "output", "anchor", "bsk"}
  /\ DOMAIN b.spend = SpendFields
  /\ DOMAIN b.output = OutputFields

\* Of what parsing decoded, what makes the checks exact
IsDecoded(b) ==
  /\ b.spend.value = None \/ b.spend.value = Some(b.spend.value[1])
  /\ b.spend.proof_generation_key # None
       => b.spend.proof_generation_key[1].ak # SmallOrderPoint
  /\ b.spend.witness # None => b.spend.witness[1].position \in 0 .. 2 ^ Depth - 1
  /\ b.output.recipient # None => b.output.recipient[1].diversifier \in ValidDiversifiers

\* c is b after an Updater, a Signer or a Prover.
Edited(b, c) ==
  /\ HasFields(c)
  /\ \A f \in SpendFields \ SpendEdits : c.spend[f] = b.spend[f]
  /\ \A f \in OutputFields \ OutputEdits : c.output[f] = b.output[f]
  /\ c.anchor = b.anchor /\ c.bsk = b.bsk
  /\ \/ c.spend.proof_generation_key = b.spend.proof_generation_key
     \/ \E pgk \in Spenders : c.spend.proof_generation_key = Some(pgk)

Edit ==
  \/ \E pgk \in Spenders : SetProofGenerationKey(pgk)
  \/ \E account \in DOMAIN Accounts : Sign(account)
  \/ CreateProofs

\* An option that holds something is not empty.
LEMMA SomeIsNotNone == \A x : Some(x) # None /\ Some(x)[1] = x
BY DEF Some, None

\* Updater, Signer and Prover set their own fields and leave the others.
LEMMA EditStep ==
  ASSUME pczt # None, HasFields(Bundle), Edit
  PROVE  pczt' # None /\ Edited(Bundle, Bundle')
<1>1. ASSUME NEW pgk \in Spenders, SetProofGenerationKey(pgk)
      PROVE  pczt' # None /\ Edited(Bundle, Bundle')
  <2>1. pczt' = Some([Bundle EXCEPT !.spend.proof_generation_key = Some(pgk)])
    BY <1>1 DEF SetProofGenerationKey
  <2>2. pczt' # None /\ Bundle' = [Bundle EXCEPT !.spend.proof_generation_key = Some(pgk)]
    BY <2>1, SomeIsNotNone DEF Bundle
  <2> HIDE DEF Bundle
  <2>3. QED
    BY <2>2 DEF Edited, HasFields, SpendFields, SpendEdits, OutputFields, OutputEdits
<1>2. ASSUME NEW account \in DOMAIN Accounts, Sign(account)
      PROVE  pczt' # None /\ Edited(Bundle, Bundle')
  <2>1. pczt' = Some([Bundle EXCEPT !.spend.spend_auth_sig = Some(Bundle.spend.rk)])
    BY <1>2 DEF Sign
  <2>2. pczt' # None /\ Bundle' = [Bundle EXCEPT !.spend.spend_auth_sig = Some(Bundle.spend.rk)]
    BY <2>1, SomeIsNotNone DEF Bundle
  <2>3. QED
    BY <2>2 DEF Edited, HasFields, SpendFields, SpendEdits, OutputFields, OutputEdits
<1>3. ASSUME CreateProofs
      PROVE  pczt' # None /\ Edited(Bundle, Bundle')
  <2>1. PICK x, y : pczt' = Some([Bundle EXCEPT !.spend.zkproof = x, !.output.zkproof = y])
    BY <1>3 DEF CreateProofs
  <2>2. pczt' # None /\ Bundle' = [Bundle EXCEPT !.spend.zkproof = x, !.output.zkproof = y]
    BY <2>1, SomeIsNotNone DEF Bundle
  <2>3. QED
    BY <2>2 DEF Edited, HasFields, SpendFields, SpendEdits, OutputFields, OutputEdits
<1>4. QED
  BY <1>1, <1>2, <1>3 DEF Edit

-----------------------------------------------------------------------------
(* What the Constructor builds                                              *)

\* An address of a key, for a diversifier that is valid
LEMMA AddressOfKey ==
  ASSUME NEW ivk, NEW d \in ValidDiversifiers
  PROVE  /\ ToPaymentAddress(ivk, d) = Some([diversifier |-> d, pk_d |-> <<"pk_d", ivk, d>>])
         /\ ToPaymentAddress(ivk, d) # None
         /\ diversify_hash(d) = Some(<<"g_d", d>>)
<1>1. TransmissionKey(ivk, d) = Some(<<"pk_d", ivk, d>>)
  BY DEF TransmissionKey
<1>2. TransmissionKey(ivk, d) # None /\ TransmissionKey(ivk, d)[1] = <<"pk_d", ivk, d>>
  BY <1>1, SomeIsNotNone
<1>3. ToPaymentAddress(ivk, d) = Some([diversifier |-> d, pk_d |-> <<"pk_d", ivk, d>>])
  BY <1>2 DEF ToPaymentAddress, FromParts
<1>4. QED
  BY <1>3, SomeIsNotNone DEF diversify_hash

FirstDiversifier == CHOOSE d \in ValidDiversifiers : TRUE

VkOf(s) == to_viewing_key(s.pgk)

RecipientOf(s) ==
  [diversifier |-> FirstDiversifier, pk_d |-> <<"pk_d", Ivk(VkOf(s)), FirstDiversifier>>]

\* The note of a scenario is its key's, of the scenario's value.
LEMMA NoteOfScenario ==
  ASSUME NEW s
  PROVE  /\ FirstDiversifier \in ValidDiversifiers
         /\ SpentNote(s).recipient = RecipientOf(s) /\ SpentNote(s).value = s.value
         /\ SpentNote(s).rseed = IF s.zip212 THEN AfterZip212(<<"r">>) ELSE BeforeZip212(<<"r">>)
<1>1. FirstDiversifier \in ValidDiversifiers
  BY KeysAssumption DEF KeysAssumption, FirstDiversifier
<1>2. ToPaymentAddress(Ivk(VkOf(s)), FirstDiversifier) = Some(RecipientOf(s))
  BY <1>1, AddressOfKey DEF RecipientOf
<1>3. ToPaymentAddress(Ivk(VkOf(s)), FirstDiversifier)[1] = RecipientOf(s)
  BY <1>2, SomeIsNotNone
<1>4. SpentNote(s) = Note(RecipientOf(s), s.value,
                          IF s.zip212 THEN AfterZip212(<<"r">>) ELSE BeforeZip212(<<"r">>))
  BY <1>3 DEF SpentNote, VkOf, FirstDiversifier
<1>5. QED
  BY <1>1, <1>4 DEF Note

\* A key that may spend, its own or a dummy's
LEMMA KeyOfScenario ==
  ASSUME NEW s \in Scenarios
  PROVE  s.pgk.ak # SmallOrderPoint /\ s.value \in Nat /\ (s.dummy => s.value = 0)
<1>1. CASE s \in [pgk : Spenders, value : NoteValues, zip212 : BOOLEAN, dummy : {FALSE}]
  <2>1. s.pgk \in Spenders /\ s.value \in NoteValues /\ s.dummy = FALSE
    BY <1>1
  <2>2. Decodes("proof_generation_key", Some(s.pgk)) /\ NoteValues \subseteq Nat
    BY <2>1, FieldsAssumption DEF FieldsAssumption
  <2>3. Some(s.pgk) \notin {None, Malformed}
    BY DEF Some, None, Malformed
  <2>4. s.pgk.ak # SmallOrderPoint
    BY <2>2, <2>3, SomeIsNotNone DEF Decodes
  <2>5. QED
    BY <2>1, <2>2, <2>4
<1>2. CASE s \in [pgk : {proof_generation_key(DummyKey)}, value : {0}, zip212 : {TRUE},
                  dummy : {TRUE}]
  <2>1. s.pgk = proof_generation_key(DummyKey) /\ s.value = 0
    BY <1>2
  <2>2. s.pgk.ak # SmallOrderPoint
    BY <2>1 DEF proof_generation_key, SpendValidatingKey, SmallOrderPoint
  <2>3. QED
    BY <2>1, <2>2
<1>3. QED
  BY <1>1, <1>2 DEF Scenarios

\* The position that the witness names
LEMMA PositionOfScenario ==
  ASSUME NEW s
  PROVE  /\ NoteWitness(s).position = IF s.dummy THEN 0 ELSE 1
         /\ NoteWitness(s).position \in 0 .. 2 ^ Depth - 1
         /\ 2 ^ Depth \in Nat /\ 2 <= 2 ^ Depth
<1>1. NoteWitness(s).position = IF s.dummy THEN 0 ELSE 1
  BY DEF NoteWitness, MerklePathOf
<1>2. PICK d \in Nat : Depth = d + 1
  <2>1. Depth \in Nat \ {0}
    BY TreeAssumption DEF TreeAssumption, Depth
  <2>2. Depth - 1 \in Nat /\ Depth = (Depth - 1) + 1
    BY <2>1
  <2>3. QED
    BY <2>2
<1>3. 2 ^ (d + 1) = 2 * 2 ^ d
  BY PowerOfTwo
<1>4. PICK b \in Nat \ {0} : b = 2 ^ d
  BY PowersPositive
<1>5. 2 ^ Depth = 2 * b
  BY <1>2, <1>3, <1>4
<1>6. QED
  BY <1>1, <1>5

\* The fields of a spend that is as built decode.
LEMMA SpendIsDecoded ==
  ASSUME NEW s \in Scenarios
  PROVE  /\ DOMAIN SpendOf(s) = SpendFields
         /\ \A f \in SpendFields : Decodes(f, SpendOf(s)[f])
<1> DEFINE spend == SpendOf(s)
<1>1. DOMAIN spend = SpendFields
  BY DEF SpendOf, SpendFields
<1>2. /\ spend.value = Some(SpentNote(s).value)
      /\ spend.recipient = Some(SpentNote(s).recipient)
      /\ spend.witness = Some(NoteWitness(s))
      /\ spend.proof_generation_key = IF s.dummy THEN Some(s.pgk) ELSE None
  BY DEF SpendOf
<1> HIDE DEF spend
<1>3. Decodes("value", spend.value)
  <2>1. spend.value = Some(spend.value[1])
    BY <1>2, SomeIsNotNone
  <2>2. QED
    BY <2>1 DEF Decodes
<1>4. Decodes("recipient", spend.recipient)
  <2>1. SpentNote(s).recipient = RecipientOf(s) /\ FirstDiversifier \in ValidDiversifiers
    BY NoteOfScenario
  <2>2. spend.recipient[1] = RecipientOf(s)
    BY <1>2, <2>1, SomeIsNotNone
  <2>3. spend.recipient[1].diversifier \in ValidDiversifiers
    BY <2>1, <2>2 DEF RecipientOf
  <2>4. QED
    BY <2>3 DEF Decodes
<1>5. Decodes("proof_generation_key", spend.proof_generation_key)
  <2>1. spend.proof_generation_key # None => spend.proof_generation_key[1].ak # SmallOrderPoint
    BY <1>2, KeyOfScenario, SomeIsNotNone
  <2>2. QED
    BY <2>1 DEF Decodes
<1>6. Decodes("witness", spend.witness)
  <2>1. spend.witness[1].position \in 0 .. 2 ^ Depth - 1
    BY <1>2, PositionOfScenario, SomeIsNotNone
  <2>2. QED
    BY <2>1 DEF Decodes, Depth
<1>7. \A f \in SpendFields \ {"value", "recipient", "proof_generation_key", "witness"} :
        Decodes(f, spend[f])
  BY DEF Decodes
<1>8. \A f \in SpendFields : Decodes(f, spend[f])
  BY <1>3, <1>4, <1>5, <1>6, <1>7
<1>9. QED
  BY <1>1, <1>8 DEF spend

\* The fields of an output that is as built decode.
LEMMA OutputIsDecoded ==
  ASSUME NEW value
  PROVE  /\ DOMAIN OutputOf(value) = OutputFields
         /\ \A f \in OutputFields : Decodes(f, OutputOf(value)[f])
<1> DEFINE output == OutputOf(value)
<1>1. DOMAIN output = OutputFields
  BY DEF OutputOf, OutputFields
<1>2. output.value = Some(value) /\ output.recipient = Some(Recipient)
  BY DEF OutputOf, Note
<1> HIDE DEF output
<1>3. Decodes("value", output.value)
  <2>1. output.value = Some(output.value[1])
    BY <1>2, SomeIsNotNone
  <2>2. QED
    BY <2>1 DEF Decodes
<1>4. Decodes("recipient", output.recipient)
  BY <1>2, FieldsAssumption DEF FieldsAssumption
<1>5. \A f \in OutputFields \ {"value", "recipient"} : Decodes(f, output[f])
  BY DEF Decodes, OutputFields
<1>6. \A f \in OutputFields : Decodes(f, output[f])
  BY <1>3, <1>4, <1>5
<1>7. QED
  BY <1>1, <1>6 DEF output

-----------------------------------------------------------------------------
(* What arrives                                                             *)

\* A field of the encoding: as the Constructor built it, or as a deviation
\* has it
AsBuilt(built, f, x) == x = built[f] \/ \E d \in deviations : d[2] = f /\ x = d[3]

\* Each field that arrives is as built or one of the deviations; with no deviation
\* all are as built.
LEMMA EncodingOf ==
  /\ DOMAIN Encoding.spend = SpendFields /\ DOMAIN Encoding.output = OutputFields
  /\ \A f \in SpendFields : AsBuilt(SpendOf(scenario), f, Encoding.spend[f])
  /\ \A f \in OutputFields : AsBuilt(OutputOf(scenario.value), f, Encoding.output[f])
  /\ deviations = {} =>
       /\ \A f \in SpendFields : Encoding.spend[f] = SpendOf(scenario)[f]
       /\ \A f \in OutputFields : Encoding.output[f] = OutputOf(scenario.value)[f]
       /\ Encoding.bundle.anchor = RootOf(NoteTree(scenario))
       /\ Encoding.bundle.bsk = Some(<<"bsk">>)
<1> DEFINE bundle == [anchor |-> RootOf(NoteTree(scenario)), bsk |-> Some(<<"bsk">>)]
           honest == [spend |-> SpendOf(scenario), output |-> OutputOf(scenario.value),
                      bundle |-> bundle]
           Deviant(part, field) == {d \in deviations : d[1] = part /\ d[2] = field}
           Field(part, field) == IF Deviant(part, field) = {} THEN honest[part][field]
                                 ELSE (CHOOSE d \in Deviant(part, field) : TRUE)[3]
<1>1. Encoding = [part \in {"spend", "output", "bundle"} |->
                    [field \in DOMAIN honest[part] |-> Field(part, field)]]
  BY DEF Encoding
<1>2. ASSUME NEW part, NEW field
      PROVE  /\ AsBuilt(honest[part], field, Field(part, field))
             /\ deviations = {} => Field(part, field) = honest[part][field]
  <2>1. CASE Deviant(part, field) = {}
    BY <2>1 DEF AsBuilt
  <2>2. CASE Deviant(part, field) # {}
    <3>1. PICK d \in Deviant(part, field) : d = CHOOSE x \in Deviant(part, field) : TRUE
      <4> HIDE DEF Deviant
      <4>1. QED
        BY <2>2
    <3>2. d \in deviations /\ d[2] = field /\ Field(part, field) = d[3]
      BY <2>2, <3>1
    <3> HIDE DEF Field
    <3>3. QED
      BY <3>2 DEF AsBuilt
  <2>3. QED
    BY <2>1, <2>2
<1>3. /\ honest["spend"] = SpendOf(scenario) /\ honest["output"] = OutputOf(scenario.value)
      /\ honest["bundle"] = bundle
  OBVIOUS
<1>4. DOMAIN bundle = {"anchor", "bsk"}
  OBVIOUS
<1>5. bundle["anchor"] = RootOf(NoteTree(scenario)) /\ bundle["bsk"] = Some(<<"bsk">>)
  OBVIOUS
<1> HIDE DEF Field, honest, bundle, Deviant
<1>6. /\ Encoding.spend = [field \in DOMAIN SpendOf(scenario) |-> Field("spend", field)]
      /\ Encoding.output = [field \in DOMAIN OutputOf(scenario.value) |-> Field("output", field)]
      /\ Encoding.bundle = [field \in DOMAIN bundle |-> Field("bundle", field)]
  BY <1>1, <1>3
<1>7. /\ DOMAIN SpendOf(scenario) = SpendFields
      /\ DOMAIN OutputOf(scenario.value) = OutputFields
  BY OutputIsDecoded DEF SpendOf, SpendFields
<1>8. /\ DOMAIN Encoding.spend = SpendFields /\ DOMAIN Encoding.output = OutputFields
      /\ \A f \in SpendFields : Encoding.spend[f] = Field("spend", f)
      /\ \A f \in OutputFields : Encoding.output[f] = Field("output", f)
      /\ Encoding.bundle["anchor"] = Field("bundle", "anchor")
      /\ Encoding.bundle["bsk"] = Field("bundle", "bsk")
  BY <1>4, <1>6, <1>7
<1>9. \A f \in SpendFields : AsBuilt(SpendOf(scenario), f, Encoding.spend[f])
  BY <1>2, <1>3, <1>8
<1>10. \A f \in OutputFields : AsBuilt(OutputOf(scenario.value), f, Encoding.output[f])
  BY <1>2, <1>3, <1>8
<1>11. ASSUME deviations = {}
       PROVE  /\ \A f \in SpendFields : Encoding.spend[f] = SpendOf(scenario)[f]
              /\ \A f \in OutputFields : Encoding.output[f] = OutputOf(scenario.value)[f]
              /\ Encoding.bundle.anchor = RootOf(NoteTree(scenario))
              /\ Encoding.bundle.bsk = Some(<<"bsk">>)
  BY <1>2, <1>3, <1>5, <1>8, <1>11
<1>12. QED
  BY <1>8, <1>9, <1>10, <1>11

\* Whatever arrives, it decodes or is malformed.
LEMMA EncodingDecodes ==
  ASSUME scenario \in Scenarios, deviations \subseteq Deviations
  PROVE  /\ \A f \in SpendFields : Decodes(f, Encoding.spend[f])
         /\ \A f \in OutputFields : Decodes(f, Encoding.output[f])
<1>1. \A d \in deviations : Decodes(d[2], d[3])
  BY FieldsAssumption DEF FieldsAssumption
<1>2. /\ \A f \in SpendFields : Decodes(f, SpendOf(scenario)[f])
      /\ \A f \in OutputFields : Decodes(f, OutputOf(scenario.value)[f])
  BY SpendIsDecoded, OutputIsDecoded
<1>3. /\ \A f \in SpendFields : AsBuilt(SpendOf(scenario), f, Encoding.spend[f])
      /\ \A f \in OutputFields : AsBuilt(OutputOf(scenario.value), f, Encoding.output[f])
  BY EncodingOf
<1>4. QED
  BY <1>1, <1>2, <1>3 DEF AsBuilt

\* What parsing without an error shows
LEMMA SpendParses ==
  ASSUME NEW e
  PROVE  spend_error(e) = "Ok"
           <=> /\ derivation_error(e.zip32_derivation) = "Ok"
               /\ e.cv # Malformed /\ e.rk # Malformed /\ e.recipient # Malformed
               /\ SeedError(e) = "Ok" /\ e.rcv # Malformed
               /\ e.proof_generation_key # Malformed /\ e.witness # Malformed
               /\ e.alpha # Malformed /\ e.dummy_ask # Malformed
<1> DEFINE a == derivation_error(e.zip32_derivation)
           b == Bad(e.cv, "InvalidValueCommitment")
           c == Bad(e.rk, "InvalidRandomizedKey")
           d == Bad(e.recipient, "InvalidRecipient")
           s == SeedError(e)
           f == Bad(e.rcv, "InvalidValueCommitTrapdoor")
           g == Bad(e.proof_generation_key, "InvalidProofGenerationKey")
           h == Bad(e.witness, "InvalidWitness")
           i == Bad(e.alpha, "InvalidSpendAuthRandomizer")
           j == Bad(e.dummy_ask, "InvalidDummySpendAuthorizingKey")
<1>1. FirstError(<<a, b, c, d, s, f, g, h, i, j>>) = "Ok"
        <=> /\ a = "Ok" /\ b = "Ok" /\ c = "Ok" /\ d = "Ok" /\ s = "Ok"
            /\ f = "Ok" /\ g = "Ok" /\ h = "Ok" /\ i = "Ok" /\ j = "Ok"
  BY TenChecks
<1>2. /\ b = "Ok" <=> e.cv # Malformed
      /\ c = "Ok" <=> e.rk # Malformed
      /\ d = "Ok" <=> e.recipient # Malformed
      /\ f = "Ok" <=> e.rcv # Malformed
      /\ g = "Ok" <=> e.proof_generation_key # Malformed
      /\ h = "Ok" <=> e.witness # Malformed
      /\ i = "Ok" <=> e.alpha # Malformed
      /\ j = "Ok" <=> e.dummy_ask # Malformed
  BY BadOk
<1>3. spend_error(e) = FirstError(<<a, b, c, d, s, f, g, h, i, j>>)
  BY DEF spend_error
<1> HIDE DEF a, b, c, d, s, f, g, h, i, j
<1>4. QED
  BY <1>1, <1>2, <1>3 DEF a, s

\* What parses of an output: in particular its recipient.
LEMMA OutputParses ==
  ASSUME NEW e
  PROVE  output_error(e) = "Ok"
           <=> /\ derivation_error(e.zip32_derivation) = "Ok"
               /\ e.cv # Malformed /\ e.cmu # Malformed /\ e.enc_ciphertext # Malformed
               /\ e.out_ciphertext # Malformed /\ e.recipient # Malformed /\ e.rcv # Malformed
<1> DEFINE a == Bad(e.cv, "InvalidValueCommitment")
           b == Bad(e.cmu, "InvalidExtractedNoteCommitment")
           c == Bad(e.enc_ciphertext, "InvalidEncCiphertext")
           d == Bad(e.out_ciphertext, "InvalidOutCiphertext")
           f == Bad(e.recipient, "InvalidRecipient")
           g == Bad(e.rcv, "InvalidValueCommitTrapdoor")
           z == derivation_error(e.zip32_derivation)
<1>1. FirstError(<<z, a, b, c, d, f, g>>) = "Ok"
        <=> z = "Ok" /\ a = "Ok" /\ b = "Ok" /\ c = "Ok" /\ d = "Ok" /\ f = "Ok" /\ g = "Ok"
  BY SevenChecks
<1>2. /\ a = "Ok" <=> e.cv # Malformed
      /\ b = "Ok" <=> e.cmu # Malformed
      /\ c = "Ok" <=> e.enc_ciphertext # Malformed
      /\ d = "Ok" <=> e.out_ciphertext # Malformed
      /\ f = "Ok" <=> e.recipient # Malformed
      /\ g = "Ok" <=> e.rcv # Malformed
  BY BadOk
<1>3. output_error(e) = FirstError(<<z, a, b, c, d, f, g>>)
  BY DEF output_error
<1> HIDE DEF a, b, c, d, f, g, z
<1>4. QED
  BY <1>1, <1>2, <1>3 DEF z

\* A root is the hash of two nodes.
LEMMA RootIsHash ==
  ASSUME NEW leaves, Len(leaves) \in Nat
  PROVE  RootOf(leaves) # Malformed
<1>1. Depth \in Levels /\ Depth - Depth = 0
  BY TreeAssumption DEF TreeAssumption, Levels, Depth
<1>2. 0 \in Width(Depth)
  <2>1. 2 ^ (Depth - Depth) \in Nat \ {0}
    BY <1>1, PowersPositive
  <2>2. QED
    BY <2>1 DEF Width
<1>3. RootOf(leaves) = combine(Depth - 1, NodesOf(leaves)[Depth - 1][2 * 0],
                               NodesOf(leaves)[Depth - 1][2 * 0 + 1])
  BY <1>1, <1>2, NodeOfChildren DEF RootOf, Depth
<1>4. QED
  BY <1>3 DEF combine, Malformed

\* A spend as it was built parses, to the seed of its note.
LEMMA BuiltSpendParses ==
  ASSUME NEW s, NEW e, \A f \in SpendFields : e[f] = SpendOf(s)[f]
  PROVE  spend_error(e) = "Ok" /\ SeedOf(e) = Some(SpentNote(s).rseed)
<1> DEFINE vk == to_viewing_key(s.pgk)
           alpha == <<"alpha">>
           path == <<hardened(32), CoinType, hardened(0)>>
           derivation == [seed_fingerprint |-> SeedFp, derivation_path |-> path]
<1>1. /\ e.cv = ValueCommit(SpentNote(s).value, <<"rcv">>)
      /\ e.rk = randomize(vk.ak, alpha)
      /\ e.recipient = Some(SpentNote(s).recipient)
      /\ e.rcm = IF s.zip212 THEN None ELSE Some(<<"r">>)
      /\ e.rseed = IF s.zip212 THEN Some(<<"r">>) ELSE None
      /\ e.rcv = Some(<<"rcv">>)
      /\ e.proof_generation_key = IF s.dummy THEN Some(s.pgk) ELSE None
      /\ e.witness = Some(NoteWitness(s)) /\ e.alpha = Some(alpha)
      /\ e.zip32_derivation = IF s.dummy THEN None ELSE Some(derivation)
      /\ e.dummy_ask = None
  BY DEF SpendOf, SpendFields
<1>2. \A x : Some(x) # Malformed /\ None # Malformed
  BY DEF Some, None, Malformed
<1>3. e.cv # Malformed /\ e.rk # Malformed
  BY <1>1 DEF ValueCommit, randomize, Malformed
<1>4. derivation_error(e.zip32_derivation) = "Ok"
  <2>1. \A i \in DOMAIN path : ~(path[i] < FirstHardened)
    BY KeysAssumption DEF KeysAssumption, hardened, CoinType
  <2>2. derivation.derivation_path = path
    OBVIOUS
  <2> HIDE DEF derivation, path
  <2>3. CASE s.dummy
    BY <1>1, <2>3 DEF derivation_error
  <2>4. CASE ~s.dummy
    <3>1. e.zip32_derivation[1].derivation_path = path
      BY <1>1, <2>2, <2>4, SomeIsNotNone
    <3>2. QED
      BY <2>1, <3>1 DEF derivation_error
  <2>5. QED
    BY <2>3, <2>4
<1>5. SeedError(e) = "Ok"
  BY <1>1, <1>2 DEF SeedError, Bad
<1>6. SeedOf(e) = Some(SpentNote(s).rseed)
  <2>1. SpentNote(s).rseed = IF s.zip212 THEN AfterZip212(<<"r">>) ELSE BeforeZip212(<<"r">>)
    BY NoteOfScenario
  <2>2. CASE s.zip212
    BY <1>1, <2>1, <2>2, SomeIsNotNone DEF SeedOf
  <2>3. CASE ~s.zip212
    BY <1>1, <2>1, <2>3, SomeIsNotNone DEF SeedOf
  <2>4. QED
    BY <2>2, <2>3
<1>7. /\ e.recipient # Malformed /\ e.rcv # Malformed
      /\ e.proof_generation_key # Malformed /\ e.witness # Malformed
      /\ e.alpha # Malformed /\ e.dummy_ask # Malformed
  BY <1>1, <1>2
<1>8. spend_error(e) = "Ok"
  BY <1>3, <1>4, <1>5, <1>7, SpendParses
<1>9. QED
  BY <1>6, <1>8

\* An output as it was built parses.
LEMMA BuiltOutputParses ==
  ASSUME NEW value, NEW e, \A f \in OutputFields : e[f] = OutputOf(value)[f]
  PROVE  output_error(e) = "Ok"
<1>1. /\ e.cv = ValueCommit(value, <<"output_rcv">>)
      /\ e.cmu = cmu(Note(Recipient, value, AfterZip212(<<"s">>)))
      /\ e.enc_ciphertext = <<"enc">> /\ e.out_ciphertext = <<"out">>
      /\ e.recipient = Some(Recipient) /\ e.rcv = Some(<<"output_rcv">>)
      /\ e.zip32_derivation = None
  BY DEF OutputOf, OutputFields, Note
<1>2. /\ e.cv # Malformed /\ e.cmu # Malformed /\ e.enc_ciphertext # Malformed
      /\ e.out_ciphertext # Malformed /\ e.recipient # Malformed /\ e.rcv # Malformed
  BY <1>1 DEF ValueCommit, cmu, extract_p, Some, Malformed
<1>3. derivation_error(e.zip32_derivation) = "Ok"
  BY <1>1 DEF derivation_error
<1>4. QED
  BY <1>2, <1>3, OutputParses

\* A bundle that is as it was built, but for what the roles have set
Unaltered(b) ==
  /\ \A f \in SpendFields \ (SpendEdits \cup {"rcm", "rseed"}) :
       b.spend[f] = SpendOf(scenario)[f]
  /\ b.spend.rseed = Some(SpentNote(scenario).rseed)
  /\ \A f \in OutputFields \ OutputEdits : b.output[f] = OutputOf(scenario.value)[f]
  /\ b.anchor = RootOf(NoteTree(scenario))

\* Parsing gives a bundle with all fields, decoded ones, and without deviations
\* the bundle that was built.
LEMMA ParseStep ==
  ASSUME scenario \in Scenarios, deviations \subseteq Deviations, Parse
  PROVE  /\ pczt' # None => HasFields(Bundle') /\ IsDecoded(Bundle')
         /\ parsing' # None
         /\ deviations = {} => /\ parsing' = Some("Ok")
                               /\ pczt' # None => Unaltered(Bundle')
<1> DEFINE e == Encoding.spend
           o == Encoding.output
           u == Encoding.bundle
           error == FirstError(<<spend_error(e), output_error(o), bundle_error(u)>>)
           spend == [e EXCEPT !.rcm = None, !.rseed = SeedOf(e)]
           b == [spend |-> spend, output |-> o, anchor |-> u.anchor, bsk |-> u.bsk]
<1>1. parsing' = Some(error) /\ pczt' = IF error # "Ok" THEN None ELSE Some(b)
  BY DEF Parse
<1>2. error = "Ok" <=> spend_error(e) = "Ok" /\ output_error(o) = "Ok" /\ bundle_error(u) = "Ok"
  BY ThreeChecks
<1>3. /\ DOMAIN e = SpendFields /\ DOMAIN o = OutputFields
      /\ deviations = {} => /\ \A f \in SpendFields : e[f] = SpendOf(scenario)[f]
                            /\ \A f \in OutputFields : o[f] = OutputOf(scenario.value)[f]
                            /\ u.anchor = RootOf(NoteTree(scenario))
                            /\ u.bsk = Some(<<"bsk">>)
  BY EncodingOf
<1>4. /\ \A f \in SpendFields : Decodes(f, e[f])
      /\ \A f \in OutputFields : Decodes(f, o[f])
  BY EncodingDecodes
<1> HIDE DEF e, o, u, error
<1>5. pczt' # None => error = "Ok" /\ Bundle' = b
  BY <1>1, SomeIsNotNone DEF Bundle
<1>6. /\ DOMAIN spend = SpendFields /\ spend.rseed = SeedOf(e)
      /\ \A f \in SpendFields \ {"rcm", "rseed"} : spend[f] = e[f]
  BY <1>3 DEF SpendFields
<1> HIDE DEF spend
<1>7. /\ b.spend = spend /\ b.output = o /\ b.anchor = u.anchor
      /\ DOMAIN b = {"spend", "output", "anchor", "bsk"}
  OBVIOUS
<1> HIDE DEF b
<1>8. HasFields(b)
  BY <1>3, <1>6, <1>7 DEF HasFields
<1>9. ASSUME error = "Ok"
      PROVE  IsDecoded(b)
  <2>1. /\ e.proof_generation_key # Malformed /\ e.witness # Malformed
        /\ o.recipient # Malformed
    <3>1. spend_error(e) = "Ok" /\ output_error(o) = "Ok"
      BY <1>2, <1>9
    <3>2. e.proof_generation_key # Malformed /\ e.witness # Malformed
      BY <3>1, SpendParses
    <3>3. o.recipient # Malformed
      BY <3>1, OutputParses
    <3>4. QED
      BY <3>2, <3>3
  <2>2. /\ Decodes("value", e.value) /\ Decodes("witness", e.witness)
        /\ Decodes("proof_generation_key", e.proof_generation_key)
        /\ Decodes("recipient", o.recipient)
    BY <1>4 DEF SpendFields, OutputFields
  <2>3. /\ spend.value = e.value /\ spend.witness = e.witness
        /\ spend.proof_generation_key = e.proof_generation_key
    BY <1>6 DEF SpendFields
  <2>4. QED
    BY <1>7, <2>1, <2>2, <2>3 DEF IsDecoded, Decodes, Depth
<1>10. ASSUME deviations = {}
       PROVE  error = "Ok" /\ Unaltered(b)
  <2>1. spend_error(e) = "Ok" /\ SeedOf(e) = Some(SpentNote(scenario).rseed)
    BY <1>3, <1>10, BuiltSpendParses
  <2>2. output_error(o) = "Ok"
    BY <1>3, <1>10, BuiltOutputParses
  <2>3. bundle_error(u) = "Ok"
    <3>1. Len(NoteTree(scenario)) \in Nat
      BY DEF NoteTree
    <3>2. u.anchor # Malformed
      BY <1>3, <1>10, <3>1, RootIsHash
    <3>3. u.bsk # Malformed
      BY <1>3, <1>10 DEF Some, Malformed
    <3>4. /\ Bad(u.anchor, "InvalidAnchor") = "Ok"
          /\ Bad(u.bsk, "InvalidBindingSignatureSigningKey") = "Ok"
      BY <3>2, <3>3 DEF Bad
    <3>5. QED
      BY <3>4, TwoChecks DEF bundle_error
  <2>4. QED
    BY <1>2, <1>3, <1>6, <1>7, <1>10, <2>1, <2>2, <2>3
       DEF Unaltered, SpendEdits, OutputEdits
<1>11. QED
  BY <1>1, <1>5, <1>8, <1>9, <1>10, SomeIsNotNone

-----------------------------------------------------------------------------
(* The invariant of the fields                                             *)

WellParsed ==
  /\ scenario \in Scenarios /\ deviations \subseteq Deviations
  /\ parsing = None => pczt = None
  /\ pczt = None => approved = None
  /\ pczt # None => HasFields(Bundle) /\ IsDecoded(Bundle)

\* A bundle that arrives as it was built parses, and the roles leave it so.
BuiltStays ==
  deviations = {} =>
    /\ parsing \in {None, Some("Ok")}
    /\ pczt # None => Unaltered(Bundle)

\* An extracted bundle is made of descriptions, and nothing else: it is what
\* the v5 format gives back with the anchor that it had.
TxIsDescriptions ==
  tx # None =>
    tx = Some([spend |-> into_spend_description(tx[1].spend, tx[1].spend.anchor,
                                                tx[1].spend.zkproof, tx[1].spend.spend_auth_sig),
               output |-> into_output_description(tx[1].output, tx[1].output.zkproof)])

FieldsIInv == WellParsed /\ BuiltStays /\ TxIsDescriptions /\ ApprovedIsOwn

\* What approval says of a bundle: the body of ApprovedIsOwn
SaysOwn(b, approval) ==
  LET spend == b.spend
      output == b.output
      vk == to_viewing_key(KeyOf(approval[1]))
  IN  /\ AccountOf(spend) = approval
      /\ spend.cv = ValueCommit(spend.value[1], spend.rcv[1])
      /\ spend.value # Some(0) =>
           /\ Owns(vk, spend.recipient[1])
           /\ spend.nullifier = nf(SpendNote(spend), vk.nk, spend.witness[1].position)
      /\ output.cmu = cmu(OutputNote(output))
      /\ output.cv = ValueCommit(output.value[1], output.rcv[1])

\* It stays true: no role changes what was approved.
LEMMA StillOwn ==
  ASSUME NEW b, NEW c, Edited(b, c), NEW approval, SaysOwn(b, approval)
  PROVE  SaysOwn(c, approval)
<1> DEFINE s == b.spend
           t == c.spend
           o == b.output
           q == c.output
<1>1. /\ t.cv = s.cv /\ t.nullifier = s.nullifier /\ t.recipient = s.recipient
      /\ t.value = s.value /\ t.rseed = s.rseed /\ t.rcv = s.rcv
      /\ t.witness = s.witness /\ t.zip32_derivation = s.zip32_derivation
  BY DEF Edited, SpendFields, SpendEdits
<1>2. /\ q.cv = o.cv /\ q.cmu = o.cmu /\ q.recipient = o.recipient
      /\ q.value = o.value /\ q.rseed = o.rseed /\ q.rcv = o.rcv
  BY DEF Edited, OutputFields, OutputEdits
<1> HIDE DEF s, t, o, q
<1>3. AccountOf(t) = AccountOf(s) /\ SpendNote(t) = SpendNote(s)
  BY <1>1 DEF AccountOf, SpendNote
<1>4. OutputNote(q) = OutputNote(o)
  BY <1>2 DEF OutputNote
<1>5. QED
  BY <1>1, <1>2, <1>3, <1>4 DEF SaysOwn, s, t, o, q

\* The checks of a Signer show it.
LEMMA ChecksShowOwn ==
  ASSUME NEW account, AccountOf(Bundle.spend) = Some(account), signer_error(account) = "Ok"
  PROVE  SaysOwn(Bundle, Some(account))
<1> DEFINE spend == Bundle.spend
           output == Bundle.output
           vk == to_viewing_key(KeyOf(account))
<1>1. /\ verify_cv(spend) = "Ok" /\ verify_nullifier(spend, Some(vk)) = "Ok"
      /\ verify_cv(output) = "Ok" /\ verify_note_commitment(output) = "Ok"
  BY SixChecks DEF signer_error
<1>2. /\ spend.cv = ValueCommit(spend.value[1], spend.rcv[1])
      /\ output.cv = ValueCommit(output.value[1], output.rcv[1])
  BY <1>1, VerifyCvOk
<1>3. output.cmu = cmu(OutputNote(output))
  BY <1>1, VerifyNoteCommitmentOk
<1>4. /\ vk_error(spend, Some(vk)) = "Ok"
      /\ Owns(vk_for_validation(spend, Some(vk)), spend.recipient[1])
      /\ spend.nullifier = nf(SpendNote(spend), vk_for_validation(spend, Some(vk)).nk,
                              spend.witness[1].position)
  BY <1>1, VerifyNullifierOk
<1> HIDE DEF spend, output, vk
<1>5. spend.value # Some(0) => vk_for_validation(spend, Some(vk)) = vk
  BY <1>4, SomeIsNotNone DEF vk_error, vk_for_validation
<1>6. Some(account)[1] = account
  BY SomeIsNotNone
<1>7. QED
  BY <1>2, <1>3, <1>4, <1>5, <1>6 DEF SaysOwn, spend, output, vk

\* Nothing has been parsed, approved or extracted at first.
LEMMA FieldsInitial == FieldsInit => FieldsIInv
<1> SUFFICES ASSUME FieldsInit PROVE FieldsIInv
  OBVIOUS
<1>1. scenario \in Scenarios /\ pczt = None /\ parsing = None /\ approved = None /\ tx = None
  BY DEF FieldsInit
<1>2. deviations \subseteq Deviations
  BY DEF FieldsInit
<1>3. QED
  BY <1>1, <1>2 DEF FieldsIInv, WellParsed, BuiltStays, TxIsDescriptions, ApprovedIsOwn

\* Parsing keeps the invariant: nothing has been approved yet.
LEMMA ParsePreserves ==
  ASSUME FieldsIInv, Parse
  PROVE  FieldsIInv'
<1>1. scenario \in Scenarios /\ deviations \subseteq Deviations /\ approved = None
  BY DEF FieldsIInv, WellParsed, Parse
<1>2. /\ scenario' = scenario /\ deviations' = deviations
      /\ approved' = approved /\ tx' = tx
  BY DEF Parse
<1>3. /\ pczt' # None => HasFields(Bundle') /\ IsDecoded(Bundle')
      /\ parsing' # None
      /\ deviations = {} => /\ parsing' = Some("Ok")
                            /\ pczt' # None => Unaltered(Bundle')
  BY <1>1, ParseStep
<1>4. WellParsed'
  BY <1>1, <1>2, <1>3 DEF WellParsed, HasFields, IsDecoded
<1>5. BuiltStays'
  BY <1>2, <1>3 DEF BuiltStays, Unaltered
<1>6. TxIsDescriptions'
  BY <1>2 DEF FieldsIInv, TxIsDescriptions
<1>7. ApprovedIsOwn'
  BY <1>1, <1>2 DEF ApprovedIsOwn
<1>8. QED
  BY <1>4, <1>5, <1>6, <1>7 DEF FieldsIInv

\* So do Updater, Signer and Prover: no field that an approval is about is one
\* that they set.
LEMMA EditPreserves ==
  ASSUME FieldsIInv, Edit
  PROVE  FieldsIInv'
<1>1. /\ scenario' = scenario /\ deviations' = deviations /\ parsing' = parsing
      /\ tx' = tx /\ pczt # None
  BY DEF Edit, SetProofGenerationKey, Sign, CreateProofs
<1>2. HasFields(Bundle) /\ IsDecoded(Bundle)
  BY <1>1 DEF FieldsIInv, WellParsed
<1>3. pczt' # None /\ Edited(Bundle, Bundle')
  BY <1>1, <1>2, EditStep
<1>4. ASSUME NEW b, NEW c, Edited(b, c), IsDecoded(b)
      PROVE  HasFields(c) /\ IsDecoded(c)
  <2>1. /\ c.spend.value = b.spend.value /\ c.spend.witness = b.spend.witness
        /\ c.output.recipient = b.output.recipient
    BY <1>4 DEF Edited, SpendFields, SpendEdits, OutputFields, OutputEdits
  <2>2. \A pgk \in Spenders : pgk.ak # SmallOrderPoint
    <3> TAKE pgk \in Spenders
    <3>1. Decodes("proof_generation_key", Some(pgk))
      BY FieldsAssumption DEF FieldsAssumption
    <3>2. Some(pgk) \notin {None, Malformed} /\ Some(pgk)[1] = pgk
      BY DEF Some, None, Malformed
    <3>3. QED
      BY <3>1, <3>2 DEF Decodes
  <2>3. \/ c.spend.proof_generation_key = b.spend.proof_generation_key
        \/ \E pgk \in Spenders : c.spend.proof_generation_key = Some(pgk)
    BY <1>4 DEF Edited
  <2>4. c.spend.proof_generation_key # None
          => c.spend.proof_generation_key[1].ak # SmallOrderPoint
    BY <1>4, <2>2, <2>3, SomeIsNotNone DEF IsDecoded
  <2>5. QED
    BY <1>4, <2>1, <2>4 DEF IsDecoded, Edited
<1>5. WellParsed'
  <2>1. HasFields(Bundle') /\ IsDecoded(Bundle')
    BY <1>2, <1>3, <1>4
  <2>2. parsing' # None
    BY <1>1 DEF FieldsIInv, WellParsed
  <2>3. scenario \in Scenarios /\ deviations \subseteq Deviations
    BY DEF FieldsIInv, WellParsed
  <2>4. QED
    BY <1>1, <1>3, <2>1, <2>2, <2>3 DEF WellParsed, HasFields, IsDecoded
<1>6. BuiltStays'
  <2> SUFFICES ASSUME deviations = {}
               PROVE  parsing' \in {None, Some("Ok")} /\ Unaltered(Bundle)'
    BY <1>1 DEF BuiltStays
  <2>1. parsing \in {None, Some("Ok")} /\ Unaltered(Bundle)
    BY <1>1 DEF FieldsIInv, BuiltStays
  <2>2. /\ \A f \in SpendFields \ SpendEdits : Bundle'.spend[f] = Bundle.spend[f]
        /\ \A f \in OutputFields \ OutputEdits : Bundle'.output[f] = Bundle.output[f]
        /\ Bundle'.anchor = Bundle.anchor
    BY <1>3 DEF Edited
  <2>3. "rseed" \in SpendFields \ SpendEdits
    BY DEF SpendFields, SpendEdits
  <2>4. Unaltered(Bundle)'
    BY <1>1, <2>1, <2>2, <2>3 DEF Unaltered
  <2>5. QED
    BY <1>1, <2>1, <2>4
<1>7. TxIsDescriptions'
  BY <1>1 DEF FieldsIInv, TxIsDescriptions
<1>8. ApprovedIsOwn'
  <2>1. CASE approved' = approved
    <3>1. approved # None => SaysOwn(Bundle, approved)
      BY DEF FieldsIInv, ApprovedIsOwn, SaysOwn
    <3>2. approved # None => SaysOwn(Bundle', approved)
      BY <1>3, <3>1, StillOwn
    <3>3. QED
      BY <2>1, <3>2 DEF ApprovedIsOwn, SaysOwn
  <2>2. ASSUME NEW account \in DOMAIN Accounts, Sign(account)
        PROVE  ApprovedIsOwn'
    <3>1. /\ AccountOf(Bundle.spend) = Some(account) /\ signer_error(account) = "Ok"
          /\ approved' = Some(account)
      BY <2>2, SomeIsNotNone DEF Sign, Some
    <3>2. SaysOwn(Bundle, Some(account))
      BY <3>1, ChecksShowOwn
    <3>3. SaysOwn(Bundle', approved')
      BY <1>3, <3>1, <3>2, StillOwn
    <3>4. QED
      BY <3>3 DEF ApprovedIsOwn, SaysOwn
  <2>3. approved' = approved \/ \E account \in DOMAIN Accounts : Sign(account)
    BY DEF Edit, SetProofGenerationKey, CreateProofs
  <2>4. QED
    BY <2>1, <2>2, <2>3
<1>9. QED
  BY <1>5, <1>6, <1>7, <1>8 DEF FieldsIInv

AreDescriptions(t) ==
  t = Some([spend |-> into_spend_description(t[1].spend, t[1].spend.anchor,
                                             t[1].spend.zkproof, t[1].spend.spend_auth_sig),
            output |-> into_output_description(t[1].output, t[1].output.zkproof)])

\* A step that leaves tx alone leaves it made of descriptions.
LEMMA DescriptionsStay ==
  ASSUME NEW s, NEW a, NEW p, NEW g, NEW o, NEW q, NEW t,
         t = Some([spend |-> into_spend_description(s, a, p, g),
                   output |-> into_output_description(o, q)])
  PROVE  AreDescriptions(t)
<1> DEFINE d == into_spend_description(s, a, p, g)
           e == into_output_description(o, q)
<1>1. t[1].spend = d /\ t[1].output = e
  BY SomeIsNotNone
<1>2. d = into_spend_description(d, d.anchor, d.zkproof, d.spend_auth_sig)
  BY DEF into_spend_description
<1>3. e = into_output_description(e, e.zkproof)
  BY DEF into_output_description
<1>4. t = Some([spend |-> d, output |-> e])
  OBVIOUS
<1> HIDE DEF d, e
<1>5. QED
  BY <1>1, <1>2, <1>3, <1>4 DEF AreDescriptions

\* What is extracted is made of descriptions.
LEMMA ExtractPreserves ==
  ASSUME FieldsIInv, Extract
  PROVE  FieldsIInv'
<1>1. /\ UNCHANGED <<scenario, deviations, pczt, parsing, approved>>
      /\ tx' = Some([spend |-> SpendDescription(Bundle.spend, Bundle.anchor,
                                                Bundle.spend.zkproof[1]),
                     output |-> OutputDescription(Bundle.output, Bundle.output.zkproof[1])])
  BY DEF Extract
<1>2. WellParsed' /\ BuiltStays' /\ ApprovedIsOwn'
  BY <1>1 DEF FieldsIInv, WellParsed, BuiltStays, ApprovedIsOwn, Bundle, Unaltered, HasFields,
              IsDecoded
<1>3. TxIsDescriptions'
  <2> DEFINE s == Bundle.spend
             o == Bundle.output
  <2>1. /\ SpendDescription(s, Bundle.anchor, s.zkproof[1])
           = into_spend_description(s, Bundle.anchor, s.zkproof[1], s.spend_auth_sig[1])
        /\ OutputDescription(o, o.zkproof[1]) = into_output_description(o, o.zkproof[1])
    BY DEF SpendDescription, OutputDescription, into_spend_description, into_output_description
  <2>2. tx' = Some([spend |-> into_spend_description(s, Bundle.anchor, s.zkproof[1],
                                                     s.spend_auth_sig[1]),
                    output |-> into_output_description(o, o.zkproof[1])])
    BY <1>1, <2>1
  <2>3. AreDescriptions(tx')
    BY <2>2, DescriptionsStay
  <2>4. QED
    BY <2>3 DEF AreDescriptions, TxIsDescriptions
<1>4. QED
  BY <1>2, <1>3 DEF FieldsIInv

\* A transaction that is read from the v5 format
ReadWith(anchor) ==
  Some([spend |-> into_spend_description(tx[1].spend, anchor, tx[1].spend.zkproof,
                                         tx[1].spend.spend_auth_sig),
        output |-> into_output_description(tx[1].output, tx[1].output.zkproof)])

\* What the v5 format gives back of a bundle made of descriptions.
LEMMA V5Read ==
  ASSUME NEW anchor, ReadV5(anchor)
  PROVE  /\ UNCHANGED <<scenario, deviations, pczt, parsing, approved>>
         /\ tx # None /\ tx' = ReadWith(anchor)
BY DEF ReadV5, ReadWith, into_spend_description, into_output_description

\* It is made of descriptions again.
LEMMA ReadPreserves ==
  ASSUME FieldsIInv, NEW anchor, ReadV5(anchor)
  PROVE  FieldsIInv'
<1>1. UNCHANGED <<scenario, deviations, pczt, parsing, approved>> /\ tx' = ReadWith(anchor)
  BY V5Read
<1>2. WellParsed' /\ BuiltStays' /\ ApprovedIsOwn'
  BY <1>1 DEF FieldsIInv, WellParsed, BuiltStays, ApprovedIsOwn, Bundle, Unaltered, HasFields,
              IsDecoded
<1>3. TxIsDescriptions'
  <2>1. AreDescriptions(tx')
    BY <1>1, DescriptionsStay DEF ReadWith
  <2>2. QED
    BY <2>1 DEF AreDescriptions, TxIsDescriptions
<1>4. QED
  BY <1>2, <1>3 DEF FieldsIInv

\* Every step of the specification keeps the invariant.
LEMMA FieldsStep == FieldsIInv /\ [FieldsNext]_fieldVars => FieldsIInv'
<1> SUFFICES ASSUME FieldsIInv, [FieldsNext]_fieldVars PROVE FieldsIInv'
  OBVIOUS
<1>1. CASE Parse
  BY <1>1, ParsePreserves
<1>2. CASE Edit
  BY <1>2, EditPreserves
<1>3. CASE Extract
  BY <1>3, ExtractPreserves
<1>4. ASSUME NEW anchor, ReadV5(anchor)
      PROVE  FieldsIInv'
  BY <1>4, ReadPreserves
<1>5. CASE UNCHANGED fieldVars
  BY <1>5 DEF fieldVars, FieldsIInv, WellParsed, BuiltStays, TxIsDescriptions, ApprovedIsOwn,
              Bundle, Unaltered, HasFields, IsDecoded
<1>6. QED
  BY <1>1, <1>2, <1>3, <1>4, <1>5 DEF FieldsNext, Edit

\* The invariant of the fields (pczt.rs).
THEOREM FieldsInvariant == FieldsSpec => []FieldsIInv
<1>1. FieldsInit => FieldsIInv
  BY FieldsInitial
<1>2. FieldsIInv /\ [FieldsNext]_fieldVars => FieldsIInv'
  BY FieldsStep
<1>3. QED
  BY <1>1, <1>2, PTL DEF FieldsSpec

\* What a Signer has signed for is its account's, or has no value.
THEOREM SignedIsOwn == FieldsSpec => []ApprovedIsOwn
<1>1. FieldsIInv => ApprovedIsOwn
  BY DEF FieldsIInv
<1>2. QED
  BY <1>1, FieldsInvariant, PTL

\* The v5 format keeps proofs, but for an anchor that is not theirs.
THEOREM V5Keeps == FieldsSpec => V5KeepsProofs
<1> DEFINE Keeps == tx # None /\ tx' # tx =>
                      /\ tx'[1].spend.anchor # tx[1].spend.anchor
                      /\ ~(SpendVerifies(tx[1].spend) /\ SpendVerifies(tx'[1].spend))
                      /\ OutputVerifies(tx'[1].output) = OutputVerifies(tx[1].output)
<1>1. FieldsIInv /\ [FieldsNext]_fieldVars => [Keeps]_fieldVars
  <2> SUFFICES ASSUME FieldsIInv, FieldsNext, tx # None, tx' # tx
               PROVE  Keeps
    OBVIOUS
  <2>1. PICK anchor : ReadV5(anchor)
    BY DEF FieldsNext, Parse, SetProofGenerationKey, Sign, CreateProofs, Extract
  <2>2. tx' = ReadWith(anchor)
    BY <2>1, V5Read
  <2>3. tx = ReadWith(tx[1].spend.anchor)
    BY DEF FieldsIInv, TxIsDescriptions, ReadWith
  <2> DEFINE s == tx[1].spend
             t == tx'[1].spend
             o == tx[1].output
  <2>4. /\ t = into_spend_description(s, anchor, s.zkproof, s.spend_auth_sig)
        /\ tx'[1].output = into_output_description(o, o.zkproof)
        /\ o = into_output_description(o, o.zkproof)
    BY <2>2, <2>3, SomeIsNotNone DEF ReadWith
  <2>5. tx'[1].output = o
    BY <2>4
  <2>6. anchor # s.anchor
    BY <2>2, <2>3
  <2>7. t.anchor = anchor /\ t.zkproof = s.zkproof
    BY <2>4 DEF into_spend_description
  <2> HIDE DEF s, t, o
  <2>8. ~(SpendVerifies(s) /\ SpendVerifies(t))
    <3>1. SpendVerifies(s) => s.zkproof.inputs = <<s.rk, s.cv, s.anchor, s.nullifier>>
      BY DEF SpendVerifies, ProofVerifies
    <3>2. SpendVerifies(t) => s.zkproof.inputs = <<t.rk, t.cv, t.anchor, t.nullifier>>
      BY <2>7 DEF SpendVerifies, ProofVerifies
    <3>3. <<s.rk, s.cv, s.anchor, s.nullifier>> # <<t.rk, t.cv, t.anchor, t.nullifier>>
      BY <2>6, <2>7
    <3>4. QED
      BY <3>1, <3>2, <3>3
  <2>9. QED
    BY <2>5, <2>6, <2>7, <2>8 DEF s, t, o
<1>2. FieldsSpec => [][Keeps]_fieldVars
  BY <1>1, FieldsInvariant, PTL DEF FieldsSpec
<1>3. QED
  BY <1>2 DEF V5KeepsProofs

-----------------------------------------------------------------------------
(* The proofs that the Prover makes                                         *)

\* The path of a witness, as nodes and bits
FollowsPath(w, path) ==
  /\ Len(w.auth_path) = Depth
  /\ \A l \in Levels : w.auth_path[l] = <<path.path_elems[l],
                                          (path.position \div 2 ^ (l - 1)) % 2 = 1>>

\* The witness of a spend opens its note, at the position of its path.
LEMMA PreparedSpend ==
  ASSUME NEW pgk, NEW d \in ValidDiversifiers, NEW rseed, NEW value, NEW alpha, NEW rcv,
         NEW anchor, NEW path, path.position \in 0 .. 2 ^ Depth - 1,
         NEW note, note = Note([diversifier |-> d, pk_d |-> <<"pk_d", Ivk(to_viewing_key(pgk)), d>>],
                               value, rseed),
         NEW w, w = PrepareSpend(pgk, d, rseed, value, alpha, rcv, anchor, path)[1]
  PROVE  /\ w.value = value /\ w.rcv = rcv /\ w.anchor = anchor
         /\ w.proof_generation_key = pgk
         /\ SpendRk(w) = randomize(to_viewing_key(pgk).ak, alpha)
         /\ SpendNf(w) = nf(note, to_viewing_key(pgk).nk, path.position)
         /\ SpendCm(w) = cm_full_point(note)
         /\ w.g_d # SmallOrderPoint
         /\ FollowsPath(w, path)
<1> DEFINE vk == to_viewing_key(pgk)
           auth == [l \in Levels |-> <<path.path_elems[l],
                                       (path.position \div 2 ^ (l - 1)) % 2 = 1>>]
           g == diversify_hash(d)[1]
<1>1. ToPaymentAddress(Ivk(vk), d) # None
  BY AddressOfKey
<1>2. g = <<"g_d", d>>
  <2>1. diversify_hash(d) = Some(<<"g_d", d>>)
    BY AddressOfKey
  <2>2. QED
    BY <2>1, SomeIsNotNone
<1>3. w = [value |-> value, rcv |-> rcv, proof_generation_key |-> pgk, g_d |-> g,
           rcm |-> rcm_of(rseed), ar |-> alpha, auth_path |-> auth, anchor |-> anchor]
  BY <1>1, SomeIsNotNone DEF PrepareSpend
<1>4. /\ w.value = value /\ w.rcv = rcv /\ w.anchor = anchor
      /\ w.proof_generation_key = pgk /\ w.g_d = g /\ w.rcm = rcm_of(rseed)
      /\ w.ar = alpha /\ w.auth_path = auth
  BY <1>3
<1>5. Len(auth) = Depth /\ Levels = 1 .. Depth
  BY TreeAssumption DEF TreeAssumption, Levels, Depth
<1>6. \A l \in Levels : auth[l] = <<path.path_elems[l],
                                    (path.position \div 2 ^ (l - 1)) % 2 = 1>>
  OBVIOUS
<1> HIDE DEF auth
<1>7. vk.ak = pgk.ak /\ vk.nk = NullifierDerivingKey(pgk.nsk)
  BY DEF to_viewing_key
<1>8. SpendNk(w) = vk.nk /\ SpendIvk(w) = Ivk(vk)
  BY <1>4, <1>7 DEF SpendNk, SpendIvk, Ivk
<1> HIDE DEF vk
<1>9. SpendCm(w) = cm_full_point(note)
  <2>1. ka_sapling_derive_public(Ivk(vk), g) = <<"pk_d", Ivk(vk), d>>
    BY <1>2 DEF ka_sapling_derive_public, SmallOrderPoint
  <2>2. /\ note.recipient.diversifier = d /\ note.recipient.pk_d = <<"pk_d", Ivk(vk), d>>
        /\ note.value = value /\ note.rseed = rseed
    BY DEF Note, vk
  <2>3. QED
    BY <1>4, <1>8, <2>1, <2>2 DEF SpendCm, cm_full_point
<1>10. PositionOf(w.auth_path) = path.position
  <2>1. PICK p \in 0 .. 2 ^ Depth - 1 : p = path.position
    OBVIOUS
  <2>2. \A l \in Levels : auth[l][2] = ((p \div 2 ^ (l - 1)) % 2 = 1)
    BY <1>6, <2>1
  <2>3. PositionOf(auth) = p
    BY <1>5, <2>2, BitsSpell
  <2>4. QED
    BY <1>4, <2>1, <2>3
<1>11. SpendNf(w) = nf(note, vk.nk, path.position)
  BY <1>8, <1>9, <1>10 DEF SpendNf, nf
<1>12. w.g_d # SmallOrderPoint
  BY <1>2, <1>4 DEF SmallOrderPoint
<1>13. SpendRk(w) = randomize(vk.ak, alpha)
  BY <1>4, <1>7 DEF SpendRk
<1>14. FollowsPath(w, path)
  BY <1>4, <1>5, <1>6 DEF FollowsPath
<1>15. QED
  BY <1>4, <1>9, <1>11, <1>12, <1>13, <1>14 DEF vk

\* The witness that the Prover makes of a spend's fields
WitnessOf(spend, anchor) ==
  PrepareSpend(spend.proof_generation_key[1], spend.recipient[1].diversifier,
               spend.rseed[1], spend.value[1], spend.alpha[1], spend.rcv[1],
               anchor, spend.witness[1])[1]

\* When the proof of a spend is valid
LEMMA SpendProofVerifies ==
  ASSUME NEW s, NEW anchor,
         s.recipient[1].diversifier \in ValidDiversifiers,
         s.witness[1].position \in 0 .. 2 ^ Depth - 1,
         s.proof_generation_key[1].ak # SmallOrderPoint,
         Owns(to_viewing_key(s.proof_generation_key[1]), s.recipient[1]),
         NEW d, d.cv = s.cv, d.rk = s.rk, d.nullifier = s.nullifier, d.anchor = anchor,
         d.zkproof = prove_spend(s, anchor)
  PROVE  SpendVerifies(d)
           <=> /\ ValueCommit(s.value[1], s.rcv[1]) = s.cv
               /\ randomize(to_viewing_key(s.proof_generation_key[1]).ak, s.alpha[1]) = s.rk
               /\ nf(SpendNote(s), to_viewing_key(s.proof_generation_key[1]).nk,
                     s.witness[1].position) = s.nullifier
               /\ s.value[1] = 0 \/ SpendRoot(WitnessOf(s, anchor)) = anchor
<1> DEFINE pgk == s.proof_generation_key[1]
           vk == to_viewing_key(pgk)
           r == s.recipient[1]
           w == WitnessOf(s, anchor)
           note == SpendNote(s)
<1>1. r = [diversifier |-> r.diversifier, pk_d |-> <<"pk_d", Ivk(vk), r.diversifier>>]
  <2> DEFINE a == [diversifier |-> r.diversifier, pk_d |-> <<"pk_d", Ivk(vk), r.diversifier>>]
  <2>1. ToPaymentAddress(Ivk(vk), r.diversifier) = Some(r)
    BY DEF Owns
  <2>2. ToPaymentAddress(Ivk(vk), r.diversifier) = Some(a)
    BY AddressOfKey
  <2> HIDE DEF a
  <2>3. r = a
    BY <2>1, <2>2, SomeIsNotNone
  <2>4. QED
    BY <2>3 DEF a
<1>2. note = Note([diversifier |-> r.diversifier, pk_d |-> <<"pk_d", Ivk(vk), r.diversifier>>],
                  s.value[1], s.rseed[1])
  BY <1>1 DEF SpendNote
<1>3. /\ w.value = s.value[1] /\ w.rcv = s.rcv[1] /\ w.anchor = anchor
      /\ w.proof_generation_key = pgk
      /\ SpendRk(w) = randomize(vk.ak, s.alpha[1])
      /\ SpendNf(w) = nf(note, vk.nk, s.witness[1].position)
      /\ w.g_d # SmallOrderPoint
  BY <1>2, PreparedSpend DEF WitnessOf
<1>4. d.zkproof = ProveSpend(w)
  <2>1. note.recipient.diversifier = r.diversifier /\ note.value = s.value[1]
        /\ note.rseed = s.rseed[1]
    BY DEF SpendNote, Note
  <2>2. QED
    BY <2>1 DEF prove_spend, WitnessOf
<1> HIDE DEF w, note, vk
<1>5. SpendSatisfied(w) <=> s.value[1] = 0 \/ SpendRoot(w) = anchor
  BY <1>3 DEF SpendSatisfied, assert_not_small_order, AnchorFits
<1>6. SpendInputs(w) = <<randomize(vk.ak, s.alpha[1]), ValueCommit(s.value[1], s.rcv[1]),
                         anchor, nf(note, vk.nk, s.witness[1].position)>>
  BY <1>3 DEF SpendInputs, expose_value_commitment
<1>7. SpendVerifies(d) <=> /\ SpendSatisfied(w)
                           /\ SpendInputs(w) = <<s.rk, s.cv, anchor, s.nullifier>>
  BY <1>4 DEF SpendVerifies, ProofVerifies, ProveSpend
<1>8. SpendVerifies(d)
        <=> /\ ValueCommit(s.value[1], s.rcv[1]) = s.cv
            /\ randomize(vk.ak, s.alpha[1]) = s.rk
            /\ nf(note, vk.nk, s.witness[1].position) = s.nullifier
            /\ s.value[1] = 0 \/ SpendRoot(w) = anchor
  BY <1>5, <1>6, <1>7
<1>9. QED
  BY <1>8 DEF w, note, vk

\* When the proof of an output is valid
LEMMA OutputProofVerifies ==
  ASSUME NEW o, o.recipient[1].diversifier \in ValidDiversifiers,
         NEW d, d.cv = o.cv, d.cmu = o.cmu, d.ephemeral_key = o.ephemeral_key,
         d.zkproof = prove_output(o)
  PROVE  OutputVerifies(d)
           <=> /\ ValueCommit(o.value[1], o.rcv[1]) = o.cv
               /\ cmu(OutputNote(o)) = o.cmu
               /\ KeyIsTheNotes(o)
<1> DEFINE r == o.recipient[1]
           note == OutputNote(o)
           g == diversify_hash(r.diversifier)[1]
           esk == <<"esk", o.rseed[1]>>
           w == PrepareOutput(esk, r, rcm_of(note.rseed), o.value[1], o.rcv[1])
<1>1. g = <<"g_d", r.diversifier>>
  <2>1. diversify_hash(r.diversifier) = Some(<<"g_d", r.diversifier>>)
    BY AddressOfKey
  <2>2. QED
    BY <2>1, SomeIsNotNone
<1>2. note.recipient = r /\ note.value = o.value[1] /\ note.rseed = AfterZip212(o.rseed[1])
  BY DEF OutputNote, Note
<1>3. \A random : generate_or_derive_esk(note, random) = esk
  BY <1>2 DEF generate_or_derive_esk, AfterZip212
<1>4. d.zkproof = ProveOutput(w)
  BY <1>2, <1>3 DEF prove_output
<1>5. /\ w.value = o.value[1] /\ w.rcv = o.rcv[1] /\ w.g_d = g /\ w.pk_d = r.pk_d
      /\ w.rcm = rcm_of(note.rseed) /\ w.esk = esk
  BY DEF PrepareOutput
<1>6. ka_sapling_derive_public(esk, g) = <<"pk_d", esk, r.diversifier>>
  BY <1>1 DEF ka_sapling_derive_public, SmallOrderPoint
<1>7. KeyIsTheNotes(o) <=> o.ephemeral_key = ka_sapling_derive_public(esk, g)
  BY <1>3 DEF KeyIsTheNotes
<1>8. OutputCmu(w) = cmu(note)
  BY <1>2, <1>5 DEF OutputCmu, cmu, cm_full_point
<1> HIDE DEF w, note, esk, g
<1>9. OutputSatisfied(w)
  BY <1>1, <1>5 DEF OutputSatisfied, assert_not_small_order, SmallOrderPoint
<1>10. OutputInputs(w) = <<ValueCommit(o.value[1], o.rcv[1]), ka_sapling_derive_public(esk, g),
                           cmu(note)>>
  BY <1>5, <1>8 DEF OutputInputs, expose_value_commitment, OutputEpk
<1>11. OutputVerifies(d) <=> /\ o.ephemeral_key # SmallOrderPoint
                             /\ OutputInputs(w) = <<o.cv, o.ephemeral_key, o.cmu>>
  BY <1>4, <1>9 DEF OutputVerifies, ProofVerifies, ProveOutput
<1>12. ka_sapling_derive_public(esk, g) # SmallOrderPoint
  BY <1>6 DEF SmallOrderPoint
<1>13. OutputVerifies(d) <=> /\ ValueCommit(o.value[1], o.rcv[1]) = o.cv
                             /\ cmu(note) = o.cmu
                             /\ o.ephemeral_key = ka_sapling_derive_public(esk, g)
  BY <1>10, <1>11, <1>12
<1>14. QED
  BY <1>7, <1>13 DEF note

\* The two halves of ChecksAreExact
SpendChecksExact(spend, anchor) ==
  (/\ spend_prover_error(spend) = "Ok"
   /\ Owns(to_viewing_key(spend.proof_generation_key[1]), spend.recipient[1]))
    => SpendVerifies([cv |-> spend.cv, anchor |-> anchor, rk |-> spend.rk,
                      nullifier |-> spend.nullifier,
                      zkproof |-> prove_spend(spend, anchor)])
         = (/\ FirstError(<<verify_cv(spend), verify_nullifier(spend, None),
                            verify_rk(spend, None)>>) = "Ok"
            /\ Anchored(spend, anchor))
OutputChecksExact(output) ==
  output_prover_error(output) = "Ok"
    => OutputVerifies([cv |-> output.cv, cmu |-> output.cmu,
                       ephemeral_key |-> output.ephemeral_key,
                       zkproof |-> prove_output(output)])
         = (/\ FirstError(<<verify_cv(output), verify_note_commitment(output)>>) = "Ok"
            /\ KeyIsTheNotes(output))

\* The proof of a spend is valid exactly if the checks of the spend pass and its
\* path leads to the anchor.
LEMMA SpendIsExact ==
  ASSUME NEW b, IsDecoded(b), NEW anchor
  PROVE  SpendChecksExact(b.spend, anchor)
<1> DEFINE s == b.spend
           pgk == s.proof_generation_key[1]
           vk == to_viewing_key(pgk)
           d == [cv |-> s.cv, anchor |-> anchor, rk |-> s.rk, nullifier |-> s.nullifier,
                 zkproof |-> prove_spend(s, anchor)]
           Checked == FirstError(<<verify_cv(s), verify_nullifier(s, None),
                                   verify_rk(s, None)>>) = "Ok"
<1> SUFFICES ASSUME spend_prover_error(s) = "Ok", Owns(vk, s.recipient[1])
             PROVE  SpendVerifies(d) = (Checked /\ Anchored(s, anchor))
  BY DEF SpendChecksExact
<1>1. /\ s.proof_generation_key # None /\ s.recipient # None /\ s.value # None
      /\ s.rseed # None /\ s.alpha # None /\ s.rcv # None /\ s.witness # None
      /\ s.recipient[1].diversifier \in ValidDiversifiers
  BY SpendProverOk
<1>2. /\ s.value = Some(s.value[1]) /\ pgk.ak # SmallOrderPoint
      /\ s.witness[1].position \in 0 .. 2 ^ Depth - 1
  BY <1>1 DEF IsDecoded
<1>3. /\ d.cv = s.cv /\ d.rk = s.rk /\ d.nullifier = s.nullifier /\ d.anchor = anchor
      /\ d.zkproof = prove_spend(s, anchor)
  OBVIOUS
<1> HIDE DEF d, s
<1>4. SpendVerifies(d)
        <=> /\ ValueCommit(s.value[1], s.rcv[1]) = s.cv
            /\ randomize(vk.ak, s.alpha[1]) = s.rk
            /\ nf(SpendNote(s), vk.nk, s.witness[1].position) = s.nullifier
            /\ s.value[1] = 0 \/ SpendRoot(WitnessOf(s, anchor)) = anchor
  BY <1>1, <1>2, <1>3, SpendProofVerifies
<1>5. vk_error(s, None) = "Ok" /\ vk_for_validation(s, None) = vk
  BY <1>1 DEF vk_error, vk_for_validation
<1>6. Checked <=> /\ verify_cv(s) = "Ok" /\ verify_nullifier(s, None) = "Ok"
                  /\ verify_rk(s, None) = "Ok"
  BY ThreeChecks
<1>7. verify_cv(s) = "Ok" <=> ValueCommit(s.value[1], s.rcv[1]) = s.cv
  BY <1>1, VerifyCvOk
<1>8. verify_nullifier(s, None) = "Ok"
        <=> nf(SpendNote(s), vk.nk, s.witness[1].position) = s.nullifier
  <2>1. verify_nullifier(s, None) = "Ok"
          <=> /\ vk_error(s, None) = "Ok"
              /\ s.recipient # None /\ s.value # None
              /\ s.rseed # None /\ s.witness # None
              /\ Owns(vk_for_validation(s, None), s.recipient[1])
              /\ nf(SpendNote(s), vk_for_validation(s, None).nk,
                    s.witness[1].position) = s.nullifier
    BY VerifyNullifierOk
  <2>2. QED
    BY <1>1, <1>5, <2>1
<1>9. verify_rk(s, None) = "Ok" <=> randomize(vk.ak, s.alpha[1]) = s.rk
  <2>1. verify_rk(s, None) = "Ok"
          <=> /\ vk_error(s, None) = "Ok" /\ s.alpha # None
              /\ randomize(vk_for_validation(s, None).ak, s.alpha[1]) = s.rk
    BY VerifyRkOk
  <2>2. QED
    BY <1>1, <1>5, <2>1
<1>10. Anchored(s, anchor) <=> s.value[1] = 0 \/ SpendRoot(WitnessOf(s, anchor)) = anchor
  <2>1. s.value = Some(0) <=> s.value[1] = 0
    BY <1>2, SomeIsNotNone
  <2>2. QED
    BY <2>1 DEF Anchored, WitnessOf
<1> HIDE DEF Checked, vk
<1>11. SpendVerifies(d) <=> (Checked /\ Anchored(s, anchor))
  BY <1>4, <1>6, <1>7, <1>8, <1>9, <1>10
<1>12. SpendVerifies(d) \in BOOLEAN
  BY DEF SpendVerifies, ProofVerifies
<1>13. QED
  BY <1>11, <1>12

\* The proof of an output is valid exactly if the checks of the output pass and
\* its ephemeral key is the note's.
LEMMA OutputIsExact ==
  ASSUME NEW b, IsDecoded(b)
  PROVE  OutputChecksExact(b.output)
<1> DEFINE o == b.output
           d == [cv |-> o.cv, cmu |-> o.cmu, ephemeral_key |-> o.ephemeral_key,
                 zkproof |-> prove_output(o)]
           Checked == FirstError(<<verify_cv(o), verify_note_commitment(o)>>) = "Ok"
<1> SUFFICES ASSUME output_prover_error(o) = "Ok"
             PROVE  OutputVerifies(d) = (Checked /\ KeyIsTheNotes(o))
  BY DEF OutputChecksExact
<1>1. o.recipient # None /\ o.value # None /\ o.rseed # None /\ o.rcv # None
  BY OutputProverOk
<1>2. o.recipient[1].diversifier \in ValidDiversifiers
  BY <1>1 DEF IsDecoded
<1>3. /\ d.cv = o.cv /\ d.cmu = o.cmu /\ d.ephemeral_key = o.ephemeral_key
      /\ d.zkproof = prove_output(o)
  OBVIOUS
<1> HIDE DEF d, o
<1>4. OutputVerifies(d)
        <=> /\ ValueCommit(o.value[1], o.rcv[1]) = o.cv
            /\ cmu(OutputNote(o)) = o.cmu
            /\ KeyIsTheNotes(o)
  BY <1>2, <1>3, OutputProofVerifies
<1>5. Checked <=> verify_cv(o) = "Ok" /\ verify_note_commitment(o) = "Ok"
  BY TwoChecks
<1>6. verify_cv(o) = "Ok" <=> ValueCommit(o.value[1], o.rcv[1]) = o.cv
  BY <1>1, VerifyCvOk
<1>7. verify_note_commitment(o) = "Ok" <=> cmu(OutputNote(o)) = o.cmu
  BY <1>1, VerifyNoteCommitmentOk
<1> HIDE DEF Checked
<1>8. OutputVerifies(d) <=> (Checked /\ KeyIsTheNotes(o))
  BY <1>4, <1>5, <1>6, <1>7
<1>9. OutputVerifies(d) \in BOOLEAN
  BY DEF OutputVerifies, ProofVerifies
<1>10. QED
  BY <1>8, <1>9

\* The Prover's proofs verify exactly if the checks pass and the conditions
\* hold that they leave out.
THEOREM ChecksExact == FieldsSpec => []ChecksAreExact
<1>1. FieldsIInv => ChecksAreExact
  <2> SUFFICES ASSUME FieldsIInv, pczt # None
               PROVE  SpendChecksExact(Bundle.spend, Bundle.anchor)
                      /\ OutputChecksExact(Bundle.output)
    BY DEF ChecksAreExact, SpendChecksExact, OutputChecksExact
  <2>1. IsDecoded(Bundle)
    BY DEF FieldsIInv, WellParsed
  <2>2. QED
    BY <2>1, SpendIsExact, OutputIsExact
<1>2. QED
  BY <1>1, FieldsInvariant, PTL

-----------------------------------------------------------------------------
(* A bundle as it was built                                                 *)

\* A spend's fields as they were built, with proof generation key or without
BuiltSpend(s, t) ==
  /\ t.cv = ValueCommit(s.value, <<"rcv">>)
  /\ t.nullifier = nf(SpentNote(s), VkOf(s).nk, NoteWitness(s).position)
  /\ t.rk = randomize(VkOf(s).ak, <<"alpha">>)
  /\ t.recipient = Some(RecipientOf(s)) /\ t.value = Some(s.value)
  /\ t.rseed = Some(SpentNote(s).rseed) /\ t.rcv = Some(<<"rcv">>)
  /\ t.witness = Some(NoteWitness(s)) /\ t.alpha = Some(<<"alpha">>)
  /\ t.proof_generation_key \in {None, Some(s.pgk)}

BuiltOutput(value, o) ==
  LET note == Note(Recipient, value, AfterZip212(<<"s">>))
  IN  /\ o.cv = ValueCommit(value, <<"output_rcv">>)
      /\ o.cmu = cmu(note)
      /\ o.ephemeral_key
           = ka_sapling_derive_public(generate_or_derive_esk(note, <<"random">>),
                                      diversify_hash(Recipient.diversifier)[1])
      /\ o.recipient = Some(Recipient) /\ o.value = Some(value)
      /\ o.rseed = Some(<<"s">>) /\ o.rcv = Some(<<"output_rcv">>)

\* A parsed bundle without deviations is the built one, whatever the roles set.
LEMMA UnalteredIsBuilt ==
  ASSUME NEW b, Unaltered(b), HasFields(b),
         b.spend.proof_generation_key \in {None, Some(scenario.pgk)},
         NEW t, t = [b.spend EXCEPT !.proof_generation_key = Some(scenario.pgk)]
  PROVE  /\ BuiltSpend(scenario, b.spend) /\ BuiltSpend(scenario, t)
         /\ BuiltOutput(scenario.value, b.output)
         /\ t.proof_generation_key = Some(scenario.pgk)
<1> DEFINE s == scenario
           u == b.spend
           built == SpendOf(s)
<1>1. /\ built.cv = ValueCommit(s.value, <<"rcv">>)
      /\ built.nullifier = nf(SpentNote(s), VkOf(s).nk, NoteWitness(s).position)
      /\ built.rk = randomize(VkOf(s).ak, <<"alpha">>)
      /\ built.recipient = Some(RecipientOf(s)) /\ built.value = Some(s.value)
      /\ built.rcv = Some(<<"rcv">>)
      /\ built.witness = Some(NoteWitness(s)) /\ built.alpha = Some(<<"alpha">>)
  <2>1. SpentNote(s).value = s.value /\ SpentNote(s).recipient = RecipientOf(s)
    BY NoteOfScenario
  <2>2. QED
    BY <2>1 DEF SpendOf, VkOf
<1> HIDE DEF built
<1>2. /\ u.cv = built.cv /\ u.nullifier = built.nullifier /\ u.rk = built.rk
      /\ u.recipient = built.recipient /\ u.value = built.value /\ u.rcv = built.rcv
      /\ u.witness = built.witness /\ u.alpha = built.alpha
      /\ u.rseed = Some(SpentNote(s).rseed)
  BY DEF Unaltered, SpendFields, SpendEdits, built
<1>3. BuiltSpend(s, u)
  BY <1>1, <1>2 DEF BuiltSpend
<1>4. /\ t.proof_generation_key = Some(s.pgk)
      /\ \A f \in SpendFields \ {"proof_generation_key"} : t[f] = u[f]
  BY DEF HasFields, SpendFields
<1>5. /\ t.cv = u.cv /\ t.nullifier = u.nullifier /\ t.rk = u.rk
      /\ t.recipient = u.recipient /\ t.value = u.value /\ t.rcv = u.rcv
      /\ t.witness = u.witness /\ t.alpha = u.alpha /\ t.rseed = u.rseed
  BY <1>4 DEF SpendFields
<1> HIDE DEF u, s
<1>6. BuiltSpend(s, t)
  BY <1>3, <1>4, <1>5 DEF BuiltSpend
<1>7. BuiltOutput(s.value, b.output)
  <2> DEFINE o == b.output
             note == Note(Recipient, s.value, AfterZip212(<<"s">>))
  <2>1. \A f \in OutputFields \ OutputEdits : o[f] = OutputOf(s.value)[f]
    BY DEF Unaltered, s
  <2>2. /\ o.cv = OutputOf(s.value).cv /\ o.cmu = OutputOf(s.value).cmu
        /\ o.ephemeral_key = OutputOf(s.value).ephemeral_key
        /\ o.recipient = OutputOf(s.value).recipient /\ o.value = OutputOf(s.value).value
        /\ o.rseed = OutputOf(s.value).rseed /\ o.rcv = OutputOf(s.value).rcv
    BY <2>1 DEF OutputFields, OutputEdits
  <2> HIDE DEF o
  <2>3. note.recipient = Recipient /\ note.value = s.value
    BY DEF Note
  <2>4. QED
    BY <2>2, <2>3 DEF BuiltOutput, OutputOf, o
<1>8. QED
  BY <1>3, <1>4, <1>6, <1>7 DEF s, u

\* The note of the fields is the one that was spent, and its recipient is the
\* key's.
LEMMA BuiltNote ==
  ASSUME NEW s, NEW t, BuiltSpend(s, t)
  PROVE  /\ SpendNote(t) = SpentNote(s)
         /\ Owns(VkOf(s), t.recipient[1])
         /\ t.recipient[1].diversifier \in ValidDiversifiers
<1>1. /\ FirstDiversifier \in ValidDiversifiers
      /\ t.recipient[1] = RecipientOf(s) /\ t.value[1] = s.value
      /\ t.rseed[1] = SpentNote(s).rseed
  BY SomeIsNotNone, NoteOfScenario DEF BuiltSpend
<1>2. SpentNote(s) = Note(RecipientOf(s), s.value, SpentNote(s).rseed)
  <2>1. SpentNote(s).recipient = RecipientOf(s) /\ SpentNote(s).value = s.value
    BY NoteOfScenario
  <2>2. QED
    BY <2>1 DEF SpentNote, Note
<1>3. ToPaymentAddress(Ivk(VkOf(s)), FirstDiversifier) = Some(RecipientOf(s))
  BY <1>1, AddressOfKey DEF RecipientOf
<1>4. RecipientOf(s).diversifier = FirstDiversifier
  BY DEF RecipientOf
<1>5. QED
  BY <1>1, <1>2, <1>3, <1>4 DEF SpendNote, Owns

\* The proof generation key of an account and the key that signs for it
LEMMA AccountSigns ==
  ASSUME NEW s, NEW account, s.pgk = KeyOf(account)
  PROVE  /\ VkOf(s) = to_viewing_key(KeyOf(account))
         /\ SpendValidatingKey(Accounts[account].ask) = VkOf(s).ak
BY DEF VkOf, KeyOf, to_viewing_key, proof_generation_key

\* The output that was built passes its checks and its proof is valid.
LEMMA BuiltOutputIsRight ==
  ASSUME NEW value, NEW o, BuiltOutput(value, o)
  PROVE  /\ verify_cv(o) = "Ok" /\ verify_note_commitment(o) = "Ok"
         /\ output_prover_error(o) = "Ok"
         /\ OutputVerifies([cv |-> o.cv, cmu |-> o.cmu, ephemeral_key |-> o.ephemeral_key,
                            zkproof |-> prove_output(o)])
<1> DEFINE d == [cv |-> o.cv, cmu |-> o.cmu, ephemeral_key |-> o.ephemeral_key,
                 zkproof |-> prove_output(o)]
<1>1. /\ o.recipient # None /\ o.value # None /\ o.rseed # None /\ o.rcv # None
      /\ o.recipient[1] = Recipient /\ o.value[1] = value /\ o.rseed[1] = <<"s">>
      /\ o.rcv[1] = <<"output_rcv">>
  BY SomeIsNotNone DEF BuiltOutput
<1>2. OutputNote(o) = Note(Recipient, value, AfterZip212(<<"s">>))
  BY <1>1 DEF OutputNote
<1>3. /\ ValueCommit(o.value[1], o.rcv[1]) = o.cv
      /\ cmu(OutputNote(o)) = o.cmu
      /\ KeyIsTheNotes(o)
  BY <1>1, <1>2 DEF BuiltOutput, KeyIsTheNotes
<1>4. verify_cv(o) = "Ok"
  BY <1>1, <1>3, VerifyCvOk
<1>5. verify_note_commitment(o) = "Ok"
  BY <1>1, <1>3, VerifyNoteCommitmentOk
<1>6. output_prover_error(o) = "Ok"
  BY <1>1, OutputProverOk
<1>7. o.recipient[1].diversifier \in ValidDiversifiers
  <2>1. Decodes("recipient", Some(Recipient))
    BY FieldsAssumption DEF FieldsAssumption
  <2>2. Some(Recipient) \notin {None, Malformed} /\ Some(Recipient)[1] = Recipient
    BY DEF Some, None, Malformed
  <2>3. QED
    BY <1>1, <2>1, <2>2 DEF Decodes
<1>8. OutputVerifies(d)
  <2>1. /\ d.cv = o.cv /\ d.cmu = o.cmu /\ d.ephemeral_key = o.ephemeral_key
        /\ d.zkproof = prove_output(o)
    OBVIOUS
  <2> HIDE DEF d
  <2>2. QED
    BY <1>3, <1>7, <2>1, OutputProofVerifies
<1>9. QED
  BY <1>4, <1>5, <1>6, <1>8

\* The witness of a spend with value leads to the root of its tree.
LEMMA BuiltPath ==
  ASSUME NEW s, ~s.dummy, NEW t, BuiltSpend(s, t), t.proof_generation_key = Some(s.pgk)
  PROVE  SpendRoot(WitnessOf(t, RootOf(NoteTree(s)))) = RootOf(NoteTree(s))
<1> DEFINE leaves == NoteTree(s)
           anchor == RootOf(leaves)
           w == WitnessOf(t, anchor)
           path == NoteWitness(s)
           d == FirstDiversifier
           vk == VkOf(s)
           note == SpentNote(s)
<1>1. /\ t.proof_generation_key[1] = s.pgk /\ t.recipient[1] = RecipientOf(s)
      /\ t.rseed[1] = note.rseed /\ t.value[1] = s.value /\ t.alpha[1] = <<"alpha">>
      /\ t.rcv[1] = <<"rcv">> /\ t.witness[1] = path
  BY SomeIsNotNone DEF BuiltSpend
<1>2. d \in ValidDiversifiers /\ RecipientOf(s).diversifier = d
  BY NoteOfScenario DEF RecipientOf
<1>3. w = PrepareSpend(s.pgk, d, note.rseed, s.value, <<"alpha">>, <<"rcv">>, anchor, path)[1]
  BY <1>1, <1>2 DEF WitnessOf
<1>4. path = MerklePathOf(leaves, 1) /\ path.position = 1
  BY DEF NoteWitness, MerklePathOf
<1>5. path.position \in 0 .. 2 ^ Depth - 1 /\ 2 ^ Depth \in Nat /\ 2 <= 2 ^ Depth
  BY PositionOfScenario
<1>6. note = Note([diversifier |-> d, pk_d |-> <<"pk_d", Ivk(to_viewing_key(s.pgk)), d>>],
                  s.value, note.rseed)
  <2>1. note = Note(RecipientOf(s), s.value, note.rseed)
    <3>1. note.recipient = RecipientOf(s) /\ note.value = s.value
      BY NoteOfScenario
    <3>2. QED
      BY <3>1 DEF SpentNote, Note
  <2>2. QED
    BY <2>1 DEF RecipientOf, VkOf
<1>7. Len(leaves) = 2 /\ leaves[2] = cmu(note)
  BY DEF NoteTree
<1> HIDE DEF w, path, leaves, note, anchor, d
<1>8. SpendCm(w) = cm_full_point(note) /\ FollowsPath(w, path)
  <2>1. PICK alpha, rcv : w = PrepareSpend(s.pgk, d, note.rseed, s.value, alpha, rcv, anchor, path)[1]
    BY <1>3
  <2>2. path.position \in 0 .. 2 ^ Depth - 1
    BY <1>5
  <2>3. QED
    BY <1>2, <1>6, <2>1, <2>2, PreparedSpend
<1>9. HasPathOf(w, leaves, 1)
  BY <1>4, <1>8 DEF HasPathOf, FollowsPath
<1>10. extract_p(SpendCm(w)) = leaves[1 + 1]
  BY <1>7, <1>8 DEF cmu
<1>11. Len(leaves) \in Nat /\ Len(leaves) <= 2 ^ Depth /\ 1 \in 0 .. Len(leaves) - 1
  BY <1>5, <1>7
<1>12. SpendRoot(w) = RootOf(leaves)
  BY <1>9, <1>10, <1>11, RootOfLeaf
<1>13. QED
  BY <1>12 DEF w, anchor, leaves

\* The spend that was built has all that a proof needs, and its proof is valid.
LEMMA BuiltSpendIsRight ==
  ASSUME NEW s \in Scenarios, NEW t, BuiltSpend(s, t), t.proof_generation_key = Some(s.pgk)
  PROVE  /\ spend_prover_error(t) = "Ok"
         /\ SpendVerifies([cv |-> t.cv, anchor |-> RootOf(NoteTree(s)), rk |-> t.rk,
                           nullifier |-> t.nullifier,
                           zkproof |-> prove_spend(t, RootOf(NoteTree(s)))])
<1> DEFINE anchor == RootOf(NoteTree(s))
           d == [cv |-> t.cv, anchor |-> anchor, rk |-> t.rk, nullifier |-> t.nullifier,
                 zkproof |-> prove_spend(t, anchor)]
<1>1. /\ t.recipient # None /\ t.value # None /\ t.rseed # None /\ t.rcv # None
      /\ t.alpha # None /\ t.witness # None /\ t.proof_generation_key # None
      /\ t.proof_generation_key[1] = s.pgk /\ t.value[1] = s.value
      /\ t.rcv[1] = <<"rcv">> /\ t.alpha[1] = <<"alpha">> /\ t.witness[1] = NoteWitness(s)
  BY SomeIsNotNone DEF BuiltSpend
<1>2. /\ SpendNote(t) = SpentNote(s) /\ Owns(VkOf(s), t.recipient[1])
      /\ t.recipient[1].diversifier \in ValidDiversifiers
  BY BuiltNote
<1>3. spend_prover_error(t) = "Ok"
  BY <1>1, <1>2, SpendProverOk
<1>4. /\ ValueCommit(t.value[1], t.rcv[1]) = t.cv
      /\ randomize(VkOf(s).ak, t.alpha[1]) = t.rk
      /\ nf(SpendNote(t), VkOf(s).nk, t.witness[1].position) = t.nullifier
  BY <1>1, <1>2 DEF BuiltSpend
<1>5. t.value[1] = 0 \/ SpendRoot(WitnessOf(t, anchor)) = anchor
  <2>1. CASE s.dummy
    BY <1>1, <2>1, KeyOfScenario
  <2>2. CASE ~s.dummy
    BY <2>2, BuiltPath
  <2>3. QED
    BY <2>1, <2>2
<1>6. t.witness[1].position \in 0 .. 2 ^ Depth - 1
  BY <1>1, PositionOfScenario
<1>7. s.pgk.ak # SmallOrderPoint /\ VkOf(s) = to_viewing_key(t.proof_generation_key[1])
  BY <1>1, KeyOfScenario DEF VkOf
<1>8. /\ d.cv = t.cv /\ d.rk = t.rk /\ d.nullifier = t.nullifier /\ d.anchor = anchor
      /\ d.zkproof = prove_spend(t, anchor)
  OBVIOUS
<1> HIDE DEF d, anchor
<1>9. SpendVerifies(d)
  BY <1>1, <1>2, <1>4, <1>5, <1>6, <1>7, <1>8, SpendProofVerifies
<1>10. QED
  BY <1>3, <1>9 DEF d, anchor

\* A Signer of the key's account approves what was built.
LEMMA BuiltIsApproved ==
  ASSUME BuiltSpend(scenario, Bundle.spend), BuiltOutput(scenario.value, Bundle.output),
         NEW account, scenario.pgk = KeyOf(account)
  PROVE  signer_error(account) = "Ok"
<1> DEFINE s == scenario
           t == Bundle.spend
           o == Bundle.output
           fvk == Some(to_viewing_key(KeyOf(account)))
<1>1. fvk # None /\ fvk[1] = VkOf(s)
  BY SomeIsNotNone, AccountSigns
<1>2. /\ t.recipient # None /\ t.value # None /\ t.rseed # None /\ t.rcv # None
      /\ t.alpha # None /\ t.witness # None /\ t.value[1] = s.value
      /\ t.rcv[1] = <<"rcv">> /\ t.alpha[1] = <<"alpha">> /\ t.witness[1] = NoteWitness(s)
      /\ t.proof_generation_key # None => t.proof_generation_key[1] = s.pgk
  BY SomeIsNotNone DEF BuiltSpend
<1>3. SpendNote(t) = SpentNote(s) /\ Owns(VkOf(s), t.recipient[1])
  BY BuiltNote
<1>4. verify_cv(o) = "Ok" /\ verify_note_commitment(o) = "Ok"
  BY BuiltOutputIsRight
<1>5. verify_cv(t) = "Ok"
  BY <1>2, VerifyCvOk DEF BuiltSpend
<1>6. sign_error(t, Accounts[account].ask) = "Ok"
  <2>1. SpendValidatingKey(Accounts[account].ask) = VkOf(s).ak
    BY AccountSigns
  <2>2. QED
    BY <1>2, <2>1 DEF sign_error, BuiltSpend
<1>7. t.nullifier = nf(SpentNote(s), VkOf(s).nk, NoteWitness(s).position)
      /\ t.rk = randomize(VkOf(s).ak, <<"alpha">>)
  BY DEF BuiltSpend
<1>8. signer_error(account)
      = FirstError(<<verify_cv(t), verify_nullifier(t, fvk), verify_rk(t, fvk),
                     verify_cv(o), verify_note_commitment(o),
                     sign_error(t, Accounts[account].ask)>>)
  BY DEF signer_error
<1> HIDE DEF fvk, t, o, s
<1>9. vk_error(t, fvk) = "Ok" /\ vk_for_validation(t, fvk) = VkOf(s)
  BY <1>1, <1>2 DEF vk_error, vk_for_validation, VkOf
<1>10. verify_nullifier(t, fvk) = "Ok"
  <2>1. verify_nullifier(t, fvk) = "Ok"
          <=> /\ vk_error(t, fvk) = "Ok"
              /\ t.recipient # None /\ t.value # None /\ t.rseed # None /\ t.witness # None
              /\ Owns(vk_for_validation(t, fvk), t.recipient[1])
              /\ nf(SpendNote(t), vk_for_validation(t, fvk).nk, t.witness[1].position)
                   = t.nullifier
    BY VerifyNullifierOk
  <2>2. QED
    BY <1>2, <1>3, <1>7, <1>9, <2>1
<1>11. verify_rk(t, fvk) = "Ok"
  BY <1>2, <1>7, <1>9, VerifyRkOk
<1>12. QED
  BY <1>4, <1>5, <1>6, <1>8, <1>10, <1>11, SixChecks

\* A bundle that arrives as it was built is good for every role.
THEOREM HonestPasses == FieldsSpec => []HonestSucceeds
<1>1. FieldsIInv => HonestSucceeds
  <2> SUFFICES ASSUME FieldsIInv, deviations = {}
               PROVE  HonestSucceeds
    BY DEF HonestSucceeds
  <2>1. parsing \in {None, Some("Ok")}
    BY DEF FieldsIInv, BuiltStays
  <2> DEFINE spend == [Bundle.spend EXCEPT !.proof_generation_key = Some(scenario.pgk)]
             output == Bundle.output
             account == AccountOf(spend)[1]
             Good ==
               /\ AccountOf(spend) # None /\ scenario.pgk = KeyOf(AccountOf(spend)[1])
                    => signer_error(AccountOf(spend)[1]) = "Ok"
               /\ spend_prover_error(spend) = "Ok" /\ output_prover_error(output) = "Ok"
               /\ SpendVerifies([cv |-> spend.cv, anchor |-> Bundle.anchor, rk |-> spend.rk,
                                 nullifier |-> spend.nullifier,
                                 zkproof |-> prove_spend(spend, Bundle.anchor)])
               /\ OutputVerifies([cv |-> output.cv, cmu |-> output.cmu,
                                  ephemeral_key |-> output.ephemeral_key,
                                  zkproof |-> prove_output(output)])
  <2>2. ASSUME pczt # None, Bundle.spend.proof_generation_key \in {None, Some(scenario.pgk)}
        PROVE  Good
    <3>1. /\ scenario \in Scenarios /\ HasFields(Bundle) /\ Unaltered(Bundle)
          /\ Bundle.anchor = RootOf(NoteTree(scenario))
      BY <2>2 DEF FieldsIInv, WellParsed, BuiltStays, Unaltered
    <3>2. PICK t : t = spend
      OBVIOUS
    <3>3. /\ BuiltSpend(scenario, Bundle.spend) /\ BuiltSpend(scenario, t)
          /\ BuiltOutput(scenario.value, output)
          /\ t.proof_generation_key = Some(scenario.pgk)
      BY <2>2, <3>1, <3>2, UnalteredIsBuilt
    <3>4. scenario.pgk = KeyOf(account) => signer_error(account) = "Ok"
      BY <3>3, BuiltIsApproved
    <3>5. /\ spend_prover_error(t) = "Ok"
          /\ SpendVerifies([cv |-> t.cv, anchor |-> Bundle.anchor, rk |-> t.rk,
                            nullifier |-> t.nullifier,
                            zkproof |-> prove_spend(t, Bundle.anchor)])
      BY <3>1, <3>3, BuiltSpendIsRight
    <3>6. /\ output_prover_error(output) = "Ok"
          /\ OutputVerifies([cv |-> output.cv, cmu |-> output.cmu,
                             ephemeral_key |-> output.ephemeral_key,
                             zkproof |-> prove_output(output)])
      BY <3>3, BuiltOutputIsRight
    <3>7. QED
      BY <3>2, <3>4, <3>5, <3>6
  <2>3. QED
    BY <2>1, <2>2 DEF HonestSucceeds
<1>2. QED
  BY <1>1, FieldsInvariant, PTL

-----------------------------------------------------------------------------
(* The depth is the number of levels modulo its width.                      *)

\* Only the remainder is a remainder.
LEMMA RemainderUnique ==
  ASSUME NEW m \in Nat \ {0}, NEW n \in Nat, NEW q \in Int, NEW r \in 0 .. m - 1,
         n = (m * q) + r
  PROVE  n % m = r
<1> DEFINE p == n \div m
           s == n % m
<1>1. s \in 0 .. m - 1 /\ n = (m * p) + s /\ p \in Int
  <2>1. /\ n \div m \in Nat /\ n % m \in 0 .. m - 1
        /\ n = m * (n \div m) + (n % m)
    BY Division
  <2>2. QED
    BY <2>1
<1> HIDE DEF p, s
<1>2. m * (q - p) = s - r
  BY <1>1, Z3T(30)
<1>3. CASE q - p >= 1
  <2>1. m * (q - p) >= m
    BY <1>3, <1>1, Z3T(30)
  <2>2. QED
    BY <2>1, <1>1, <1>2
<1>4. CASE q - p <= -1
  <2>1. m * (q - p) <= -m
    BY <1>4, <1>1, Z3T(30)
  <2>2. QED
    BY <2>1, <1>1, <1>2
<1>5. CASE q = p
  BY <1>5, <1>1, <1>2 DEF s
<1>6. QED
  BY <1>1, <1>3, <1>4, <1>5

\* A number below the divisor is its own remainder.
LEMMA RemainderOfSmall ==
  ASSUME NEW m \in Nat \ {0}, NEW r \in 0 .. m - 1
  PROVE  r % m = r
<1>1. r = (m * 0) + r
  OBVIOUS
<1>2. QED
  BY <1>1, RemainderUnique

\* Counting one further counts the remainder one further, or back to zero.
LEMMA RemainderOfSuccessor ==
  ASSUME NEW m \in Nat \ {0}, NEW n \in Nat
  PROVE  (n + 1) % m = IF n % m = m - 1 THEN 0 ELSE (n % m) + 1
<1> DEFINE p == n \div m
           s == n % m
<1>1. s \in 0 .. m - 1 /\ n = (m * p) + s /\ p \in Int
  BY Division
<1> HIDE DEF p, s
<1>2. CASE s = m - 1
  <2>1. n + 1 = (m * (p + 1)) + 0
    BY <1>1, <1>2, Z3T(30)
  <2>2. (n + 1) % m = 0
    BY <2>1, <1>1, RemainderUnique
  <2>3. QED
    BY <2>2, <1>2 DEF s
<1>3. CASE s # m - 1
  <2>1. n + 1 = (m * p) + (s + 1) /\ s + 1 \in 0 .. m - 1
    BY <1>1, <1>3
  <2>2. (n + 1) % m = s + 1
    BY <2>1, <1>1, RemainderUnique
  <2>3. QED
    BY <2>2, <1>3 DEF s
<1>4. QED
  BY <1>2, <1>3

-----------------------------------------------------------------------------
(* Derivation                                                               *)

\* Deriving the internal key commutes with taking viewing keys, for every
\* extended key and by either of the two viewing keys.
LEMMA InternalRoutesAgree ==
  ASSUME NEW xsk
  PROVE  /\ ToExtended(InternalKey(xsk)) = DeriveInternalExtended(ToExtended(xsk))
         /\ ToDiversifiable(InternalKey(xsk)) = DeriveInternal(ToDiversifiable(xsk))
BY DEF ToExtended, ToDiversifiable, InternalKey, DeriveInternalExtended, DeriveInternal,
       FullViewingKey, NullifierDerivingKey, AddToNk

\* What Zip32IInv says of one key
Sound(key) ==
  /\ WellFormed(key.xsk)
  /\ IndexMatchesLevels(key)
  /\ ToExtended(InternalKey(key.xsk)) = DeriveInternalExtended(ToExtended(key.xsk))
  /\ ToDiversifiable(InternalKey(key.xsk)) = DeriveInternal(ToDiversifiable(key.xsk))

\* Holding one more sound key keeps the part of Zip32IInv about keys.
LEMMA HoldSound ==
  ASSUME NEW path, NEW xsk, NEW levels, Hold(path, xsk, levels),
         WellFormed(xsk), IndexMatchesLevels([xsk |-> xsk, levels |-> levels]),
         \A p \in DOMAIN keys : Sound(keys[p])
  PROVE  \A p \in DOMAIN keys' : Sound(keys'[p])
<1>1. Sound([xsk |-> xsk, levels |-> levels])
  BY InternalRoutesAgree DEF Sound
<1>2. \A p \in DOMAIN keys' :
        \/ p \in DOMAIN keys /\ keys'[p] = keys[p]
        \/ keys'[p] = [xsk |-> xsk, levels |-> levels]
  BY DEF Hold
<1>3. QED
  BY <1>1, <1>2

\* A master key is at depth 0 and has no index.
LEMMA MasterSound ==
  ASSUME NEW s
  PROVE  /\ WellFormed(MasterKey(s))
         /\ IndexMatchesLevels([xsk |-> MasterKey(s), levels |-> 0])
<1>1. WellFormed(MasterKey(s))
  BY DEF WellFormed, MasterKey, ExpandSpendingKey, ExpandedError, IsAsk, Unreduced
<1>2. 0 % (MaxDepth + 1) = 0
  BY KeysAssumption, RemainderOfSmall DEF KeysAssumption
<1>3. QED
  BY <1>1, <1>2 DEF IndexMatchesLevels, MasterKey

\* A child is one level deeper than its parent, in a build that wraps the
\* depth at its greatest value.
LEMMA ChildSound ==
  ASSUME NEW key, Sound(key), NEW i \in ChildIndices,
         NEW depth \in NextDepths(key.xsk.depth), depth # Overflow
  PROVE  /\ WellFormed(ChildKey(key.xsk, i, depth))
         /\ IndexMatchesLevels([xsk |-> ChildKey(key.xsk, i, depth), levels |-> key.levels + 1])
<1> DEFINE child == ChildKey(key.xsk, i, depth)
<1>1. WellFormed(child)
  BY DEF Sound, WellFormed, ChildKey, ExpandedError, IsAsk, Unreduced
<1>2. child.depth = depth /\ child.child_index = Some(i)
  BY DEF ChildKey
<1>3. key.levels \in Nat /\ key.xsk.depth = key.levels % (MaxDepth + 1)
  BY DEF Sound, IndexMatchesLevels
<1>4. key.levels % (MaxDepth + 1) \in 0 .. MaxDepth
  <2>1. MaxDepth + 1 \in Nat \ {0} /\ (MaxDepth + 1) - 1 = MaxDepth
    BY KeysAssumption DEF KeysAssumption
  <2>2. key.levels % (MaxDepth + 1) \in 0 .. (MaxDepth + 1) - 1
    BY <1>3, <2>1, Division
  <2>3. QED
    BY <2>1, <2>2
<1>5. depth = (key.levels + 1) % (MaxDepth + 1)
  <2>1. (key.levels + 1) % (MaxDepth + 1)
          = IF key.levels % (MaxDepth + 1) = MaxDepth THEN 0 ELSE (key.levels % (MaxDepth + 1)) + 1
    <3> DEFINE m == MaxDepth + 1
    <3>1. m \in Nat \ {0} /\ m - 1 = MaxDepth
      BY KeysAssumption DEF KeysAssumption
    <3> HIDE DEF m
    <3>2. (key.levels + 1) % m = IF key.levels % m = m - 1 THEN 0 ELSE (key.levels % m) + 1
      BY <1>3, <3>1, RemainderOfSuccessor
    <3>3. QED
      BY <3>1, <3>2 DEF m
  <2>2. QED
    BY <1>3, <1>4, <2>1, KeysAssumption DEF KeysAssumption, NextDepths, Overflow
<1>6. KeyIndexOf(Some(i)) = i
  BY DEF KeyIndexOf, Some, None
<1>7. i \in Nat /\ i >= FirstHardened
  BY WalletAssumption DEF WalletAssumption
<1> HIDE DEF child
<1>8. IndexMatchesLevels([xsk |-> child, levels |-> key.levels + 1])
  BY <1>2, <1>3, <1>5, <1>6, <1>7 DEF IndexMatchesLevels
<1>9. QED
  BY <1>1, <1>8 DEF child

\* The internal key has the place of the key it is derived from.
LEMMA InternalSound ==
  ASSUME NEW key, Sound(key)
  PROVE  /\ WellFormed(InternalKey(key.xsk))
         /\ IndexMatchesLevels([xsk |-> InternalKey(key.xsk), levels |-> key.levels])
<1>1. WellFormed(InternalKey(key.xsk))
  BY DEF Sound, WellFormed, InternalKey, ExpandedError, IsAsk, Unreduced
<1>2. QED
  BY <1>1 DEF Sound, IndexMatchesLevels, InternalKey

\* What from_bytes takes, read takes as well.
LEMMA ReadTakesMore ==
  ASSUME NEW e, e.len \in Nat, DecodingError(e) = "Ok"
  PROVE  ReadError(e) = "Ok"
BY DEF DecodingError, ReadError

\* A key that can be decoded has the index that its depth asks for.
LEMMA DecodedSound ==
  ASSUME NEW b \in DOMAIN Backups, ReadError(Backups[b]) = "Ok"
  PROVE  /\ WellFormed(Decoded(Backups[b]))
         /\ IndexMatchesLevels([xsk |-> Decoded(Backups[b]), levels |-> Backups[b].depth])
<1> DEFINE e == Backups[b]
           key == [xsk |-> Decoded(e), levels |-> e.depth]
<1>1. e.depth \in 0 .. MaxDepth /\ e.index \in Nat
  BY WalletAssumption DEF WalletAssumption
<1>2. e.depth % (MaxDepth + 1) = e.depth
  BY <1>1, RemainderOfSmall, KeysAssumption DEF KeysAssumption
<1>3. KeyIndexNew(e.depth, e.index) # None /\ ExpandedError(e.expsk) = "Ok"
  BY DEF ReadError
<1>4. WellFormed(Decoded(e))
  BY <1>3 DEF WellFormed, Decoded
<1>5. IF e.depth = 0
      THEN Decoded(e).child_index = None
      ELSE e.index >= FirstHardened /\ Decoded(e).child_index = Some(e.index)
  BY <1>3 DEF Decoded, KeyIndexNew, Some, None
<1>6. KeyIndexOf(Some(e.index)) = e.index
  BY DEF KeyIndexOf, Some, None
<1>7. Decoded(e).depth = e.depth
  BY DEF Decoded
<1> HIDE DEF e
<1>8. IndexMatchesLevels(key)
  BY <1>1, <1>2, <1>5, <1>6, <1>7 DEF IndexMatchesLevels
<1>9. QED
  BY <1>4, <1>8 DEF e

-----------------------------------------------------------------------------
(* The invariant                                                            *)

\* Zip32IInv is that every key is sound and every pick is a permutation.
LEMMA IInvIsSound ==
  Zip32IInv <=> /\ \A p \in DOMAIN keys : Sound(keys[p])
           /\ \A dk \in DOMAIN cipher : cipher[dk] \in Ciphers
BY DEF Zip32IInv, Sound, Dfvk

\* What a wallet picks for a diversifier key is a permutation.
LEMMA PickedAreCiphers ==
  ASSUME NEW dks, NEW c \in Picked(dks)
  PROVE  /\ DOMAIN c = DOMAIN cipher \cup dks
         /\ \A dk \in DOMAIN c : c[dk] \in Ciphers
BY DEF Picked

LEMMA InitIInv == Zip32Init => Zip32IInv
BY DEF Zip32Init, Zip32IInv

\* Every step keeps Zip32IInv.
LEMMA NextIInv == Zip32IInv /\ [Zip32Next]_zip32Vars => Zip32IInv'
<1> SUFFICES ASSUME Zip32IInv, [Zip32Next]_zip32Vars PROVE Zip32IInv'
  OBVIOUS
<1> DEFINE KeysSound == \A p \in DOMAIN keys : Sound(keys[p])
           CiphersSound == \A dk \in DOMAIN cipher : cipher[dk] \in Ciphers
<1>1. KeysSound /\ CiphersSound
  BY IInvIsSound
<1>a. KeysSound' /\ CiphersSound' => Zip32IInv'
  BY DEF Zip32IInv, Sound, Dfvk
<1> SUFFICES KeysSound' /\ CiphersSound'
  BY <1>a
<1>3. ASSUME NEW s \in Seeds, Master(s) PROVE KeysSound' /\ CiphersSound'
  BY <1>1, <1>3, MasterSound, HoldSound DEF Master
<1>4. ASSUME NEW b \in DOMAIN Backups, FromBytes(b) \/ ReadKey(b)
      PROVE  KeysSound' /\ CiphersSound'
  <2>1. PICK error \in {DecodingError(Backups[b]), ReadError(Backups[b])} :
          HoldDecoded(b, error)
    BY <1>4 DEF FromBytes, ReadKey
  <2>2. CASE error = "Ok"
    <3>1. ReadError(Backups[b]) = "Ok"
      BY <2>1, <2>2, ReadTakesMore, WalletAssumption DEF WalletAssumption
    <3>2. QED
      BY <1>1, <2>1, <2>2, <3>1, DecodedSound, HoldSound DEF HoldDecoded
  <2>3. CASE error # "Ok"
    BY <1>1, <2>1, <2>3 DEF HoldDecoded
  <2>4. QED
    BY <2>2, <2>3
<1>5. ASSUME NEW p \in DOMAIN keys, NEW i \in ChildIndices, DeriveChild(p, i)
      PROVE  KeysSound' /\ CiphersSound'
  <2>1. PICK depth \in NextDepths(keys[p].xsk.depth) :
          IF depth = Overflow
          THEN UNCHANGED keys
          ELSE Hold(Append(p, Child(i)), ChildKey(keys[p].xsk, i, depth), keys[p].levels + 1)
    BY <1>5 DEF DeriveChild
  <2>2. CiphersSound'
    BY <1>1, <1>5 DEF DeriveChild
  <2>3. CASE depth = Overflow
    BY <1>1, <2>1, <2>2, <2>3
  <2>4. CASE depth # Overflow
    <3>1. Sound(keys[p])
      BY <1>1
    <3>2. QED
      BY <1>1, <2>1, <2>2, <2>4, <3>1, ChildSound, HoldSound
  <2>5. QED
    BY <2>3, <2>4
<1>6. ASSUME NEW p \in DOMAIN keys, DeriveInternalKey(p) PROVE KeysSound' /\ CiphersSound'
  <2>1. Sound(keys[p])
    BY <1>1
  <2>2. QED
    BY <1>1, <1>6, <2>1, InternalSound, HoldSound DEF DeriveInternalKey
<1>7. ASSUME NEW p \in DOMAIN keys, NEW j \in Index, FindAddressFrom(p, j)
      PROVE  KeysSound' /\ CiphersSound'
  BY <1>1, <1>7, PickedAreCiphers DEF FindAddressFrom, Use
<1>8. ASSUME NEW p \in DOMAIN keys, ChangeAddress(p) PROVE KeysSound' /\ CiphersSound'
  BY <1>1, <1>8, PickedAreCiphers DEF ChangeAddress, Use
<1>9. ASSUME NEW p \in DOMAIN keys, NEW scope \in {"External", "Internal"}, NEW d \in Index,
             DiversifiedAddress(p, scope, d)
      PROVE  KeysSound' /\ CiphersSound'
  BY <1>1, <1>9 DEF DiversifiedAddress
<1>10. ASSUME NEW p \in DOMAIN keys, NEW a \in issued, DecryptDiversifier(p, a.addr)
      PROVE  KeysSound' /\ CiphersSound'
  BY <1>1, <1>10, PickedAreCiphers DEF DecryptDiversifier, Use
<1>11. CASE UNCHANGED zip32Vars
  BY <1>1, <1>11 DEF zip32Vars
<1>12. QED
  BY <1>3, <1>4, <1>5, <1>6, <1>7, <1>8, <1>9, <1>10, <1>11 DEF Zip32Next

\* Every key that is derived or read is well formed, has the depth and the
\* index of its level, and has one internal key whichever way it is derived.
THEOREM KeysInvariant == Zip32Spec => []Zip32IInv
<1>1. QED
  BY InitIInv, NextIInv, PTL DEF Zip32Spec

-----------------------------------------------------------------------------
(* Encodings                                                                *)

\* A key reads back as it was written, if its depth is zero only at a root.
LEMMA SoundReadsBack ==
  ASSUME NEW key, Sound(key)
  PROVE  /\ ReadError(Encode(key.xsk)) = DecodingError(Encode(key.xsk))
         /\ DecodingError(Encode(key.xsk)) = "Ok" /\ Decoded(Encode(key.xsk)) = key.xsk
              <=> key.levels = 0 \/ key.levels % (MaxDepth + 1) # 0
<1> DEFINE xsk == key.xsk
           e == Encode(xsk)
<1>1. e.len = 169 /\ e.depth = xsk.depth /\ e.index = KeyIndexOf(xsk.child_index)
        /\ e.expsk = xsk.expsk
  BY DEF Encode
<1>2. ExpandedError(e.expsk) = "Ok"
  BY <1>1 DEF Sound, WellFormed
<1>a. ReadError(e) = DecodingError(e)
  BY <1>1, <1>2 DEF DecodingError, ReadError
<1>3. DecodingError(e) = "Ok" <=> KeyIndexNew(e.depth, e.index) # None
  BY <1>1, <1>2 DEF DecodingError
<1>4. ASSUME KeyIndexNew(e.depth, e.index) = Some(xsk.child_index)
      PROVE  Decoded(e) = xsk
  <2>1. KeyIndexNew(e.depth, e.index)[1] = xsk.child_index
    BY <1>4 DEF Some
  <2>2. Decoded(e) = [depth |-> xsk.depth, parent_fvk_tag |-> xsk.parent_fvk_tag,
                      child_index |-> xsk.child_index, chain_code |-> xsk.chain_code,
                      expsk |-> xsk.expsk, dk |-> xsk.dk]
    BY <2>1 DEF Decoded, Encode
  <2>3. QED
    BY <2>2 DEF Sound, WellFormed
<1>5. \A x : Some(x) # None
  BY DEF Some, None
<1>6. xsk.depth = key.levels % (MaxDepth + 1) /\ key.levels \in Nat
  BY DEF Sound, IndexMatchesLevels
<1>7. CASE key.levels = 0
  <2>1. xsk.depth = 0
    BY <1>6, <1>7, RemainderOfSmall, KeysAssumption DEF KeysAssumption
  <2>2. xsk.child_index = None /\ e.index = 0
    BY <1>1, <1>7 DEF Sound, IndexMatchesLevels, KeyIndexOf
  <2>3. KeyIndexNew(e.depth, e.index) = Some(xsk.child_index)
    BY <1>1, <2>1, <2>2 DEF KeyIndexNew
  <2>4. QED
    BY <1>a, <1>3, <1>4, <1>5, <1>7, <2>3
<1>8. CASE key.levels # 0
  <2>1. e.index \in Nat /\ e.index >= FirstHardened /\ xsk.child_index = Some(e.index)
    BY <1>1, <1>8 DEF Sound, IndexMatchesLevels
  <2>2. CASE xsk.depth = 0
    <3>1. KeyIndexNew(e.depth, e.index) = None
      BY <1>1, <2>1, <2>2, KeysAssumption DEF KeysAssumption, KeyIndexNew
    <3>2. QED
      BY <1>a, <1>3, <1>6, <1>8, <2>2, <3>1
  <2>3. CASE xsk.depth # 0
    <3>1. KeyIndexNew(e.depth, e.index) = Some(xsk.child_index)
      BY <1>1, <2>1, <2>3 DEF KeyIndexNew
    <3>2. QED
      BY <1>a, <1>3, <1>4, <1>5, <1>6, <2>3, <3>1
  <2>4. QED
    BY <2>2, <2>3
<1>9. QED
  BY <1>7, <1>8

\* An encoding reads back as the key it was made from, except for the keys
\* whose depth has wrapped around to zero.
THEOREM EncodingsReadBack == Zip32Spec => []ReadsBack
<1>1. Zip32IInv => ReadsBack
  BY IInvIsSound, SoundReadsBack DEF ReadsBack
<1>2. QED
  BY <1>1, KeysInvariant, PTL

-----------------------------------------------------------------------------
(* decrypt_diversifier                                                      *)

\* An address at an index has the diversifier of that index, which is valid.
LEMMA AddressAtDiversifier ==
  ASSUME NEW ivk, NEW c, NEW j, NEW addr, AddressAt(ivk, c, j) = Some(addr)
  PROVE  c[j] \in ValidDiversifiers /\ addr.diversifier = c[j]
<1>1. c[j] \in ValidDiversifiers
  BY DEF AddressAt, Diversifier, None, Some
<1>2. AddressAt(ivk, c, j) = Some([diversifier |-> c[j], pk_d |-> <<"pk_d", ivk, c[j]>>])
  BY <1>1 DEF AddressAt, Diversifier, ToPaymentAddress, TransmissionKey, FromParts, None, Some
<1>3. addr = [diversifier |-> c[j], pk_d |-> <<"pk_d", ivk, c[j]>>]
  BY <1>2 DEF Some
<1>4. QED
  BY <1>1, <1>3

\* The index of a diversifier is the one that the permutation maps to it.
LEMMA IndexOfDiversifier ==
  ASSUME NEW c \in Ciphers, NEW d \in Index
  PROVE  /\ DiversifierIndex(c, d) \in Index
         /\ \A j \in Index : c[j] = d => DiversifierIndex(c, d) = j
BY KeysAssumption DEF KeysAssumption, DiversifierIndex

\* An address of a key decrypts to its index, and only to that.
LEMMA DecryptIndexIsInverse ==
  ASSUME NEW ivk, NEW c \in Ciphers, NEW addr
  PROVE  /\ \A j \in Index :
              AddressAt(ivk, c, j) = Some(addr) => DecryptIndex(ivk, c, addr) = Some(j)
         /\ DecryptIndex(ivk, c, addr) # None =>
              AddressAt(ivk, c, DecryptIndex(ivk, c, addr)[1]) = Some(addr)
<1>1. ASSUME NEW j \in Index, AddressAt(ivk, c, j) = Some(addr)
      PROVE  DecryptIndex(ivk, c, addr) = Some(j)
  <2>1. addr.diversifier = c[j] /\ c[j] \in Index
    BY <1>1, AddressAtDiversifier, KeysAssumption DEF KeysAssumption
  <2>2. DiversifierIndex(c, addr.diversifier) = j
    BY <2>1, IndexOfDiversifier
  <2>3. QED
    BY <1>1, <2>2 DEF DecryptIndex
<1>2. ASSUME DecryptIndex(ivk, c, addr) # None
      PROVE  AddressAt(ivk, c, DecryptIndex(ivk, c, addr)[1]) = Some(addr)
  BY <1>2 DEF DecryptIndex, Some
<1>3. QED
  BY <1>1, <1>2

\* The second attempt of decrypt_diversifier never succeeds: it compares with
\* an address that the first attempt would have found.
LEMMA InternalNeverFound ==
  ASSUME NEW dfvk, NEW c_ext \in Ciphers, NEW c_int \in Ciphers, NEW addr
  PROVE  Decrypt(dfvk, c_ext, c_int, addr) =
           LET j == DecryptIndex(Ivk(dfvk.fvk), c_ext, addr)
           IN  IF j = None THEN None ELSE Some([index |-> j[1], scope |-> "External"])
<1> DEFINE ivk == Ivk(dfvk.fvk)
           j_internal == DiversifierIndex(c_int, addr.diversifier)
<1>1. SUFFICES ASSUME DecryptIndex(ivk, c_ext, addr) = None,
                      AddressAt(ivk, c_ext, j_internal) = Some(addr)
               PROVE  FALSE
  BY DEF Decrypt
<1>2. addr.diversifier \in Index
  <2> HIDE DEF j_internal, ivk
  <2>1. c_ext[j_internal] \in ValidDiversifiers /\ addr.diversifier = c_ext[j_internal]
    BY <1>1, AddressAtDiversifier
  <2>2. QED
    BY <2>1, KeysAssumption DEF KeysAssumption
<1>3. j_internal \in Index
  BY <1>2, IndexOfDiversifier
<1>4. DecryptIndex(ivk, c_ext, addr) = Some(j_internal)
  BY <1>1, <1>3, DecryptIndexIsInverse
<1>5. QED
  BY <1>1, <1>4 DEF Some, None

\* decrypt_diversifier gives the index of each external address of its key,
\* and gives an index only to an address that the key has at that index.
THEOREM DecryptInverse == Zip32Spec => []DecryptIsInverse
<1>1. Zip32Init => DecryptIsInverse
  BY DEF Zip32Init, DecryptIsInverse
<1>2. DecryptIsInverse /\ [Zip32Next]_zip32Vars => DecryptIsInverse'
  <2> SUFFICES ASSUME DecryptIsInverse, [Zip32Next]_zip32Vars PROVE DecryptIsInverse'
    OBVIOUS
  <2>1. ASSUME NEW p \in DOMAIN keys, NEW addr, DecryptDiversifier(p, addr)
        PROVE  DecryptIsInverse'
    <3> DEFINE own == Dfvk(p)
               ivk == Ivk(own.fvk)
               dk_internal == ScopeDk(own, "Internal")
    <3>1. PICK c \in Picked({own.dk, dk_internal}) :
            /\ cipher' = c
            /\ answer' = Some([path |-> p, addr |-> addr,
                               found |-> Decrypt(own, c[own.dk], c[dk_internal], addr)])
      BY <2>1 DEF DecryptDiversifier, Use
    <3> DEFINE found == Decrypt(own, c[own.dk], c[dk_internal], addr)
               j == DecryptIndex(ivk, c[own.dk], addr)
    <3>2. c[own.dk] \in Ciphers /\ c[dk_internal] \in Ciphers
      <4> HIDE DEF own, dk_internal
      <4>1. c \in [DOMAIN cipher \cup {own.dk, dk_internal} -> Ciphers]
        BY DEF Picked
      <4>2. QED
        BY <4>1
    <3>3. found = IF j = None THEN None ELSE Some([index |-> j[1], scope |-> "External"])
      BY <3>2, InternalNeverFound
    <3>4. \A k \in Index : AddressAt(ivk, c[own.dk], k) = Some(addr) => j = Some(k)
      BY <3>2, DecryptIndexIsInverse
    <3>5. j # None => AddressAt(ivk, c[own.dk], j[1]) = Some(addr)
      BY <3>2, DecryptIndexIsInverse
    <3>6. answer'[1].path = p /\ answer'[1].addr = addr /\ answer'[1].found = found
      BY <3>1 DEF Some
    <3>7. Dfvk(p)' = own
      BY <2>1 DEF DecryptDiversifier, Dfvk
    <3> HIDE DEF found, j
    <3>8. \A k \in Index : AddressAt(ivk, c[own.dk], k) = Some(addr) =>
            found = Some([index |-> k, scope |-> "External"])
      BY <3>3, <3>4 DEF Some, None
    <3>9. found # None =>
            /\ found[1].scope = "External"
            /\ AddressAt(ivk, c[own.dk], found[1].index) = Some(addr)
      BY <3>3, <3>5 DEF Some
    <3>10. ScopeIvk(own, "External") = ivk /\ ScopeDk(own, "External") = own.dk
      BY DEF ScopeIvk, ScopeDk, InScope
    <3>11. QED
      BY <3>1, <3>6, <3>7, <3>8, <3>9, <3>10 DEF DecryptIsInverse
  <2>2. ASSUME answer' = None PROVE DecryptIsInverse'
    BY <2>2 DEF DecryptIsInverse
  <2>3. ASSUME UNCHANGED zip32Vars PROVE DecryptIsInverse'
    BY <2>3 DEF zip32Vars, DecryptIsInverse, Dfvk
  <2>4. QED
    BY <2>1, <2>2, <2>3
      DEF Zip32Next, Master, FromBytes, ReadKey, HoldDecoded, DeriveChild, DeriveInternalKey,
          FindAddressFrom, ChangeAddress, DiversifiedAddress
<1>3. QED
  BY <1>1, <1>2, PTL DEF Zip32Spec

-----------------------------------------------------------------------------
(* find_diversifier                                                         *)

\* The first valid diversifier from an index on, and its index
ValidFrom(c, k) == {m \in k .. MaxIndex : c[m] \in ValidDiversifiers}
Least(S) == CHOOSE k \in S : \A m \in S : k <= m
FirstFrom(c, k) ==
  IF ValidFrom(c, k) = {} THEN None
  ELSE Some(<<Least(ValidFrom(c, k)), c[Least(ValidFrom(c, k))]>>)

\* It is the one at the index if that is valid, and else the first from the
\* next index on.
LEMMA FirstFromStep ==
  ASSUME NEW c, NEW k \in Index
  PROVE  FirstFrom(c, k) =
           IF Diversifier(c, k) # None THEN Some(<<k, c[k]>>)
           ELSE IF k = MaxIndex THEN None ELSE FirstFrom(c, k + 1)
<1>1. MaxIndex \in Nat /\ k \in 0 .. MaxIndex
  BY KeysAssumption DEF KeysAssumption, Index
<1>2. Diversifier(c, k) # None <=> c[k] \in ValidDiversifiers
  BY DEF Diversifier, Some, None
<1>3. CASE c[k] \in ValidDiversifiers
  <2>1. k \in ValidFrom(c, k) /\ \A m \in ValidFrom(c, k) : m \in Int /\ k <= m
    BY <1>1, <1>3 DEF ValidFrom
  <2>2. Least(ValidFrom(c, k)) = k
    BY <1>1, <2>1 DEF Least
  <2>3. QED
    BY <1>2, <1>3, <2>1, <2>2 DEF FirstFrom
<1>4. CASE c[k] \notin ValidDiversifiers /\ k = MaxIndex
  <2>1. ValidFrom(c, k) = {}
    BY <1>1, <1>4 DEF ValidFrom
  <2>2. QED
    BY <1>2, <1>4, <2>1 DEF FirstFrom
<1>5. CASE c[k] \notin ValidDiversifiers /\ k # MaxIndex
  <2>1. ValidFrom(c, k) = ValidFrom(c, k + 1)
    BY <1>1, <1>5 DEF ValidFrom
  <2>2. QED
    BY <1>2, <1>5, <2>1 DEF FirstFrom
<1>6. QED
  BY <1>3, <1>4, <1>5

\* Trying one index after the other finds it.
LEMMA FindsFirst ==
  ASSUME NEW c, NEW j \in Index
  PROVE  FindDiversifier(c, j) = FirstFrom(c, j)
<1> DEFINE Try(f, k) == IF Diversifier(c, k) # None THEN Some(<<k, c[k]>>)
                        ELSE IF k = MaxIndex THEN None ELSE f[k + 1]
           from == CHOOSE f : f = [k \in Index |-> Try(f, k)]
           first == [k \in Index |-> FirstFrom(c, k)]
           P == {n \in Nat : \A k \in Index : MaxIndex - k = n => from[k] = FirstFrom(c, k)}
<1>1. FindDiversifier(c, j) = from[j]
  BY DEF FindDiversifier
<1>2. MaxIndex \in Nat /\ Index = 0 .. MaxIndex
  BY KeysAssumption DEF KeysAssumption, Index
<1>3. \A k \in Index : k # MaxIndex => k + 1 \in Index /\ MaxIndex - (k + 1) = MaxIndex - k - 1
  BY <1>2
<1>4. first = [k \in Index |-> Try(first, k)]
  <2>1. \A k \in Index : FirstFrom(c, k) = Try(first, k)
    BY <1>3, FirstFromStep
  <2> HIDE DEF Try
  <2>2. QED
    BY <2>1
<1> HIDE DEF first
<1>5. from = [k \in Index |-> Try(from, k)]
  BY <1>4, Zenon
<1> HIDE DEF from
<1>6. \A k \in Index : from[k] = Try(from, k)
  <2> HIDE DEF Try
  <2>1. QED
    BY <1>5
<1>7. 0 \in P
  <2>1. \A k \in Index : MaxIndex - k = 0 => k = MaxIndex
    BY <1>2
  <2>2. QED
    BY <1>6, <2>1, FirstFromStep
<1>8. ASSUME NEW n \in Nat, n \in P
      PROVE  n + 1 \in P
  <2>1. ASSUME NEW k \in Index, MaxIndex - k = n + 1
        PROVE  from[k] = FirstFrom(c, k)
    <3>1. k # MaxIndex /\ MaxIndex - (k + 1) = n /\ k + 1 \in Index
      BY <1>2, <2>1
    <3>2. from[k + 1] = FirstFrom(c, k + 1)
      BY <1>8, <3>1
    <3>3. QED
      BY <1>6, <3>1, <3>2, FirstFromStep
  <2>2. QED
    BY <2>1
<1> HIDE DEF P
<1>9. \A n \in Nat : n \in P
  BY <1>7, <1>8, SetInduction
<1>10. MaxIndex - j \in Nat
  BY <1>2
<1>11. QED
  BY <1>1, <1>9, <1>10 DEF P

\* find_diversifier finds the least valid index from the given one on,
\* whichever permutation the diversifier key picks, and gives up only if
\* there is none up to the last index.
THEOREM FoundLeast == Zip32Spec => []FoundIsLeast
<1>1. FoundIsLeast
  BY FindsFirst DEF FoundIsLeast, FirstFrom, ValidFrom, Least
<1>2. QED
  BY <1>1, PTL

-----------------------------------------------------------------------------
(* Separation of keys                                                       *)

\* The part of a key that tells it from the others
Nsk(p) == keys[p].xsk.expsk.nsk

\* The term that a derivation adds to it
ChildTerm(xsk, i) == <<"i_nsk", Left(<<"child", xsk.chain_code, xsk.expsk, xsk.dk, i>>)>>
InternalTerm(xsk) == <<"int_nsk", <<"int", FullViewingKey(xsk.expsk), xsk.dk>>>>
Term(xsk, step) == IF step = Internal THEN InternalTerm(xsk) ELSE ChildTerm(xsk, step.arg)

Steps == {Internal} \cup {Child(i) : i \in ChildIndices}

\* The scalar of a key that a wallet may begin with, by the step it is named
RootNsk(step) ==
  IF step.op = "seed" THEN MasterKey(step.arg).expsk.nsk ELSE Backups[step.arg].expsk.nsk
Roots ==
  {FromSeed(s) : s \in Seeds}
    \cup {FromBackup(b) : b \in {x \in DOMAIN Backups : ReadError(Backups[x]) = "Ok"}}

IsRoot(p) == \E root \in Roots : p = <<root>> /\ Nsk(p) = RootNsk(root)

IsDerived(p) ==
  \E z \in DOMAIN keys, step \in Steps :
    p = Append(z, step) /\ Nsk(p) = {Term(keys[z].xsk, step)} \cup Nsk(z)

\* A term of a key comes from its root or from a derivation: that of a key
\* which is held too, at the path or further up.
Explained(x, p) ==
  \/ x[1] = "nsk"
  \/ \E z \in DOMAIN keys, step \in Steps :
       x = Term(keys[z].xsk, step) /\ Append(z, step) \in DOMAIN keys /\ Len(z) < Len(p)

\* Every key is a root or derived from a key that is held too, its terms are
\* explained, and keys with different paths differ.
Lineage ==
  /\ \A p \in DOMAIN keys : p \in Seq(Roots \cup Steps)
  /\ \A p \in DOMAIN keys : IsRoot(p) \/ IsDerived(p)
  /\ \A p \in DOMAIN keys : \A x \in Nsk(p) : Explained(x, p)
  /\ \A p, q \in DOMAIN keys : Nsk(p) = Nsk(q) => p = q

\* The scalars of roots are theirs alone, and no derivation makes them.
LEMMA RootsDiffer ==
  /\ \A root \in Roots : \A x \in RootNsk(root) : x[1] = "nsk"
  /\ \A root, other \in Roots : RootNsk(root) = RootNsk(other) => root = other
<1>1. \A s : RootNsk(FromSeed(s)) = MasterKey(s).expsk.nsk
  BY DEF RootNsk, FromSeed
<1>2. \A b : RootNsk(FromBackup(b)) = Backups[b].expsk.nsk
  BY DEF RootNsk, FromBackup
<1>3. \A s : MasterKey(s).expsk.nsk = {<<"nsk", <<"left", <<"I", s>>>>>>}
  BY DEF MasterKey, ExpandSpendingKey, Left
<1>4. ASSUME NEW s, NEW t, MasterKey(s).expsk.nsk = MasterKey(t).expsk.nsk
      PROVE  s = t
  <2>1. <<"nsk", <<"left", <<"I", s>>>>>> = <<"nsk", <<"left", <<"I", t>>>>>>
    BY <1>3, <1>4
  <2>2. QED
    BY <2>1
<1>5. \A root \in Roots :
        \/ \E s \in Seeds : root = FromSeed(s)
        \/ \E b \in DOMAIN Backups : root = FromBackup(b) /\ ReadError(Backups[b]) = "Ok"
  BY DEF Roots
<1>6. \A root \in Roots : \A x \in RootNsk(root) : x[1] = "nsk"
  BY <1>1, <1>2, <1>3, <1>5, ElsewhereAssumption DEF ElsewhereAssumption
<1>7. \A root, other \in Roots : RootNsk(root) = RootNsk(other) => root = other
  BY <1>1, <1>2, <1>4, <1>5, ElsewhereAssumption DEF ElsewhereAssumption
<1>8. QED
  BY <1>6, <1>7

\* A derivation makes a term that no other derivation makes and that is no
\* term of a root.
LEMMA TermsDiffer ==
  ASSUME NEW xsk, NEW other, NEW step \in Steps, NEW last \in Steps
  PROVE  /\ Term(xsk, step)[1] # "nsk"
         /\ Term(xsk, step) = Term(other, last) =>
              step = last /\ xsk.expsk.nsk = other.expsk.nsk
<1>1. \A s \in Steps : s = Internal \/ \E i \in ChildIndices : s = Child(i)
  BY DEF Steps
<1>2. \A i : Child(i) # Internal /\ Child(i).arg = i
  BY DEF Child, Internal
<1>3. /\ \A k : Term(k, Internal) = InternalTerm(k)
      /\ \A k, i : Term(k, Child(i)) = ChildTerm(k, i)
  BY <1>2 DEF Term
<1>4. /\ \A k : InternalTerm(k)[1] = "int_nsk"
      /\ \A k, i : ChildTerm(k, i)[1] = "i_nsk"
  BY DEF InternalTerm, ChildTerm
<1>5. ASSUME InternalTerm(xsk) = InternalTerm(other)
      PROVE  xsk.expsk.nsk = other.expsk.nsk
  <2>1. FullViewingKey(xsk.expsk) = FullViewingKey(other.expsk)
    BY <1>5 DEF InternalTerm
  <2>2. <<"H", xsk.expsk.nsk>> = <<"H", other.expsk.nsk>>
    BY <2>1 DEF FullViewingKey, NullifierDerivingKey
  <2>3. QED
    BY <2>2
<1>6. ASSUME NEW i, NEW j, ChildTerm(xsk, i) = ChildTerm(other, j)
      PROVE  i = j /\ xsk.expsk.nsk = other.expsk.nsk
  <2>1. <<"child", xsk.chain_code, xsk.expsk, xsk.dk, i>>
          = <<"child", other.chain_code, other.expsk, other.dk, j>>
    BY <1>6 DEF ChildTerm, Left
  <2>2. QED
    BY <2>1
<1>7. QED
  BY <1>1, <1>3, <1>4, <1>5, <1>6

LEMMA SameTerm ==
  ASSUME NEW p, NEW q, NEW step \in Steps, NEW last \in Steps,
         Term(keys[p].xsk, step) = Term(keys[q].xsk, last)
  PROVE  step = last /\ Nsk(p) = Nsk(q)
<1>1. PICK xsk, other : xsk = keys[p].xsk /\ other = keys[q].xsk
  OBVIOUS
<1>2. Term(xsk, step) = Term(other, last)
  BY <1>1
<1>3. step = last /\ xsk.expsk.nsk = other.expsk.nsk
  BY <1>2, TermsDiffer
<1>4. QED
  BY <1>1, <1>3 DEF Nsk

\* The keys that are held after one more
LEMMA KeysAfterHold ==
  ASSUME NEW path, NEW xsk, NEW levels, Hold(path, xsk, levels)
  PROVE  /\ path \notin DOMAIN keys /\ DOMAIN keys' = DOMAIN keys \cup {path}
         /\ \A p \in DOMAIN keys : keys'[p] = keys[p] /\ Nsk(p)' = Nsk(p)
         /\ keys'[path].xsk = xsk /\ Nsk(path)' = xsk.expsk.nsk
<1>1. /\ path \notin DOMAIN keys /\ DOMAIN keys' = DOMAIN keys \cup {path}
      /\ \A p \in DOMAIN keys : keys'[p] = keys[p]
      /\ keys'[path].xsk = xsk
  BY DEF Hold
<1>2. QED
  BY <1>1 DEF Nsk

\* What Lineage says of a key stays true when one more is held.
LEMMA OldLineage ==
  ASSUME Lineage, NEW path, NEW xsk, NEW levels, Hold(path, xsk, levels),
         NEW p \in DOMAIN keys
  PROVE  /\ p \in Seq(Roots \cup Steps)
         /\ (IsRoot(p) \/ IsDerived(p))'
         /\ \A x \in Nsk(p)' : Explained(x, p)'
<1>1. /\ DOMAIN keys' = DOMAIN keys \cup {path}
      /\ \A q \in DOMAIN keys : keys'[q] = keys[q] /\ Nsk(q)' = Nsk(q)
  BY KeysAfterHold
<1>2. IsRoot(p) => IsRoot(p)'
  BY <1>1 DEF IsRoot
<1>3. ASSUME IsDerived(p)
      PROVE  IsDerived(p)'
  <2>1. PICK z \in DOMAIN keys, step \in Steps :
          p = Append(z, step) /\ Nsk(p) = {Term(keys[z].xsk, step)} \cup Nsk(z)
    BY <1>3 DEF IsDerived
  <2>2. Nsk(p)' = {Term(keys'[z].xsk, step)} \cup Nsk(z)' /\ z \in DOMAIN keys'
    BY <1>1, <2>1
  <2>3. QED
    BY <2>1, <2>2 DEF IsDerived
<1>4. ASSUME NEW x \in Nsk(p)'
      PROVE  Explained(x, p)'
  <2>1. Explained(x, p)
    BY <1>1 DEF Lineage
  <2>2. CASE x[1] = "nsk"
    BY <2>2 DEF Explained
  <2>3. CASE x[1] # "nsk"
    <3>1. PICK z \in DOMAIN keys, step \in Steps :
            x = Term(keys[z].xsk, step) /\ Append(z, step) \in DOMAIN keys /\ Len(z) < Len(p)
      BY <2>1, <2>3 DEF Explained
    <3>2. /\ z \in DOMAIN keys' /\ x = Term(keys'[z].xsk, step)
          /\ Append(z, step) \in DOMAIN keys'
      BY <1>1, <3>1
    <3>3. QED
      BY <3>1, <3>2 DEF Explained
  <2>4. QED
    BY <2>2, <2>3
<1>5. QED
  BY <1>2, <1>3, <1>4 DEF Lineage

\* One more key, of which Lineage is true and that has a scalar of its own
LEMMA HoldLineage ==
  ASSUME Lineage, NEW path, NEW xsk, NEW levels, Hold(path, xsk, levels),
         path \in Seq(Roots \cup Steps),
         (IsRoot(path) \/ IsDerived(path))',
         \A x \in xsk.expsk.nsk : Explained(x, path)',
         \A p \in DOMAIN keys : Nsk(p) # xsk.expsk.nsk
  PROVE  Lineage'
<1>1. /\ DOMAIN keys' = DOMAIN keys \cup {path}
      /\ \A p \in DOMAIN keys : Nsk(p)' = Nsk(p)
      /\ Nsk(path)' = xsk.expsk.nsk
  BY KeysAfterHold
<1>2. \A p \in DOMAIN keys : /\ p \in Seq(Roots \cup Steps)
                             /\ (IsRoot(p) \/ IsDerived(p))'
                             /\ \A x \in Nsk(p)' : Explained(x, p)'
  BY OldLineage
<1>3. \A p, q \in DOMAIN keys' : Nsk(p)' = Nsk(q)' => p = q
  BY <1>1 DEF Lineage
<1>4. \A p \in DOMAIN keys' : /\ p \in Seq(Roots \cup Steps)
                              /\ (IsRoot(p) \/ IsDerived(p))'
                              /\ \A x \in Nsk(p)' : Explained(x, p)'
  BY <1>1, <1>2
<1>5. QED
  BY <1>3, <1>4 DEF Lineage

\* A master key or a key that is read is told from every key that is held.
LEMMA RootLineage ==
  ASSUME Lineage, NEW root \in Roots, NEW xsk, NEW levels,
         Hold(<<root>>, xsk, levels), xsk.expsk.nsk = RootNsk(root)
  PROVE  Lineage'
<1>1. <<root>> \notin DOMAIN keys /\ Nsk(<<root>>)' = RootNsk(root)
  BY KeysAfterHold
<1>2. \A x \in RootNsk(root) : x[1] = "nsk"
  BY RootsDiffer
<1>3. ASSUME NEW p \in DOMAIN keys, Nsk(p) = RootNsk(root)
      PROVE  FALSE
  <2>1. CASE IsRoot(p)
    BY <1>1, <1>3, <2>1, RootsDiffer DEF IsRoot
  <2>2. CASE IsDerived(p)
    <3>1. PICK z \in DOMAIN keys, step \in Steps : Term(keys[z].xsk, step) \in Nsk(p)
      BY <2>2 DEF IsDerived
    <3>2. QED
      BY <1>2, <1>3, <3>1, TermsDiffer
  <2>3. QED
    BY <2>1, <2>2 DEF Lineage
<1>4. IsRoot(<<root>>)'
  BY <1>1 DEF IsRoot
<1>5. \A x \in RootNsk(root) : Explained(x, <<root>>)'
  BY <1>2 DEF Explained
<1>6. <<root>> \in Seq(Roots \cup Steps)
  OBVIOUS
<1>7. QED
  BY <1>3, <1>4, <1>5, <1>6, HoldLineage

\* A key that is derived is told from every key that is held: the term that
\* its derivation adds is made by no other.
LEMMA DerivedLineage ==
  ASSUME Lineage, NEW z \in DOMAIN keys, NEW step \in Steps, NEW xsk, NEW levels,
         Hold(Append(z, step), xsk, levels),
         xsk.expsk.nsk = {Term(keys[z].xsk, step)} \cup Nsk(z)
  PROVE  Lineage'
<1> DEFINE path == Append(z, step)
<1>1. PICK x0 : x0 = Term(keys[z].xsk, step)
  OBVIOUS
<1>2. /\ path \notin DOMAIN keys /\ DOMAIN keys' = DOMAIN keys \cup {path}
      /\ keys'[z] = keys[z] /\ Nsk(z)' = Nsk(z)
      /\ Nsk(path)' = xsk.expsk.nsk
  BY KeysAfterHold
<1>3. z \in Seq(Roots \cup Steps)
  BY DEF Lineage
<1>4. path \in Seq(Roots \cup Steps) /\ Len(z) \in Nat /\ Len(path) = Len(z) + 1
  BY <1>3
<1>5. IsDerived(path)'
  <2>1. Nsk(path)' = {Term(keys'[z].xsk, step)} \cup Nsk(z)'
    BY <1>2
  <2>2. z \in DOMAIN keys'
    BY <1>2
  <2>3. QED
    BY <2>1, <2>2 DEF IsDerived
<1>6. ASSUME NEW x \in Nsk(z)
      PROVE  Explained(x, path)'
  <2>1. /\ Explained(x, z)'
        /\ \A y \in DOMAIN keys' :
             Len(y) \in Int => (Len(y) < Len(z) => Len(y) < Len(path))
    BY <1>2, <1>4, OldLineage
  <2>2. \A y \in DOMAIN keys' : y \in Seq(Roots \cup Steps) /\ Len(y) \in Int
    BY <1>2, <1>4 DEF Lineage
  <2>3. QED
    BY <2>1, <2>2 DEF Explained
<1>7. Explained(x0, path)'
  <2>1. x0 = Term(keys'[z].xsk, step) /\ z \in DOMAIN keys' /\ path \in DOMAIN keys'
    BY <1>1, <1>2
  <2>2. Len(z) < Len(path)
    BY <1>4
  <2>3. QED
    BY <2>1, <2>2 DEF Explained
<1>8. ASSUME NEW q \in DOMAIN keys, Nsk(q) = xsk.expsk.nsk
      PROVE  FALSE
  <2>1. x0[1] # "nsk"
    BY <1>1, TermsDiffer
  <2>2. Explained(x0, q)
    BY <1>1, <1>8 DEF Lineage
  <2>3. PICK y \in DOMAIN keys, last \in Steps :
          x0 = Term(keys[y].xsk, last) /\ Append(y, last) \in DOMAIN keys
    BY <2>1, <2>2 DEF Explained
  <2>4. last = step /\ Nsk(y) = Nsk(z)
    <3>1. Term(keys[y].xsk, last) = Term(keys[z].xsk, step)
      BY <1>1, <2>3
    <3>2. QED
      BY <3>1, SameTerm
  <2>5. y = z
    BY <2>4 DEF Lineage
  <2>6. QED
    BY <1>2, <2>3, <2>4, <2>5
<1>9. \A x \in xsk.expsk.nsk : Explained(x, path)'
  <2>1. \A x \in xsk.expsk.nsk : x = x0 \/ x \in Nsk(z)
    BY <1>1
  <2>2. QED
    BY <1>6, <1>7, <2>1, Zenon
<1> HIDE DEF path
<1>10. QED
  BY <1>4, <1>5, <1>8, <1>9, HoldLineage DEF path

LEMMA InitLineage == Zip32Init => Lineage
BY DEF Zip32Init, Lineage

\* A step that leaves the keys alone
LEMMA KeysUntouched ==
  ASSUME Lineage, UNCHANGED keys
  PROVE  Lineage'
BY DEF Lineage, IsRoot, IsDerived, Explained, Nsk

\* Every step keeps Lineage.
LEMMA NextLineage == Lineage /\ [Zip32Next]_zip32Vars => Lineage'
<1> SUFFICES ASSUME Lineage, [Zip32Next]_zip32Vars PROVE Lineage'
  OBVIOUS
<1>1. ASSUME NEW s \in Seeds, Master(s) PROVE Lineage'
  <2>1. FromSeed(s) \in Roots /\ RootNsk(FromSeed(s)) = MasterKey(s).expsk.nsk
    BY DEF Roots, RootNsk, FromSeed
  <2>2. Hold(<<FromSeed(s)>>, MasterKey(s), 0)
    BY <1>1 DEF Master
  <2>3. QED
    BY <2>1, <2>2, RootLineage
<1>2. ASSUME NEW b \in DOMAIN Backups, FromBytes(b) \/ ReadKey(b) PROVE Lineage'
  <2>a. PICK error \in {DecodingError(Backups[b]), ReadError(Backups[b])} :
          HoldDecoded(b, error)
    BY <1>2 DEF FromBytes, ReadKey
  <2>1. CASE error = "Ok"
    <3>a. ReadError(Backups[b]) = "Ok"
      BY <2>a, <2>1, ReadTakesMore, WalletAssumption DEF WalletAssumption
    <3>1. FromBackup(b) \in Roots /\ RootNsk(FromBackup(b)) = Backups[b].expsk.nsk
      BY <3>a DEF Roots, RootNsk, FromBackup
    <3>2. Decoded(Backups[b]).expsk.nsk = Backups[b].expsk.nsk
      BY DEF Decoded
    <3>3. Hold(<<FromBackup(b)>>, Decoded(Backups[b]), Backups[b].depth)
      BY <2>a, <2>1 DEF HoldDecoded
    <3>4. QED
      BY <3>1, <3>2, <3>3, RootLineage
  <2>2. CASE error # "Ok"
    BY <2>a, <2>2, KeysUntouched DEF HoldDecoded
  <2>3. QED
    BY <2>1, <2>2
<1>3. ASSUME NEW p \in DOMAIN keys, NEW i \in ChildIndices, DeriveChild(p, i)
      PROVE  Lineage'
  <2>1. PICK depth \in NextDepths(keys[p].xsk.depth) :
          IF depth = Overflow
          THEN UNCHANGED keys
          ELSE Hold(Append(p, Child(i)), ChildKey(keys[p].xsk, i, depth), keys[p].levels + 1)
    BY <1>3 DEF DeriveChild
  <2>2. Child(i) \in Steps /\ Child(i) # Internal /\ Child(i).arg = i
    BY DEF Steps, Child, Internal
  <2>3. ChildKey(keys[p].xsk, i, depth).expsk.nsk = {Term(keys[p].xsk, Child(i))} \cup Nsk(p)
    BY <2>2 DEF ChildKey, Term, ChildTerm, Nsk
  <2>4. QED
    BY <2>1, <2>2, <2>3, DerivedLineage, KeysUntouched
<1>4. ASSUME NEW p \in DOMAIN keys, DeriveInternalKey(p) PROVE Lineage'
  <2>1. Internal \in Steps
    BY DEF Steps
  <2>2. InternalKey(keys[p].xsk).expsk.nsk = {Term(keys[p].xsk, Internal)} \cup Nsk(p)
    BY DEF InternalKey, Term, InternalTerm, Nsk
  <2>3. Hold(Append(p, Internal), InternalKey(keys[p].xsk), keys[p].levels)
    BY <1>4 DEF DeriveInternalKey
  <2>4. QED
    BY <2>1, <2>2, <2>3, DerivedLineage
<1>5. ASSUME UNCHANGED keys PROVE Lineage'
  BY <1>5, KeysUntouched
<1>6. QED
  BY <1>1, <1>2, <1>3, <1>4, <1>5
  DEF Zip32Next, zip32Vars, FindAddressFrom, ChangeAddress, DiversifiedAddress, DecryptDiversifier

\* What is added to a scalar to get the internal key's, is in the scalars of
\* keys below the internal key alone.
LEMMA InternalBelow ==
  ASSUME Lineage, NEW p \in DOMAIN keys, NEW q \in DOMAIN keys,
         InternalTerm(keys[p].xsk) \in Nsk(q)
  PROVE  Len(p) < Len(q) /\ Append(p, Internal) \in DOMAIN keys
<1>1. Internal \in Steps /\ Term(keys[p].xsk, Internal) = InternalTerm(keys[p].xsk)
  BY DEF Steps, Term
<1>2. Explained(InternalTerm(keys[p].xsk), q) /\ InternalTerm(keys[p].xsk)[1] # "nsk"
  BY <1>1, TermsDiffer DEF Lineage
<1>3. PICK z \in DOMAIN keys, step \in Steps :
        /\ Term(keys[p].xsk, Internal) = Term(keys[z].xsk, step)
        /\ Append(z, step) \in DOMAIN keys /\ Len(z) < Len(q)
  BY <1>1, <1>2 DEF Explained
<1>4. step = Internal /\ Nsk(z) = Nsk(p)
  BY <1>1, <1>3, SameTerm
<1>5. z = p
  BY <1>4 DEF Lineage
<1>6. QED
  BY <1>3, <1>4, <1>5

\* The scalar of an internal key
LEMMA InternalNsk ==
  ASSUME Lineage, NEW p \in DOMAIN keys, Append(p, Internal) \in DOMAIN keys
  PROVE  Nsk(Append(p, Internal)) = {InternalTerm(keys[p].xsk)} \cup Nsk(p)
<1> DEFINE path == Append(p, Internal)
           S == Roots \cup Steps
<1>1. Internal \in S /\ Internal \notin Roots
  BY DEF Steps, Roots, Internal, FromSeed, FromBackup
<1>2. \A q \in DOMAIN keys : q \in Seq(S)
  BY DEF Lineage
<1>3. ~IsRoot(path)
  <2>1. ASSUME NEW root \in Roots, path = <<root>>
        PROVE  FALSE
    <3>1. Len(path) = 1 /\ path[1] = root
      BY <2>1
    <3>2. Len(path) = Len(p) + 1 /\ path[Len(p) + 1] = Internal /\ Len(p) \in Nat
      BY <1>1, <1>2
    <3> HIDE DEF path
    <3>3. root = Internal
      BY <3>1, <3>2
    <3>4. QED
      BY <1>1, <3>3
  <2>2. QED
    BY <2>1 DEF IsRoot
<1>4. PICK z \in DOMAIN keys, step \in Steps :
        path = Append(z, step) /\ Nsk(path) = {Term(keys[z].xsk, step)} \cup Nsk(z)
  BY <1>3 DEF Lineage, IsDerived
<1>5. z = p /\ step = Internal
  BY <1>1, <1>2, <1>4, AppendInjective
<1>6. QED
  BY <1>4, <1>5 DEF Term

\* The scalar that a viewing key's nullifier deriving key is of
Scalar(p, s) ==
  IF s = "External" THEN Nsk(p) ELSE {InternalTerm(keys[p].xsk)} \cup Nsk(p)

LEMMA IvkHasScalar ==
  ASSUME NEW p, NEW q, NEW s \in {"External", "Internal"}, NEW t \in {"External", "Internal"},
         ScopeIvk(Dfvk(p), s) = ScopeIvk(Dfvk(q), t)
  PROVE  Scalar(p, s) = Scalar(q, t)
<1>1. \A r : \A u \in {"External", "Internal"} :
        InScope(Dfvk(r), u).fvk.nk = <<"H", Scalar(r, u)>>
  <2> TAKE r
  <2>1. Dfvk(r) = [fvk |-> FullViewingKey(keys[r].xsk.expsk), dk |-> keys[r].xsk.dk]
    BY DEF Dfvk, ToDiversifiable
  <2>2. FullViewingKey(keys[r].xsk.expsk).nk = <<"H", Nsk(r)>>
    BY DEF FullViewingKey, NullifierDerivingKey, Nsk
  <2>3. InScope(Dfvk(r), "External").fvk.nk = <<"H", Scalar(r, "External")>>
    BY <2>1, <2>2 DEF InScope, Scalar
  <2>4. InScope(Dfvk(r), "Internal").fvk.nk = <<"H", Scalar(r, "Internal")>>
    <3>1. InScope(Dfvk(r), "Internal").fvk.nk
            = AddToNk(<<"H", Nsk(r)>>, {InternalTerm(keys[r].xsk)})
      BY <2>1, <2>2 DEF InScope, DeriveInternal, InternalTerm
    <3>2. AddToNk(<<"H", Nsk(r)>>, {InternalTerm(keys[r].xsk)})
            = <<"H", Nsk(r) \cup {InternalTerm(keys[r].xsk)}>>
      BY DEF AddToNk
    <3>3. Nsk(r) \cup {InternalTerm(keys[r].xsk)} = Scalar(r, "Internal")
      BY DEF Scalar
    <3>4. QED
      BY <3>1, <3>2, <3>3
  <2>5. QED
    BY <2>3, <2>4
<1>2. InScope(Dfvk(p), s).fvk.nk = InScope(Dfvk(q), t).fvk.nk
  BY DEF ScopeIvk, Ivk
<1>3. <<"H", Scalar(p, s)>> = <<"H", Scalar(q, t)>>
  BY <1>1, <1>2
<1>4. QED
  BY <1>3

\* The external scope of one key and the internal scope of another coincide
\* only if the one is the internal key of the other.
LEMMA ExternalInternal ==
  ASSUME Lineage, NEW p \in DOMAIN keys, NEW q \in DOMAIN keys,
         Nsk(p) = {InternalTerm(keys[q].xsk)} \cup Nsk(q)
  PROVE  p = Append(q, Internal)
<1>1. InternalTerm(keys[q].xsk) \in Nsk(p)
  OBVIOUS
<1>2. Append(q, Internal) \in DOMAIN keys
  BY <1>1, InternalBelow
<1>3. Nsk(Append(q, Internal)) = Nsk(p)
  BY <1>2, InternalNsk
<1>4. QED
  BY <1>2, <1>3 DEF Lineage

LEMMA InternalInternal ==
  ASSUME Lineage, NEW p \in DOMAIN keys, NEW q \in DOMAIN keys,
         {InternalTerm(keys[p].xsk)} \cup Nsk(p) = {InternalTerm(keys[q].xsk)} \cup Nsk(q)
  PROVE  p = q
<1>1. CASE InternalTerm(keys[p].xsk) = InternalTerm(keys[q].xsk)
  <2>1. Internal \in Steps
    BY DEF Steps
  <2>2. Nsk(p) = Nsk(q)
    <3>1. Term(keys[p].xsk, Internal) = Term(keys[q].xsk, Internal)
      BY <1>1 DEF Term
    <3>2. QED
      BY <2>1, <3>1, SameTerm
  <2>3. QED
    BY <2>2 DEF Lineage
<1>2. CASE InternalTerm(keys[p].xsk) # InternalTerm(keys[q].xsk)
  <2>1. InternalTerm(keys[p].xsk) \in Nsk(q) /\ InternalTerm(keys[q].xsk) \in Nsk(p)
    BY <1>2
  <2>2. Len(p) < Len(q) /\ Len(q) < Len(p)
    BY <2>1, InternalBelow
  <2>3. Len(p) \in Nat /\ Len(q) \in Nat
    BY DEF Lineage
  <2>4. QED
    BY <2>2, <2>3
<1>3. QED
  BY <1>1, <1>2

\* Keys with different paths have different viewing keys in either scope,
\* except that the internal scope of a key is the external scope of its
\* internal key.
THEOREM KeysSeparate == Zip32Spec => []ScopesSeparate
<1>1. ASSUME Lineage, NEW p \in DOMAIN keys, NEW q \in DOMAIN keys,
             NEW s \in {"External", "Internal"}, NEW t \in {"External", "Internal"},
             ScopeIvk(Dfvk(p), s) = ScopeIvk(Dfvk(q), t)
      PROVE  \/ p = q /\ s = t
             \/ s = "Internal" /\ t = "External" /\ q = Append(p, Internal)
             \/ s = "External" /\ t = "Internal" /\ p = Append(q, Internal)
  <2>1. Scalar(p, s) = Scalar(q, t)
    BY <1>1, IvkHasScalar
  <2>2. CASE s = "External" /\ t = "External"
    BY <1>1, <2>1, <2>2 DEF Scalar, Lineage
  <2>3. CASE s = "External" /\ t = "Internal"
    BY <1>1, <2>1, <2>3, ExternalInternal DEF Scalar
  <2>4. CASE s = "Internal" /\ t = "External"
    BY <1>1, <2>1, <2>4, ExternalInternal DEF Scalar
  <2>5. CASE s = "Internal" /\ t = "Internal"
    BY <1>1, <2>1, <2>5, InternalInternal DEF Scalar
  <2>6. QED
    BY <2>2, <2>3, <2>4, <2>5
<1>2. Lineage => ScopesSeparate
  BY <1>1 DEF ScopesSeparate
<1>3. QED
  BY <1>2, InitLineage, NextLineage, PTL DEF Zip32Spec

=============================================================================
