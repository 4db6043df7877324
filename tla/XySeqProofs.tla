----------------------------- MODULE XySeqProofs ------------------------------
(***************************************************************************)
(* When recursive functions exist, and what Filter and FlattenSeq return.  *)
(* Induction goes through the least counterexample: the theorems of the    *)
(* library that state induction have an operator for a parameter, and no   *)
(* prover at hand instantiates one.                                        *)
(***************************************************************************)
EXTENDS XySeq, SequencesExt, WellFoundedInduction, TLAPS

\* A set of natural numbers that is not empty has a least element.
LEMMA LeastNatural ==
  ASSUME NEW T, T \subseteq Nat, T # {}
  PROVE  \E n \in T : \A m \in T : n <= m
<1>1. \E R : IsWellFoundedOn(R, Nat) /\ \A m, n \in Nat : m < n => <<m, n>> \in R
  <2>1. \A m, n \in Nat : m < n => <<m, n>> \in OpToRel(<, Nat)
    BY DEF OpToRel
  <2> QED BY <2>1, NatLessThanWellFounded, Zenon
<1>2. PICK R : IsWellFoundedOn(R, Nat) /\ \A m, n \in Nat : m < n => <<m, n>> \in R
  BY <1>1
<1>3. PICK n \in T : \A m \in T : <<m, n>> \notin R
  <2>1. IsWellFoundedOn(R, Nat)
    BY <1>2
  <2>2. \E x \in T : \A y \in T : ~ (<<y, x>> \in R)
    BY <2>1, WFMin, Zenon
  <2> QED BY <2>2, Zenon
<1>4. \A m \in T : n \in Nat /\ m \in Nat /\ ~(m < n)
  BY <1>2, <1>3
<1> QED BY <1>4

(***************************************************************************)
(* Recursive functions on an interval                                      *)
(***************************************************************************)

\* Induction from 0 to N, with a set for the induction hypothesis.
LEMMA IntervalInduction ==
  ASSUME NEW N \in Nat, NEW T, 0 \in T, \A n \in 1 .. N : n - 1 \in T => n \in T
  PROVE  \A n \in 0 .. N : n \in T
<1> DEFINE bad == {n \in 0 .. N : n \notin T}
<1> SUFFICES ASSUME bad # {} PROVE FALSE
  OBVIOUS
<1>1. PICK n \in bad : \A m \in bad : n <= m
  <2>1. bad \subseteq Nat
    OBVIOUS
  <2> HIDE DEF bad
  <2> QED BY <2>1, LeastNatural
<1>2. n \in 1 .. N /\ n \notin T
  OBVIOUS
<1>3. n - 1 \in 0 .. N /\ ~(n <= n - 1)
  BY <1>2
<1>4. n - 1 \in T
  BY <1>1, <1>3
<1> QED BY <1>2, <1>4

\* A function whose value at i is given by that at i - 1, by st[i].
IsIterate(f, N, v0, st) == f[0] = v0 /\ \A i \in 1 .. N : f[i] = st[i][f[i - 1]]

\* There is one: what a recursive definition on an interval rests on.
LEMMA IterateExists ==
  ASSUME NEW N \in Nat, NEW V, NEW v0 \in V, NEW st \in [1 .. N -> [V -> V]]
  PROVE  \E f \in [0 .. N -> V] : IsIterate(f, N, v0, st)
<1> DEFINE T == {n \in 0 .. N : \E f \in [0 .. n -> V] : IsIterate(f, n, v0, st)}
<1>1. 0 \in T
  <2>1. [i \in 0 .. 0 |-> v0] \in [0 .. 0 -> V] /\ IsIterate([i \in 0 .. 0 |-> v0], 0, v0, st)
    BY DEF IsIterate
  <2> QED BY <2>1
<1>2. ASSUME NEW n \in 1 .. N, n - 1 \in T PROVE n \in T
  <2>1. PICK f \in [0 .. n - 1 -> V] : IsIterate(f, n - 1, v0, st)
    BY <1>2
  <2> DEFINE g == [i \in 0 .. n |-> IF i < n THEN f[i] ELSE st[n][f[n - 1]]]
  <2>2. n - 1 \in 0 .. n - 1 /\ st[n] \in [V -> V] /\ f[n - 1] \in V
    OBVIOUS
  <2>3. g \in [0 .. n -> V]
    <3>1. \A i \in 0 .. n : i < n => f[i] \in V
      OBVIOUS
    <3> QED BY <2>2, <3>1
  <2>4. IsIterate(g, n, v0, st)
    <3>1. g[0] = v0
      BY <2>1 DEF IsIterate
    <3>2. ASSUME NEW i \in 1 .. n PROVE g[i] = st[i][g[i - 1]]
      <4>1. i \in 0 .. n /\ i - 1 \in 0 .. n /\ i - 1 < n
        OBVIOUS
      <4>2. CASE i = n
        BY <4>1, <4>2
      <4>3. CASE i < n
        <5>1. i \in 1 .. n - 1
          BY <4>3
        <5> QED BY <2>1, <4>1, <4>3, <5>1 DEF IsIterate
      <4> QED BY <4>2, <4>3
    <3> QED BY <3>1, <3>2 DEF IsIterate
  <2> QED BY <2>3, <2>4
<1>3. N \in T
  <2>1. N \in 0 .. N
    OBVIOUS
  <2> HIDE DEF T
  <2> QED BY <1>1, <1>2, <2>1, IntervalInduction
<1> QED BY <1>3

\* st gives the value at x from a function, of which it reads only what is of lower rank.
IsRanked(S, V, rank, st) ==
  /\ rank \in [S -> Nat]
  /\ st \in [S -> [[S -> V] -> V]]
  /\ \A x \in S : \A f, g \in [S -> V] :
       (\A y \in S : rank[y] < rank[x] => f[y] = g[y]) => st[x][f] = st[x][g]

\* Then there is a function that st gives all values of: what recursion over a tree rests on.
LEMMA RankedExists ==
  ASSUME NEW S, NEW V, NEW v0 \in V, NEW rank, NEW st, IsRanked(S, V, rank, st),
         NEW N \in Nat, \A x \in S : rank[x] < N
  PROVE  \E f \in [S -> V] : \A x \in S : f[x] = st[x][f]
<1> DEFINE all == [f \in [S -> V] |-> [x \in S |-> st[x][f]]]
           sts == [i \in 1 .. N + 1 |-> all]
           f0 == [x \in S |-> v0]
           FF == [S -> V]
<1>1. /\ rank \in [S -> Nat]
      /\ \A x \in S, f \in FF : st[x][f] \in V
      /\ \A x \in S : \A f, g \in FF :
           (\A y \in S : rank[y] < rank[x] => f[y] = g[y]) => st[x][f] = st[x][g]
  BY DEF IsRanked
<1>2. f0 \in FF /\ all \in [FF -> FF] /\ sts \in [1 .. N + 1 -> [FF -> FF]] /\ N + 1 \in Nat
  BY <1>1
<1>3. PICK h \in [0 .. N + 1 -> FF] : IsIterate(h, N + 1, f0, sts)
  <2> HIDE DEF FF, f0, sts
  <2> QED BY <1>2, IterateExists
<1>4. \A n \in 1 .. N + 1 : h[n] \in FF /\ h[n - 1] \in FF /\ h[n] = all[h[n - 1]]
  <2>1. \A n \in 1 .. N + 1 : n \in 0 .. N + 1 /\ n - 1 \in 0 .. N + 1 /\ sts[n] = all
    OBVIOUS
  <2> HIDE DEF FF, all, sts
  <2> QED BY <1>3, <2>1 DEF IsIterate
<1>5. \A n \in 1 .. N + 1 : \A x \in S : h[n][x] = st[x][h[n - 1]]
  <2>1. \A f \in FF, x \in S : all[f][x] = st[x][f]
    OBVIOUS
  <2> HIDE DEF FF, all
  <2> QED BY <1>4, <2>1
<1> DEFINE T == {n \in 0 .. N : \A x \in S : rank[x] < n => h[n + 1][x] = h[n][x]}
<1>6. 0 \in T
  BY <1>1
<1>7. ASSUME NEW n \in 1 .. N, n - 1 \in T PROVE n \in T
  <2>1. \A y \in S : rank[y] < n - 1 => h[n][y] = h[n - 1][y]
    BY <1>7
  <2>2. ASSUME NEW x \in S, rank[x] < n PROVE h[n + 1][x] = h[n][x]
    <3>1. h[n] \in FF /\ h[n - 1] \in FF /\ h[n + 1][x] = st[x][h[n]] /\ h[n][x] = st[x][h[n - 1]]
      BY <1>4, <1>5
    <3>2. \A y \in S : rank[y] < rank[x] => h[n][y] = h[n - 1][y]
      BY <1>1, <2>1, <2>2
    <3> HIDE DEF FF
    <3>3. st[x][h[n]] = st[x][h[n - 1]]
      BY <1>1, <3>1, <3>2
    <3> QED BY <3>1, <3>3
  <2> QED BY <2>2
<1>8. \A n \in 0 .. N : n \in T
  <2> HIDE DEF T
  <2> QED BY <1>6, <1>7, IntervalInduction
<1>9. \A x \in S : h[N + 1][x] = h[N][x] /\ h[N + 1][x] = st[x][h[N]]
  BY <1>5, <1>8
<1>10. h[N] \in FF
  BY <1>4
<1> QED BY <1>9, <1>10

(***************************************************************************)
(* Filter                                                                  *)
(***************************************************************************)

\* f[i] is what is kept of the first i elements, for i up to n.
IsFilter(f, n, s, K) ==
  /\ f[0] = <<>>
  /\ \A i \in 1 .. n : f[i] = IF s[i] \in K THEN Append(f[i - 1], s[i]) ELSE f[i - 1]

\* Such a function exists for every sequence,
LEMMA FilterExists ==
  ASSUME NEW S, NEW s \in Seq(S), NEW K
  PROVE  \E f \in [0 .. Len(s) -> Seq(S)] : IsFilter(f, Len(s), s, K)
<1> DEFINE bad == {n \in 0 .. Len(s) : ~ \E f \in [0 .. n -> Seq(S)] : IsFilter(f, n, s, K)}
<1>0. Len(s) \in Nat
  OBVIOUS
<1> SUFFICES bad = {}
  BY <1>0
<1> SUFFICES ASSUME bad # {} PROVE FALSE
  OBVIOUS
<1>1. PICK n \in bad : \A m \in bad : n <= m
  <2>1. bad \subseteq Nat
    BY <1>0
  <2> HIDE DEF bad
  <2> QED BY <2>1, LeastNatural
<1>2. n # 0
  <2>1. [i \in 0 .. 0 |-> <<>>] \in [0 .. 0 -> Seq(S)] /\ IsFilter([i \in 0 .. 0 |-> <<>>], 0, s, K)
    BY DEF IsFilter
  <2> QED BY <2>1
<1>3. n \in 1 .. Len(s) /\ n - 1 \in 0 .. Len(s) /\ n - 1 \notin bad
  <2>1. n \in 0 .. Len(s)
    OBVIOUS
  <2> HIDE DEF bad
  <2> QED BY <1>0, <1>1, <1>2, <2>1
<1>4. PICK f \in [0 .. n - 1 -> Seq(S)] : IsFilter(f, n - 1, s, K)
  BY <1>3
<1> DEFINE g == [i \in 0 .. n |-> IF i < n THEN f[i]
                 ELSE IF s[n] \in K THEN Append(f[n - 1], s[n]) ELSE f[n - 1]]
<1>5. g \in [0 .. n -> Seq(S)]
  <2>1. s[n] \in S /\ f[n - 1] \in Seq(S) /\ \A i \in 0 .. n : i < n => f[i] \in Seq(S)
    BY <1>0, <1>3
  <2> QED BY <2>1
<1>6. IsFilter(g, n, s, K)
  <2>1. g[0] = <<>>
    BY <1>3, <1>4 DEF IsFilter
  <2>2. ASSUME NEW i \in 1 .. n
        PROVE  g[i] = IF s[i] \in K THEN Append(g[i - 1], s[i]) ELSE g[i - 1]
    <3>1. i \in 0 .. n /\ i - 1 \in 0 .. n /\ i - 1 < n
      BY <1>3
    <3>2. CASE i = n
      BY <3>1, <3>2
    <3>3. CASE i < n
      <4>1. i \in 1 .. n - 1
        BY <1>3, <3>3
      <4> QED BY <1>4, <3>1, <3>3, <4>1 DEF IsFilter
    <3> QED BY <1>3, <3>2, <3>3
  <2> QED BY <2>1, <2>2 DEF IsFilter
<1> QED BY <1>1, <1>5, <1>6

\* and the recursive definition is one.
LEMMA FilterIs ==
  ASSUME NEW S, NEW s \in Seq(S), NEW K
  PROVE  \E f \in [0 .. Len(s) -> Seq(S)] : IsFilter(f, Len(s), s, K) /\ Filter(s, K) = f[Len(s)]
<1> DEFINE D(F) == [i \in 0 .. Len(s) |->
                     IF i = 0 THEN <<>> ELSE IF s[i] \in K THEN Append(F[i - 1], s[i]) ELSE F[i - 1]]
           kept == CHOOSE F : F = D(F)
<1>1. PICK f \in [0 .. Len(s) -> Seq(S)] : IsFilter(f, Len(s), s, K)
  BY FilterExists
<1>2. f = D(f)
  <2>1. ASSUME NEW i \in 0 .. Len(s)
        PROVE  f[i] = IF i = 0 THEN <<>>
                      ELSE IF s[i] \in K THEN Append(f[i - 1], s[i]) ELSE f[i - 1]
    <3>1. i # 0 => i \in 1 .. Len(s)
      OBVIOUS
    <3> QED BY <1>1, <3>1 DEF IsFilter
  <2>2. f = [i \in 0 .. Len(s) |-> f[i]]
    OBVIOUS
  <2> QED BY <2>1, <2>2
<1>3. kept = D(kept)
  <2> HIDE DEF D
  <2> QED BY <1>2
<1>4. Filter(s, K) = kept[Len(s)]
  BY DEF Filter
<1>5. Len(s) \in Nat
  OBVIOUS
<1>6. \A i \in 0 .. Len(s) : kept[i] = f[i]
  <2> DEFINE bad == {i \in 0 .. Len(s) : kept[i] # f[i]}
  <2> HIDE DEF kept
  <2> SUFFICES ASSUME bad # {} PROVE FALSE
    OBVIOUS
  <2>1. PICK n \in bad : \A m \in bad : n <= m
    <3>1. bad \subseteq Nat
      BY <1>5
    <3> HIDE DEF bad
    <3> QED BY <3>1, LeastNatural
  <2>2. n # 0
    BY <1>3, <1>1 DEF IsFilter
  <2>3. n - 1 \in 0 .. Len(s) /\ n - 1 \notin bad
    BY <1>5, <2>1, <2>2
  <2>4. kept[n - 1] = f[n - 1] /\ n \in 0 .. Len(s) /\ kept[n] # f[n]
    BY <2>1, <2>3
  <2>5. f[n] = IF s[n] \in K THEN Append(f[n - 1], s[n]) ELSE f[n - 1]
    <3> HIDE DEF bad
    <3>1. f[n] = D(f)[n]
      <4> HIDE DEF D
      <4> QED BY <1>2
    <3> QED BY <2>2, <2>4, <3>1
  <2>6. kept[n] = IF s[n] \in K THEN Append(kept[n - 1], s[n]) ELSE kept[n - 1]
    <3> HIDE DEF bad
    <3>1. kept[n] = D(kept)[n]
      <4> HIDE DEF D
      <4> QED BY <1>3
    <3> QED BY <2>2, <2>4, <3>1
  <2> QED BY <2>4, <2>5, <2>6
<1> HIDE DEF kept
<1> QED BY <1>1, <1>4, <1>5, <1>6

\* Filter keeps exactly the elements that are in K, and repeats none that s has once.
LEMMA FilterFacts ==
  ASSUME NEW S, NEW s \in Seq(S), NEW K
  PROVE  /\ Filter(s, K) \in Seq(S)
         /\ Len(Filter(s, K)) <= Len(s)
         /\ \A j \in DOMAIN Filter(s, K) :
              Filter(s, K)[j] \in K /\ \E i \in DOMAIN s : s[i] = Filter(s, K)[j]
         /\ \A i \in DOMAIN s :
              s[i] \in K => \E j \in DOMAIN Filter(s, K) : Filter(s, K)[j] = s[i]
         /\ (\A i, j \in DOMAIN s : s[i] = s[j] => i = j) =>
              \A i, j \in DOMAIN Filter(s, K) : Filter(s, K)[i] = Filter(s, K)[j] => i = j
<1>1. PICK f \in [0 .. Len(s) -> Seq(S)] : IsFilter(f, Len(s), s, K) /\ Filter(s, K) = f[Len(s)]
  BY FilterIs
<1> DEFINE Sound(n) == \A j \in DOMAIN f[n] : f[n][j] \in K /\ \E i \in 1 .. n : s[i] = f[n][j]
           All(n) == \A i \in 1 .. n : s[i] \in K => \E j \in DOMAIN f[n] : f[n][j] = s[i]
           Once(n) == (\A i, j \in DOMAIN s : s[i] = s[j] => i = j) =>
                        \A i, j \in DOMAIN f[n] : f[n][i] = f[n][j] => i = j
           Good(n) == Len(f[n]) <= n /\ Sound(n) /\ All(n) /\ Once(n)
           bad == {n \in 0 .. Len(s) : ~Good(n)}
<1>2. Len(s) \in Nat /\ DOMAIN s = 1 .. Len(s)
  OBVIOUS
<1>3. ASSUME bad # {} PROVE FALSE
  <2>1. PICK n \in bad : \A m \in bad : n <= m
    <3>1. bad \subseteq Nat
      BY <1>2
    <3> HIDE DEF bad
    <3> QED BY <1>3, <3>1, LeastNatural
  <2>2. n \in 0 .. Len(s) /\ ~Good(n)
    OBVIOUS
  <2>3. n # 0
    <3>1. f[0] = <<>>
      BY <1>1 DEF IsFilter
    <3>2. Good(0)
      BY <3>1
    <3> QED BY <2>2, <3>2
  <2>4. n - 1 \in 0 .. Len(s) /\ n \in 1 .. Len(s) /\ n \in Nat
    BY <1>2, <2>2, <2>3
  <2>5. Good(n - 1)
    <3>1. n - 1 \notin bad
      <4> HIDE DEF bad
      <4> QED BY <2>1, <2>4
    <3> QED BY <2>4, <3>1
  <2>6. f[n] = IF s[n] \in K THEN Append(f[n - 1], s[n]) ELSE f[n - 1]
    BY <1>1, <2>4 DEF IsFilter
  <2>7. f[n - 1] \in Seq(S) /\ s[n] \in S /\ Len(f[n - 1]) \in Nat
    BY <2>4
  <2>8. CASE s[n] \notin K
    <3>1. f[n] = f[n - 1]
      BY <2>6, <2>8
    <3>2. Sound(n) /\ All(n) /\ Once(n) /\ Len(f[n]) <= n
      BY <2>4, <2>5, <2>7, <2>8, <3>1
    <3> QED BY <2>2, <3>2
  <2>9. CASE s[n] \in K
    <3> DEFINE l == Len(f[n - 1])
    <3>1. /\ DOMAIN f[n - 1] = 1 .. l /\ DOMAIN f[n] = 1 .. l + 1 /\ l \in Nat
          /\ f[n][l + 1] = s[n]
          /\ \A j \in 1 .. l : f[n][j] = f[n - 1][j]
          /\ Len(f[n]) = l + 1
      BY <2>6, <2>7, <2>9
    <3> HIDE DEF l
    <3>2. Sound(n)
      <4> SUFFICES ASSUME NEW j \in 1 .. l + 1
                   PROVE f[n][j] \in K /\ \E i \in 1 .. n : s[i] = f[n][j]
        BY <3>1
      <4>1. CASE j = l + 1
        BY <2>4, <2>9, <3>1, <4>1
      <4>2. CASE j # l + 1
        <5>1. j \in 1 .. l /\ f[n][j] = f[n - 1][j]
          BY <3>1, <4>2
        <5>2. f[n - 1][j] \in K /\ \E i \in 1 .. n - 1 : s[i] = f[n - 1][j]
          BY <2>5, <3>1, <5>1
        <5>3. 1 .. n - 1 \subseteq 1 .. n
          BY <2>4
        <5> QED BY <5>1, <5>2, <5>3
      <4> QED BY <4>1, <4>2
    <3>3. All(n)
      <4> SUFFICES ASSUME NEW i \in 1 .. n, s[i] \in K
                   PROVE \E j \in 1 .. l + 1 : f[n][j] = s[i]
        BY <3>1
      <4>1. CASE i = n
        BY <3>1, <4>1
      <4>2. CASE i # n
        <5>1. i \in 1 .. n - 1
          BY <2>4, <4>2
        <5>2. PICK j \in 1 .. l : f[n - 1][j] = s[i]
          BY <2>5, <3>1, <5>1
        <5> QED BY <3>1, <5>2
      <4> QED BY <4>1, <4>2
    <3>4. Once(n)
      <4> SUFFICES ASSUME \A i, j \in DOMAIN s : s[i] = s[j] => i = j,
                          NEW i \in 1 .. l + 1, NEW j \in 1 .. l + 1, f[n][i] = f[n][j]
                   PROVE i = j
        BY <3>1
      <4>1. ASSUME NEW k \in 1 .. l PROVE f[n][k] # s[n]
        <5>1. PICK m \in 1 .. n - 1 : s[m] = f[n - 1][k]
          BY <2>5, <3>1, <4>1
        <5>2. m \in DOMAIN s /\ n \in DOMAIN s /\ m # n
          BY <1>2, <2>4
        <5> QED BY <3>1, <5>1, <5>2
      <4>2. CASE i = l + 1 \/ j = l + 1
        <5>1. i \in 1 .. l \/ i = l + 1
          BY <3>1
        <5>2. j \in 1 .. l \/ j = l + 1
          BY <3>1
        <5> QED BY <3>1, <4>1, <4>2, <5>1, <5>2
      <4>3. CASE i # l + 1 /\ j # l + 1
        <5>1. i \in 1 .. l /\ j \in 1 .. l
          BY <3>1, <4>3
        <5> QED BY <2>5, <3>1, <5>1
      <4> QED BY <4>2, <4>3
    <3>5. Len(f[n]) <= n
      BY <2>4, <2>5, <3>1 DEF l
    <3> QED BY <2>2, <3>2, <3>3, <3>4, <3>5
  <2> QED BY <2>8, <2>9
<1>4. Good(Len(s))
  BY <1>2, <1>3
<1> QED BY <1>1, <1>2, <1>4
\* x stands somewhere before y.
Precedes(s, x, y) == \E i, j \in DOMAIN s : i < j /\ s[i] = x /\ s[j] = y

\* Filter does not change the order.
LEMMA FilterOrder ==
  ASSUME NEW S, NEW s \in Seq(S), NEW K, NEW x, NEW y, Precedes(Filter(s, K), x, y)
  PROVE  Precedes(s, x, y)
<1>1. PICK f \in [0 .. Len(s) -> Seq(S)] : IsFilter(f, Len(s), s, K) /\ Filter(s, K) = f[Len(s)]
  BY FilterIs
<1> DEFINE From(n) == \A j \in DOMAIN f[n] : \E i \in 1 .. n : s[i] = f[n][j]
           Order(n) == Precedes(f[n], x, y) => \E i, j \in 1 .. n : i < j /\ s[i] = x /\ s[j] = y
           bad == {n \in 0 .. Len(s) : ~(From(n) /\ Order(n))}
<1>2. Len(s) \in Nat /\ DOMAIN s = 1 .. Len(s)
  OBVIOUS
<1>3. ASSUME bad # {} PROVE FALSE
  <2>1. PICK n \in bad : \A m \in bad : n <= m
    <3>1. bad \subseteq Nat
      BY <1>2
    <3> HIDE DEF bad
    <3> QED BY <1>3, <3>1, LeastNatural
  <2>2. n \in 0 .. Len(s) /\ ~(From(n) /\ Order(n))
    OBVIOUS
  <2>3. n # 0
    <3>1. f[0] = <<>>
      BY <1>1 DEF IsFilter
    <3>2. From(0) /\ Order(0)
      BY <3>1 DEF Precedes
    <3> QED BY <2>2, <3>2
  <2>4. n - 1 \in 0 .. Len(s) /\ n \in 1 .. Len(s) /\ n \in Nat /\ 1 .. n - 1 \subseteq 1 .. n
    BY <1>2, <2>2, <2>3
  <2>5. From(n - 1) /\ Order(n - 1)
    <3>1. n - 1 \notin bad
      <4> HIDE DEF bad
      <4> QED BY <2>1, <2>4
    <3> HIDE DEF From, Order
    <3> QED BY <2>4, <3>1
  <2>6. f[n] = IF s[n] \in K THEN Append(f[n - 1], s[n]) ELSE f[n - 1]
    BY <1>1, <2>4 DEF IsFilter
  <2>7. f[n - 1] \in Seq(S) /\ s[n] \in S /\ Len(f[n - 1]) \in Nat
    BY <2>4
  <2>8. CASE s[n] \notin K
    <3>1. f[n] = f[n - 1]
      BY <2>6, <2>8
    <3>2. From(n) /\ Order(n)
      BY <2>4, <2>5, <3>1
    <3> QED BY <2>2, <3>2
  <2>9. CASE s[n] \in K
    <3> DEFINE w == Len(f[n - 1])
    <3>1. /\ DOMAIN f[n - 1] = 1 .. w /\ DOMAIN f[n] = 1 .. w + 1 /\ w \in Nat
          /\ f[n][w + 1] = s[n]
          /\ \A j \in 1 .. w : f[n][j] = f[n - 1][j]
      BY <2>6, <2>7, <2>9
    <3> HIDE DEF w
    <3>2. From(n)
      <4> SUFFICES ASSUME NEW j \in 1 .. w + 1
                   PROVE \E i \in 1 .. n : s[i] = f[n][j]
        BY <3>1
      <4>1. CASE j = w + 1
        BY <2>4, <3>1, <4>1
      <4>2. CASE j # w + 1
        <5>1. j \in 1 .. w /\ f[n][j] = f[n - 1][j]
          BY <3>1, <4>2
        <5> QED BY <2>4, <2>5, <3>1, <5>1
      <4> QED BY <4>1, <4>2
    <3>3. Order(n)
      <4> SUFFICES ASSUME NEW p \in 1 .. w + 1, NEW q \in 1 .. w + 1, p < q,
                          f[n][p] = x, f[n][q] = y
                   PROVE \E i, j \in 1 .. n : i < j /\ s[i] = x /\ s[j] = y
        BY <3>1 DEF Precedes
      <4>1. p \in 1 .. w /\ f[n - 1][p] = x
        BY <3>1
      <4>2. CASE q = w + 1
        <5>1. PICK i \in 1 .. n - 1 : s[i] = x
          BY <2>5, <3>1, <4>1
        <5>2. i \in 1 .. n /\ n \in 1 .. n /\ i < n
          BY <2>4
        <5> QED BY <3>1, <4>2, <5>1, <5>2
      <4>3. CASE q # w + 1
        <5>1. q \in 1 .. w /\ f[n - 1][q] = y
          BY <3>1, <4>3
        <5>2. Precedes(f[n - 1], x, y)
          BY <3>1, <4>1, <5>1 DEF Precedes
        <5> QED BY <2>4, <2>5, <5>2
      <4> QED BY <4>2, <4>3
    <3> QED BY <2>2, <3>2, <3>3
  <2> QED BY <2>8, <2>9
<1>4. Order(Len(s))
  BY <1>2, <1>3
<1> QED BY <1>1, <1>2, <1>4 DEF Precedes

(***************************************************************************)
(* Lists one behind the other                                              *)
(***************************************************************************)

\* F is the lists of ss one behind the other: the one at i begins behind at[i - 1].
IsFlat(at, F, N, ss) ==
  /\ at \in [0 .. N -> Nat]
  /\ \A i, j \in 0 .. N : i <= j => at[i] <= at[j]
  /\ \A i \in 1 .. N : at[i] = at[i - 1] + Len(ss[i])
  /\ Len(F) = at[N]
  /\ \A i \in 1 .. N : \A k \in 1 .. Len(ss[i]) : F[at[i - 1] + k] = ss[i][k]
  /\ \A j \in 1 .. Len(F) : \E i \in 1 .. N : \E k \in 1 .. Len(ss[i]) : j = at[i - 1] + k

\* Two sequences, one behind the other, are a sequence.
LEMMA ConcatType ==
  ASSUME NEW S, NEW a \in Seq(S), NEW b \in Seq(S)
  PROVE  a \o b \in Seq(S) /\ Len(a \o b) = Len(a) + Len(b)
OBVIOUS

\* What stands where in two sequences, one behind the other.
LEMMA ConcatFacts ==
  ASSUME NEW S, NEW a \in Seq(S), NEW b \in Seq(S), NEW c, c = a \o b
  PROVE  /\ c \in Seq(S)
         /\ Len(c) = Len(a) + Len(b)
         /\ \A j \in 1 .. Len(a) : c[j] = a[j]
         /\ \A k \in 1 .. Len(b) : c[Len(a) + k] = b[k]
         /\ a = <<>> => c = b
OBVIOUS

\* The recursive definition of FlattenSeq gives that.
LEMMA FlattenIs ==
  ASSUME NEW S, NEW N \in Nat, NEW ss \in [1 .. N -> Seq(S)]
  PROVE  FlattenSeq(ss) \in Seq(S) /\ \E at : IsFlat(at, FlattenSeq(ss), N, ss)
<1> DEFINE st == [i \in 1 .. N |-> [v \in Seq(S) |-> v \o ss[i]]]
           D(F) == [i \in 1 .. N |-> IF i = 1 THEN ss[i] ELSE F[i - 1] \o ss[i]]
           flat == CHOOSE F : F = D(F)
<1>0. /\ N \in Nat /\ Len(ss) = N
      /\ \A i \in 1 .. N : ss[i] \in Seq(S) /\ Len(ss[i]) \in Nat
  OBVIOUS
<1>1. PICK f \in [0 .. N -> Seq(S)] : IsIterate(f, N, <<>>, st)
  <2>1. st \in [1 .. N -> [Seq(S) -> Seq(S)]]
    <3>1. ASSUME NEW i \in 1 .. N PROVE [v \in Seq(S) |-> v \o ss[i]] \in [Seq(S) -> Seq(S)]
      BY <1>0
    <3> QED BY <3>1
  <2>2. <<>> \in Seq(S)
    OBVIOUS
  <2> HIDE DEF st
  <2> QED BY <1>0, <2>1, <2>2, IterateExists
<1>2. f[0] = <<>> /\ \A i \in 1 .. N : f[i] = f[i - 1] \o ss[i]
  <2>1. \A i \in 1 .. N : i - 1 \in 0 .. N /\ f[i - 1] \in Seq(S)
    BY <1>0
  <2> QED BY <1>1, <2>1 DEF IsIterate
<1> HIDE DEF st
<1>11. ASSUME NEW i \in 1 .. N
      PROVE  /\ Len(f[i]) = Len(f[i - 1]) + Len(ss[i])
             /\ \A j \in 1 .. Len(f[i - 1]) : f[i][j] = f[i - 1][j]
             /\ \A k \in 1 .. Len(ss[i]) : f[i][Len(f[i - 1]) + k] = ss[i][k]
  <2>1. i - 1 \in 0 .. N
    OBVIOUS
  <2>2. f[i - 1] \in Seq(S) /\ ss[i] \in Seq(S)
    BY <2>1
  <2>3. f[i] = f[i - 1] \o ss[i]
    BY <1>2, Zenon
  <2> QED BY <2>2, <2>3, ConcatFacts
<1>3. FlattenSeq(ss) = f[N]
  <2>1. CASE N = 0
    BY <1>0, <1>2, <2>1 DEF FlattenSeq
  <2>2. CASE N # 0
    <3>1. f[1] = ss[1]
      <4>1. 1 \in 1 .. N /\ 1 - 1 = 0
        BY <2>2
      <4>2. f[1] = f[1 - 1] \o ss[1] /\ ss[1] \in Seq(S)
        BY <1>0, <1>2, <4>1, Zenon
      <4>3. f[1 - 1] = <<>> /\ f[1 - 1] \in Seq(S)
        BY <1>2, <4>1
      <4> QED BY <4>2, <4>3, ConcatFacts
    <3> DEFINE g == [i \in 1 .. N |-> f[i]]
    <3>2. g = D(g)
      <4>1. ASSUME NEW i \in 1 .. N
            PROVE  g[i] = IF i = 1 THEN ss[i] ELSE g[i - 1] \o ss[i]
        <5>1. i # 1 => i - 1 \in 1 .. N
          BY <1>0
        <5> QED BY <1>2, <3>1, <5>1
      <4> QED BY <4>1
    <3>3. flat = D(flat)
      <4> HIDE DEF D
      <4> QED BY <3>2
    <3>4. \A i \in 0 .. N : i # 0 => flat[i] = f[i]
      <4> HIDE DEF flat
      <4> DEFINE T == {i \in 0 .. N : i # 0 => flat[i] = f[i]}
      <4>1. 0 \in T
        BY <1>0
      <4>2. ASSUME NEW i \in 1 .. N, i - 1 \in T PROVE i \in T
        <5>1. flat[i] = IF i = 1 THEN ss[i] ELSE flat[i - 1] \o ss[i]
          BY <3>3
        <5>2. i # 1 => i - 1 # 0 /\ flat[i - 1] = f[i - 1]
          BY <4>2
        <5>3. i \in 0 .. N
          OBVIOUS
        <5>4. flat[i] = f[i]
          <6>1. f[i] = f[i - 1] \o ss[i]
            BY <1>2, Zenon
          <6> QED BY <3>1, <5>1, <5>2, <6>1, Zenon
        <5> QED BY <5>3, <5>4
      <4>3. \A i \in 0 .. N : i \in T
        <5> HIDE DEF T
        <5> QED BY <1>0, <4>1, <4>2, IntervalInduction
      <4> QED BY <4>3
    <3>5. FlattenSeq(ss) = flat[N]
      BY <1>0, <2>2 DEF FlattenSeq
    <3> HIDE DEF flat
    <3> QED BY <1>0, <2>2, <3>4, <3>5
  <2> QED BY <2>1, <2>2
<1> DEFINE at == [i \in 0 .. N |-> Len(f[i])]
           Long(n) == \A i \in 0 .. n : at[i] <= at[n]
           Has(n) == \A i \in 1 .. n : \A k \in 1 .. Len(ss[i]) : f[n][at[i - 1] + k] = ss[i][k]
           All(n) == \A j \in 1 .. at[n] : \E i \in 1 .. n : \E k \in 1 .. Len(ss[i]) : j = at[i - 1] + k
           T == {n \in 0 .. N : Long(n) /\ Has(n) /\ All(n)}
<1>4. /\ at \in [0 .. N -> Nat]
      /\ \A i \in 0 .. N : at[i] \in Nat /\ at[i] = Len(f[i])
      /\ at[0] = 0
      /\ \A i \in 1 .. N : at[i] = at[i - 1] + Len(ss[i])
  <2>1. \A i \in 0 .. N : Len(f[i]) \in Nat
    OBVIOUS
  <2>2. \A i \in 1 .. N : Len(f[i]) = Len(f[i - 1]) + Len(ss[i])
    BY <1>11
  <2>3. \A i \in 1 .. N : i \in 0 .. N /\ i - 1 \in 0 .. N
    BY <1>0
  <2> QED BY <1>0, <1>2, <2>1, <2>2, <2>3
<1> HIDE DEF at
<1>5. 0 \in T
  BY <1>0, <1>4
<1>6. ASSUME NEW n \in 1 .. N, n - 1 \in T PROVE n \in T
  <2>1. /\ n \in 0 .. N /\ n - 1 \in 0 .. N /\ n \in Nat
        /\ Long(n - 1) /\ Has(n - 1) /\ All(n - 1)
        /\ f[n - 1] \in Seq(S) /\ ss[n] \in Seq(S)
    <3> HIDE DEF Long, Has, All
    <3>1. n - 1 \in 0 .. N /\ Long(n - 1) /\ Has(n - 1) /\ All(n - 1)
      BY <1>6
    <3> HIDE DEF T
    <3>2. n \in 0 .. N /\ n \in Nat
      BY <1>0
    <3>3. f[n - 1] \in Seq(S) /\ ss[n] \in Seq(S)
      BY <3>1
    <3> QED BY <3>1, <3>2, <3>3
  <2>2. /\ at[n] = at[n - 1] + Len(ss[n])
        /\ at[n - 1] \in Nat /\ at[n] \in Nat /\ Len(ss[n]) \in Nat
        /\ at[n - 1] = Len(f[n - 1])
    BY <1>0, <1>4, <2>1
  <2>3. /\ \A j \in 1 .. at[n - 1] : f[n][j] = f[n - 1][j]
        /\ \A k \in 1 .. Len(ss[n]) : f[n][at[n - 1] + k] = ss[n][k]
    BY <1>11, <2>2
  <2>4. Long(n)
    <3> SUFFICES ASSUME NEW i \in 0 .. n PROVE at[i] <= at[n]
      OBVIOUS
    <3>1. CASE i = n
      BY <2>2, <3>1
    <3>2. CASE i # n
      <4>1. i \in 0 .. n - 1 /\ i \in 0 .. N
        BY <1>0, <2>1, <3>2
      <4>2. at[i] \in Nat /\ at[i] <= at[n - 1]
        BY <1>4, <2>1, <4>1
      <4> QED BY <2>2, <4>2
    <3> QED BY <3>1, <3>2
  <2>5. Has(n)
    <3> SUFFICES ASSUME NEW i \in 1 .. n, NEW k \in 1 .. Len(ss[i])
                 PROVE  f[n][at[i - 1] + k] = ss[i][k]
      OBVIOUS
    <3>1. CASE i = n
      BY <2>3, <3>1
    <3>2. CASE i # n
      <4>1. i \in 1 .. n - 1 /\ i \in 1 .. N /\ i - 1 \in 0 .. N /\ i \in 0 .. n - 1
        BY <1>0, <2>1, <3>2
      <4>2. f[n - 1][at[i - 1] + k] = ss[i][k]
        BY <2>1, <4>1
      <4>3. at[i] <= at[n - 1] /\ at[i] = at[i - 1] + Len(ss[i]) /\ at[i - 1] \in Nat /\ Len(ss[i]) \in Nat
        BY <1>0, <1>4, <2>1, <4>1
      <4>4. at[i - 1] + k \in 1 .. at[n - 1]
        <5>1. k \in 1 .. Len(ss[i]) /\ at[n - 1] \in Nat
          BY <2>2
        <5>2. \A a, b, c, d \in Nat : a + b <= c /\ d \in 1 .. b => a + d \in 1 .. c
          OBVIOUS
        <5>3. at[i - 1] + Len(ss[i]) <= at[n - 1] /\ k \in Nat
          BY <4>3, <5>1
        <5> HIDE DEF Has, All, Long, T
        <5> QED BY <4>3, <5>1, <5>2, <5>3, Zenon
      <4> QED BY <2>3, <4>2, <4>4
    <3> QED BY <3>1, <3>2
  <2>6. All(n)
    <3> SUFFICES ASSUME NEW j \in 1 .. at[n]
                 PROVE  \E i \in 1 .. n : \E k \in 1 .. Len(ss[i]) : j = at[i - 1] + k
      OBVIOUS
    <3>1. CASE j <= at[n - 1]
      <4>1. j \in 1 .. at[n - 1]
        BY <2>2, <3>1
      <4>2. PICK i \in 1 .. n - 1 : \E k \in 1 .. Len(ss[i]) : j = at[i - 1] + k
        BY <2>1, <4>1
      <4>3. i \in 1 .. n
        BY <2>1
      <4> QED BY <4>2, <4>3
    <3>2. CASE ~(j <= at[n - 1])
      <4>1. j - at[n - 1] \in 1 .. Len(ss[n]) /\ j = at[n - 1] + (j - at[n - 1])
        BY <2>2, <3>2
      <4>2. n \in 1 .. n
        BY <2>1
      <4> QED BY <4>1, <4>2
    <3> QED BY <3>1, <3>2
  <2> HIDE DEF Long, Has, All
  <2> QED BY <2>1, <2>4, <2>5, <2>6
<1>7. \A n \in 0 .. N : n \in T
  <2> HIDE DEF T
  <2> QED BY <1>0, <1>5, <1>6, IntervalInduction
<1>8. IsFlat(at, f[N], N, ss)
  <2>1. N \in 0 .. N /\ Has(N) /\ All(N) /\ at[N] = Len(f[N])
    <3>1. N \in 0 .. N
      OBVIOUS
    <3>2. Has(N) /\ All(N)
      <4> HIDE DEF Has, All, Long
      <4> QED BY <1>7, <3>1
    <3> QED BY <1>4, <3>1, <3>2
  <2>2. ASSUME NEW i \in 0 .. N, NEW j \in 0 .. N, i <= j PROVE at[i] <= at[j]
    <3>1. Long(j) /\ i \in 0 .. j
      BY <1>7, <2>2
    <3> QED BY <3>1
  <2> QED BY <1>4, <2>1, <2>2 DEF IsFlat
<1>9. f[N] \in Seq(S)
  BY <1>0
<1> QED BY <1>3, <1>8, <1>9

\* Everything that the lists hold is in it, nothing else, and nothing that they hold once
\* is in it twice.
FlatFacts(S, N, ss, F) ==
  /\ F \in Seq(S)
  /\ \A j \in 1 .. Len(F) : \E i \in 1 .. N : \E k \in 1 .. Len(ss[i]) : F[j] = ss[i][k]
  /\ \A i \in 1 .. N : \A k \in 1 .. Len(ss[i]) : \E j \in 1 .. Len(F) : F[j] = ss[i][k]
  /\ (\A h, i \in 1 .. N : \A j \in 1 .. Len(ss[h]), k \in 1 .. Len(ss[i]) :
        ss[h][j] = ss[i][k] => h = i /\ j = k) =>
       \A i, j \in 1 .. Len(F) : F[i] = F[j] => i = j

\* The recursive definition of FlattenSeq makes it so.
LEMMA FlattenFacts ==
  ASSUME NEW S, NEW N \in Nat, NEW ss \in [1 .. N -> Seq(S)], NEW F, F = FlattenSeq(ss)
  PROVE  FlatFacts(S, N, ss, F)
<1>1. F \in Seq(S)
  BY FlattenIs
<1>2. PICK at : IsFlat(at, F, N, ss)
  BY FlattenIs
<1>3. \A i \in 1 .. N : ss[i] \in Seq(S) /\ Len(ss[i]) \in Nat
  OBVIOUS
<1>4. ASSUME NEW i \in 1 .. N, NEW k \in 1 .. Len(ss[i])
      PROVE  at[i - 1] + k \in 1 .. Len(F) /\ F[at[i - 1] + k] = ss[i][k]
  <2>1. i - 1 \in 0 .. N /\ i \in 0 .. N /\ N \in 0 .. N /\ i <= N
    BY <1>3
  <2>2. /\ at[i - 1] \in Nat /\ at[i] = at[i - 1] + Len(ss[i]) /\ at[i] <= at[N]
        /\ Len(F) = at[N] /\ F[at[i - 1] + k] = ss[i][k] /\ at[N] \in Nat
    BY <1>2, <2>1 DEF IsFlat
  <2>3. k \in Nat /\ k >= 1 /\ k <= Len(ss[i]) /\ Len(ss[i]) \in Nat
    BY <1>3
  <2>4. ASSUME NEW a \in Nat, NEW b \in Nat, NEW l \in Nat, NEW x \in Nat,
               a + l <= b, x >= 1, x <= l
        PROVE  a + x \in 1 .. b
    BY <2>4
  <2>5. at[i - 1] + k \in 1 .. Len(F)
    BY <2>2, <2>3, <2>4
  <2> QED BY <2>2, <2>5
<1>5. ASSUME NEW j \in 1 .. Len(F)
      PROVE  \E i \in 1 .. N : \E k \in 1 .. Len(ss[i]) : j = at[i - 1] + k /\ F[j] = ss[i][k]
  <2>1. PICK i \in 1 .. N : \E k \in 1 .. Len(ss[i]) : j = at[i - 1] + k
    BY <1>2 DEF IsFlat
  <2> QED BY <1>4, <2>1
<1>6. ASSUME \A h, i \in 1 .. N : \A j \in 1 .. Len(ss[h]), k \in 1 .. Len(ss[i]) :
               ss[h][j] = ss[i][k] => h = i /\ j = k,
             NEW p \in 1 .. Len(F), NEW q \in 1 .. Len(F), F[p] = F[q]
      PROVE  p = q
  <2>1. PICK h \in 1 .. N : \E j \in 1 .. Len(ss[h]) : p = at[h - 1] + j /\ F[p] = ss[h][j]
    BY <1>5
  <2>2. PICK i \in 1 .. N : \E k \in 1 .. Len(ss[i]) : q = at[i - 1] + k /\ F[q] = ss[i][k]
    BY <1>5
  <2>3. PICK j \in 1 .. Len(ss[h]) : p = at[h - 1] + j /\ F[p] = ss[h][j]
    BY <2>1
  <2>4. PICK k \in 1 .. Len(ss[i]) : q = at[i - 1] + k /\ F[q] = ss[i][k]
    BY <2>2
  <2>5. h = i /\ j = k
    BY <1>6, <2>3, <2>4
  <2> QED BY <2>3, <2>4, <2>5
<1>7. \A j \in 1 .. Len(F) : \E i \in 1 .. N : \E k \in 1 .. Len(ss[i]) : F[j] = ss[i][k]
  BY <1>5
<1>8. \A i \in 1 .. N : \A k \in 1 .. Len(ss[i]) : \E j \in 1 .. Len(F) : F[j] = ss[i][k]
  BY <1>4
<1> QED BY <1>1, <1>6, <1>7, <1>8 DEF FlatFacts

(***************************************************************************)
(* Lists in the order of a relation                                        *)
(***************************************************************************)

Sorted(s, R) == \A i, j \in 1 .. Len(s) : i < j => <<s[i], s[j]>> \in R

\* Lists that are in order, one behind the other, are in order if everything in one is
\* before everything in a later one.
LEMMA FlattenSorted ==
  ASSUME NEW S, NEW N \in Nat, NEW ss \in [1 .. N -> Seq(S)], NEW R,
         \A i \in 1 .. N : Sorted(ss[i], R),
         \A i, j \in 1 .. N : i < j =>
           \A k \in 1 .. Len(ss[i]), m \in 1 .. Len(ss[j]) : <<ss[i][k], ss[j][m]>> \in R,
         NEW F, F = FlattenSeq(ss)
  PROVE  Sorted(F, R)
<1>1. PICK at : IsFlat(at, F, N, ss)
  BY FlattenIs
<1>2. \A i \in 1 .. N : Len(ss[i]) \in Nat
  OBVIOUS
<1> SUFFICES ASSUME NEW g \in 1 .. Len(F), NEW h \in 1 .. Len(F), g < h PROVE <<F[g], F[h]>> \in R
  BY DEF Sorted
<1>3. PICK i \in 1 .. N : \E k \in 1 .. Len(ss[i]) : g = at[i - 1] + k
  BY <1>1 DEF IsFlat
<1>4. PICK k \in 1 .. Len(ss[i]) : g = at[i - 1] + k
  BY <1>3
<1>5. PICK j \in 1 .. N : \E m \in 1 .. Len(ss[j]) : h = at[j - 1] + m
  BY <1>1 DEF IsFlat
<1>6. PICK m \in 1 .. Len(ss[j]) : h = at[j - 1] + m
  BY <1>5
<1>7. F[g] = ss[i][k] /\ F[h] = ss[j][m]
  BY <1>1, <1>4, <1>6 DEF IsFlat
<1>8. i <= j
  <2> SUFFICES ASSUME j < i PROVE FALSE
    OBVIOUS
  <2>1. j \in 0 .. N /\ i - 1 \in 0 .. N /\ j - 1 \in 0 .. N /\ j <= i - 1
    OBVIOUS
  <2>2. at[j] \in Nat /\ at[i - 1] \in Nat /\ at[j - 1] \in Nat /\ at[j] <= at[i - 1]
        /\ at[j] = at[j - 1] + Len(ss[j])
    BY <1>1, <2>1 DEF IsFlat
  <2>3. k \in Nat /\ k >= 1 /\ m \in Nat /\ m <= Len(ss[j]) /\ Len(ss[j]) \in Nat
    BY <1>2
  <2>4. ASSUME NEW a \in Nat, NEW b \in Nat, NEW c \in Nat, NEW l \in Nat, NEW x \in Nat, NEW y \in Nat,
               a <= b, a = c + l, x >= 1, y <= l
        PROVE  ~(b + x < c + y)
    BY <2>4
  <2> QED BY <1>4, <1>6, <2>2, <2>3, <2>4
<1>9. CASE i < j
  BY <1>7, <1>9
<1>10. CASE i = j
  <2>1. i - 1 \in 0 .. N
    OBVIOUS
  <2>2. at[i - 1] \in Nat
    BY <1>1, <2>1 DEF IsFlat
  <2>3. k < m
    BY <1>2, <1>4, <1>6, <1>10, <2>2
  <2> QED BY <1>7, <1>10, <2>3 DEF Sorted
<1> QED BY <1>8, <1>9, <1>10

\* Two lists that are in order and hold the same are the same.
LEMMA SortedUnique ==
  ASSUME NEW S, NEW s \in Seq(S), NEW t \in Seq(S), NEW R,
         \A x, y \in S : <<x, y>> \in R => <<y, x>> \notin R,
         Sorted(s, R), Sorted(t, R),
         \A x \in S : (\E i \in 1 .. Len(s) : s[i] = x) <=> \E i \in 1 .. Len(t) : t[i] = x
  PROVE  s = t
<1>0. /\ Len(s) \in Nat /\ Len(t) \in Nat
      /\ \A i \in 1 .. Len(s) : s[i] \in S
      /\ \A i \in 1 .. Len(t) : t[i] \in S
  OBVIOUS
<1>1. /\ \A i, j \in 1 .. Len(s) : s[i] = s[j] => i = j
      /\ \A i, j \in 1 .. Len(t) : t[i] = t[j] => i = j
  <2>1. ASSUME NEW i \in 1 .. Len(s), NEW j \in 1 .. Len(s), s[i] = s[j], i # j PROVE FALSE
    <3>1. i < j \/ j < i
      BY <2>1
    <3> QED BY <1>0, <2>1, <3>1 DEF Sorted
  <2>2. ASSUME NEW i \in 1 .. Len(t), NEW j \in 1 .. Len(t), t[i] = t[j], i # j PROVE FALSE
    <3>1. i < j \/ j < i
      BY <2>2
    <3> QED BY <1>0, <2>2, <3>1 DEF Sorted
  <2> QED BY <2>1, <2>2
<1> DEFINE Same(i) == (i <= Len(s) <=> i <= Len(t)) /\ (i <= Len(s) => s[i] = t[i])
           bad == {i \in Nat \ {0} : ~Same(i)}
<1>2. bad = {}
  <2> SUFFICES ASSUME bad # {} PROVE FALSE
    OBVIOUS
  <2>1. PICK i \in bad : \A j \in bad : i <= j
    <3>1. bad \subseteq Nat
      OBVIOUS
    <3> HIDE DEF bad
    <3> QED BY <3>1, LeastNatural
  <2>2. i \in Nat /\ i >= 1 /\ ~Same(i)
    OBVIOUS
  <2>3. \A j \in Nat : 1 <= j /\ j < i => Same(j)
    BY <2>1, <2>2
  <2> HIDE DEF bad
  <2>4. CASE i <= Len(t) /\ ~(i <= Len(s))
    <3>1. i \in 1 .. Len(t)
      BY <1>0, <2>2, <2>4
    <3>2. PICK k \in 1 .. Len(s) : s[k] = t[i]
      BY <1>0, <3>1
    <3>3. k \in Nat /\ 1 <= k /\ k < i /\ k \in 1 .. Len(t)
      BY <1>0, <2>2, <2>4
    <3>4. s[k] = t[k]
      BY <2>3, <3>3
    <3>5. k = i
      BY <1>1, <3>1, <3>2, <3>3, <3>4
    <3> QED BY <3>3, <3>5
  <2>5. CASE i <= Len(s) /\ ~(i <= Len(t))
    <3>1. i \in 1 .. Len(s)
      BY <1>0, <2>2, <2>5
    <3>2. PICK k \in 1 .. Len(t) : t[k] = s[i]
      BY <1>0, <3>1
    <3>3. k \in Nat /\ 1 <= k /\ k < i /\ k \in 1 .. Len(s)
      BY <1>0, <2>2, <2>5
    <3>4. s[k] = t[k]
      BY <2>3, <3>3
    <3>5. k = i
      BY <1>1, <3>1, <3>2, <3>3, <3>4
    <3> QED BY <3>3, <3>5
  <2>6. CASE i <= Len(s) /\ i <= Len(t)
    <3>1. i \in 1 .. Len(s) /\ i \in 1 .. Len(t) /\ s[i] # t[i] /\ s[i] \in S /\ t[i] \in S
      BY <1>0, <2>2, <2>6
    <3>2. PICK k \in 1 .. Len(t) : t[k] = s[i]
      BY <3>1
    <3>3. i < k
      <4> SUFFICES ASSUME k < i PROVE FALSE
        BY <1>0, <2>2, <3>1, <3>2
      <4>1. k \in 1 .. Len(s) /\ k \in Nat /\ 1 <= k
        BY <1>0, <2>2, <2>6
      <4>2. s[k] = t[k]
        BY <2>3, <4>1
      <4>3. k = i
        BY <1>1, <3>1, <3>2, <4>1, <4>2
      <4> QED BY <2>2, <4>3
    <3>4. PICK m \in 1 .. Len(s) : s[m] = t[i]
      BY <3>1
    <3>5. i < m
      <4> SUFFICES ASSUME m < i PROVE FALSE
        BY <1>0, <2>2, <3>1, <3>4
      <4>1. m \in 1 .. Len(t) /\ m \in Nat /\ 1 <= m
        BY <1>0, <2>2, <2>6
      <4>2. s[m] = t[m]
        BY <2>3, <4>1
      <4>3. m = i
        BY <1>1, <3>1, <3>4, <4>1, <4>2
      <4> QED BY <2>2, <4>3
    <3>6. <<t[i], s[i]>> \in R /\ <<s[i], t[i]>> \in R
      BY <3>1, <3>2, <3>3, <3>4, <3>5 DEF Sorted
    <3> QED BY <3>1, <3>6
  <2> QED BY <1>0, <2>2, <2>4, <2>5, <2>6
<1>3. \A i \in Nat : i >= 1 => Same(i)
  <2> HIDE DEF Same
  <2> SUFFICES ASSUME NEW i \in Nat, i >= 1, ~Same(i) PROVE FALSE
    OBVIOUS
  <2>1. i \in bad
    OBVIOUS
  <2> HIDE DEF bad
  <2> QED BY <1>2, <2>1
<1>4. Len(s) = Len(t)
  <2>1. CASE Len(s) < Len(t)
    <3>1. Len(s) + 1 \in Nat /\ Len(s) + 1 >= 1 /\ Len(s) + 1 <= Len(t) /\ ~(Len(s) + 1 <= Len(s))
      BY <1>0, <2>1
    <3> QED BY <1>3, <3>1
  <2>2. CASE Len(t) < Len(s)
    <3>1. Len(t) + 1 \in Nat /\ Len(t) + 1 >= 1 /\ Len(t) + 1 <= Len(s) /\ ~(Len(t) + 1 <= Len(t))
      BY <1>0, <2>2
    <3> QED BY <1>3, <3>1
  <2> QED BY <1>0, <2>1, <2>2
<1>5. \A i \in 1 .. Len(s) : s[i] = t[i]
  BY <1>0, <1>3
<1> QED BY <1>0, <1>4, <1>5
===============================================================================
