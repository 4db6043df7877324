----------------------------- MODULE XyLoopProofs -----------------------------
(***************************************************************************)
(* Proofs about the loops of xy_dispatch, for every tree of regions, every *)
(* number of modules and any depth of nested calls.                        *)
(***************************************************************************)
EXTENDS XyLoop, XySeqProofs

(***************************************************************************)
(* The capacity                                                            *)
(***************************************************************************)

\* The new capacity is neither less than the old one nor than what is needed.
LEMMA DoubledFacts ==
  ASSUME NEW c \in Nat, NEW n \in Nat
  PROVE  Doubled(c, n) \in Nat /\ Doubled(c, n) >= c /\ Doubled(c, n) >= n
<1> DEFINE twice == [v \in Nat |-> IF v = 0 THEN FirstCap ELSE 2 * v]
           st == [i \in 1 .. n |-> twice]
           D(F) == [k \in 0 .. n |->
                     IF k = 0 THEN c ELSE IF F[k - 1] = 0 THEN FirstCap ELSE 2 * F[k - 1]]
           size == CHOOSE F : F = D(F)
<1>1. st \in [1 .. n -> [Nat -> Nat]]
  BY CapAssumption
<1>2. PICK f \in [0 .. n -> Nat] : IsIterate(f, n, c, st)
  <2> HIDE DEF st
  <2> QED BY <1>1, IterateExists
<1>3. f[0] = c /\ \A k \in 1 .. n : f[k] = IF f[k - 1] = 0 THEN FirstCap ELSE 2 * f[k - 1]
  <2>1. \A k \in 1 .. n : k - 1 \in 0 .. n /\ f[k - 1] \in Nat
    OBVIOUS
  <2> QED BY <1>2, <2>1 DEF IsIterate
<1>4. f = D(f)
  <2>1. \A k \in 0 .. n : f[k] = IF k = 0 THEN c ELSE IF f[k - 1] = 0 THEN FirstCap ELSE 2 * f[k - 1]
    BY <1>3
  <2>2. f = [k \in 0 .. n |-> f[k]]
    OBVIOUS
  <2> QED BY <2>1, <2>2
<1>5. size = D(size)
  <2> HIDE DEF D
  <2> QED BY <1>4
<1>6. \A k \in 0 .. n : size[k] = f[k]
  <2> HIDE DEF size
  <2> DEFINE T == {k \in 0 .. n : size[k] = f[k]}
  <2>1. 0 \in T
    BY <1>3, <1>5
  <2>2. ASSUME NEW k \in 1 .. n, k - 1 \in T PROVE k \in T
    <3>1. k \in 0 .. n /\ k # 0 /\ size[k - 1] = f[k - 1]
      BY <2>2
    <3> QED BY <1>3, <1>5, <3>1
  <2>3. \A k \in 0 .. n : k \in T
    <3> HIDE DEF T
    <3> QED BY <2>1, <2>2, IntervalInduction
  <2> QED BY <2>3
<1>7. \A k \in 0 .. n : f[k] >= c /\ f[k] >= k
  <2> DEFINE T == {k \in 0 .. n : f[k] >= c /\ f[k] >= k}
  <2>1. 0 \in T
    BY <1>3
  <2>2. ASSUME NEW k \in 1 .. n, k - 1 \in T PROVE k \in T
    <3>1. k \in 0 .. n /\ k - 1 \in 0 .. n /\ f[k - 1] \in Nat /\ f[k - 1] >= c /\ f[k - 1] >= k - 1
      BY <2>2
    <3>2. ASSUME NEW v \in Nat, v >= c, v >= k - 1
          PROVE  (IF v = 0 THEN FirstCap ELSE 2 * v) >= c /\ (IF v = 0 THEN FirstCap ELSE 2 * v) >= k
      BY <3>2, CapAssumption
    <3>3. f[k] >= c /\ f[k] >= k
      BY <1>3, <3>1, <3>2
    <3> QED BY <3>1, <3>3
  <2>3. \A k \in 0 .. n : k \in T
    <3> HIDE DEF T
    <3> QED BY <2>1, <2>2, IntervalInduction
  <2> QED BY <2>3
<1> DEFINE ok == {k \in 0 .. n : f[k] >= n}
<1>8. PICK k \in ok : \A j \in ok : k <= j
  <2>1. n \in ok /\ ok \subseteq Nat
    BY <1>7
  <2> HIDE DEF ok
  <2> QED BY <2>1, LeastNatural
<1>9. k \in 0 .. n /\ size[k] >= n /\ \A j \in 0 .. k - 1 : size[j] < n
  <2> HIDE DEF size
  <2>1. k \in 0 .. n /\ f[k] >= n
    OBVIOUS
  <2>2. ASSUME NEW j \in 0 .. k - 1 PROVE f[j] < n
    BY <1>8, <2>1
  <2> QED BY <1>6, <2>1, <2>2
<1> DEFINE best == CHOOSE i \in 0 .. n : size[i] >= n /\ \A j \in 0 .. i - 1 : size[j] < n
<1>10. best \in 0 .. n /\ size[best] >= n
  <2> HIDE DEF size
  <2> QED BY <1>9
<1>11. Doubled(c, n) = size[best]
  BY DEF Doubled
<1> HIDE DEF size, best
<1> QED BY <1>6, <1>7, <1>10, <1>11

(***************************************************************************)
(* The inductive invariant                                                 *)
(***************************************************************************)

FrameType ==
  [region : Region, self : BOOLEAN, n : Nat, pos : Nat \ {0}, me : Nat, block : Nat,
   inside : BOOLEAN, ran : Seq(Nat), rebuilt : BOOLEAN]

\* An entry is on the list of its region, on no other one, and once.
ListsOK ==
  /\ home \in Seq(Region)
  /\ mods \in [Region -> Seq(Entry)]
  /\ \A r \in Region : \A i, j \in DOMAIN mods[r] :
       home[mods[r][i]] = r /\ (mods[r][i] = mods[r][j] => i = j)

CachesOK ==
  /\ slots \in [Region -> Seq(Entry)]
  /\ count \in [Region -> Nat]
  /\ cap \in [Region -> Nat]
  /\ block \in [Region -> Nat]
  /\ fresh \in [Region -> BOOLEAN]
  /\ \A r \in Region : Len(slots[r]) <= cap[r] /\ count[r] <= Len(slots[r])

\* A dispatch that has another one above it is in a listener.
StackOK ==
  /\ stack \in Seq(FrameType)
  /\ \A d \in 1 .. Depth : d < Depth => stack[d].inside

Scope(r, e) == Alive(e) /\ r \in Above(home[e])

\* A vector that is up to date has every live module of the subtree in one slot, and
\* nothing else.
FreshOK(r) ==
  fresh[r] =>
    /\ \A i \in 1 .. count[r] : Scope(r, slots[r][i])
    /\ \A i, j \in 1 .. count[r] : slots[r][i] = slots[r][j] => i = j
    /\ \A e \in Entry : Scope(r, e) => \E i \in 1 .. count[r] : slots[r][i] = e

\* The entry of a listener that runs may be freed, and the entry that a loop over a list is
\* at may be so too, unless the program is careful.
MeOK(f) ==
  /\ f.inside => f.me \in Entry
  /\ f.self /\ f.me # 0 => f.me \in Entry /\ home[f.me] = f.region /\ (Careful => Alive(f.me))
  /\ DOMAIN f.ran \subseteq Entry

\* What a loop over a vector has still to read is there, if the program is careful.
AheadOK(f) ==
  /\ ~f.self => f.n <= Len(slots[f.region])
  /\ Careful /\ ToRead(f) # {} =>
       f.block = block[f.region] /\ \A i \in ToRead(f) : Alive(slots[f.region][i])

\* How many of the slots a loop over a vector has run.
Done(f) == IF f.inside THEN f.pos ELSE f.pos - 1

\* Under a loop whose vector was not rebuilt the slots are those it began with: the
\* modules in them are different ones, and those up to Done have run once.
VectorRuns(f) ==
  (~f.self /\ ~f.rebuilt) =>
    /\ \A i, j \in 1 .. f.n : slots[f.region][i] = slots[f.region][j] => i = j
    /\ \A i \in 1 .. f.n :
         slots[f.region][i] \in DOMAIN f.ran
           => f.ran[slots[f.region][i]] = IF i <= Done(f) THEN 1 ELSE 0
    /\ \A e \in DOMAIN f.ran :
         Scope(f.region, e) => \E i \in 1 .. f.n : slots[f.region][i] = e

\* A loop over a list has run what stands before the entry it is at, and that one if it
\* is inside; everything, if it is at the end.  If that entry is freed it gets no further.
ListRuns(f) ==
  f.self /\ (f.me = 0 \/ Alive(f.me)) =>
    \A e \in DOMAIN f.ran :
      (Alive(e) /\ home[e] = f.region) =>
        f.ran[e] = IF f.me = 0 \/ Precedes(mods[f.region], e, f.me) \/ (e = f.me /\ f.inside)
                   THEN 1 ELSE 0

FrameOK(f) == MeOK(f) /\ AheadOK(f) /\ VectorRuns(f) /\ ListRuns(f)

Inv ==
  /\ ListsOK
  /\ CachesOK
  /\ StackOK
  /\ \A r \in Region : FreshOK(r)
  /\ \A d \in 1 .. Depth : FrameOK(stack[d])
(***************************************************************************)
(* Facts about the lists                                                   *)
(***************************************************************************)

\* Entries and lists have finite lengths; what is on a list is alive, and belongs there.
LEMMA ListFacts ==
  ASSUME ListsOK
  PROVE  /\ Len(home) \in Nat /\ Entry = 1 .. Len(home) /\ DOMAIN home = Entry /\ Entry \subseteq Nat
         /\ \A e \in Entry : home[e] \in Region
         /\ \A r \in Region : /\ mods[r] \in Seq(Entry) /\ Len(mods[r]) \in Nat
                             /\ DOMAIN mods[r] = 1 .. Len(mods[r])
         /\ \A r \in Region : \A i \in DOMAIN mods[r] :
              mods[r][i] \in Entry /\ home[mods[r][i]] = r /\ Alive(mods[r][i])
         /\ \A r \in Region : \A i, j \in DOMAIN mods[r] : mods[r][i] = mods[r][j] => i = j
         /\ \A e : Alive(e) => e \in Entry /\ home[e] \in Region
                             /\ \E i \in DOMAIN mods[home[e]] : mods[home[e]][i] = e
<1>1. Len(home) \in Nat /\ Entry = 1 .. Len(home) /\ DOMAIN home = Entry /\ Entry \subseteq Nat
  BY DEF ListsOK, Entry
<1>2. \A e \in Entry : home[e] \in Region
  BY <1>1 DEF ListsOK
<1>3. ASSUME NEW r \in Region
      PROVE  mods[r] \in Seq(Entry) /\ Len(mods[r]) \in Nat /\ DOMAIN mods[r] = 1 .. Len(mods[r])
  <2>1. mods[r] \in Seq(Entry)
    BY DEF ListsOK
  <2> QED BY <2>1
<1>4. ASSUME NEW r \in Region, NEW i \in DOMAIN mods[r]
      PROVE  mods[r][i] \in Entry /\ home[mods[r][i]] = r
  <2>1. mods[r][i] \in Entry
    BY <1>3
  <2> QED BY <2>1 DEF ListsOK
<1>5. ASSUME NEW r \in Region, NEW i \in DOMAIN mods[r] PROVE Alive(mods[r][i])
  BY <1>4 DEF Alive
<1>6. ASSUME NEW e, Alive(e)
      PROVE  e \in Entry /\ home[e] \in Region /\ \E i \in DOMAIN mods[home[e]] : mods[home[e]][i] = e
  BY <1>2, <1>6 DEF Alive
<1>7. \A r \in Region : \A i, j \in DOMAIN mods[r] : mods[r][i] = mods[r][j] => i = j
  BY DEF ListsOK
<1> QED BY <1>1, <1>2, <1>3, <1>4, <1>5, <1>6, <1>7

\* The rebuilt vector lists the live modules of the subtree, each of them once.
LEMMA SubtreeFacts ==
  ASSUME ListsOK, NEW r \in Region, NEW F, F = Subtree(r)
  PROVE  /\ F \in Seq(Entry)
         /\ \A i \in 1 .. Len(F) : Scope(r, F[i])
         /\ \A i, j \in 1 .. Len(F) : F[i] = F[j] => i = j
         /\ \A e \in Entry : Scope(r, e) => \E i \in 1 .. Len(F) : F[i] = e
<1> DEFINE w == Walk[r]
           N == Len(w)
           ss == [i \in DOMAIN w |-> mods[w[i]]]
<1>1. /\ w \in Seq(Region) /\ N \in Nat /\ DOMAIN w = 1 .. N
      /\ \A i \in 1 .. N : w[i] \in Region
      /\ \A i, j \in 1 .. N : w[i] = w[j] => i = j
  <2>1. w \in Seq(Region) /\ IsInjective(w)
    BY WalkAssumption
  <2> HIDE DEF w
  <2> QED BY <2>1 DEF IsInjective
<1> HIDE DEF w, N
<1>2. ss \in [1 .. N -> Seq(Entry)] /\ \A i \in 1 .. N : ss[i] = mods[w[i]]
  BY <1>1, ListFacts
<1>3. F = FlattenSeq(ss)
  BY DEF Subtree, w
<1> HIDE DEF ss
<1>4. \A i \in 1 .. N : Len(ss[i]) \in Nat /\ DOMAIN ss[i] = 1 .. Len(ss[i])
  BY <1>1, <1>2, ListFacts
<1>5. \A h, i \in 1 .. N : \A j \in 1 .. Len(ss[h]), k \in 1 .. Len(ss[i]) :
        ss[h][j] = ss[i][k] => h = i /\ j = k
  <2> SUFFICES ASSUME NEW h \in 1 .. N, NEW i \in 1 .. N, NEW j \in 1 .. Len(ss[h]),
                      NEW k \in 1 .. Len(ss[i]), ss[h][j] = ss[i][k]
               PROVE  h = i /\ j = k
    OBVIOUS
  <2>1. j \in DOMAIN mods[w[h]] /\ k \in DOMAIN mods[w[i]] /\ mods[w[h]][j] = mods[w[i]][k]
    BY <1>2, <1>4
  <2>2. w[h] = w[i]
    BY <1>1, <2>1, ListFacts
  <2>3. h = i
    BY <1>1, <2>2
  <2> QED BY <1>1, <2>1, <2>3 DEF ListsOK
<1>6. /\ F \in Seq(Entry)
      /\ \A j \in 1 .. Len(F) : \E i \in 1 .. N : \E k \in 1 .. Len(ss[i]) : F[j] = ss[i][k]
      /\ \A i \in 1 .. N : \A k \in 1 .. Len(ss[i]) : \E j \in 1 .. Len(F) : F[j] = ss[i][k]
      /\ \A i, j \in 1 .. Len(F) : F[i] = F[j] => i = j
  <2>1. FlatFacts(Entry, N, ss, F)
    BY <1>1, <1>2, <1>3, FlattenFacts, Zenon
  <2> QED BY <1>5, <2>1 DEF FlatFacts
<1>7. ASSUME NEW j \in 1 .. Len(F) PROVE Scope(r, F[j])
  <2>1. PICK i \in 1 .. N : \E k \in 1 .. Len(ss[i]) : F[j] = ss[i][k]
    BY <1>6
  <2>2. PICK k \in DOMAIN mods[w[i]] : F[j] = mods[w[i]][k]
    BY <1>2, <1>4, <2>1
  <2>3. Alive(F[j]) /\ home[F[j]] = w[i]
    BY <1>1, <2>2, ListFacts
  <2>4. r \in Above(w[i])
    BY <1>1 DEF Above, w
  <2> QED BY <2>3, <2>4 DEF Scope
<1>8. ASSUME NEW e \in Entry, Scope(r, e) PROVE \E j \in 1 .. Len(F) : F[j] = e
  <2>1. PICK k \in DOMAIN mods[home[e]] : mods[home[e]][k] = e
    BY <1>8, ListFacts DEF Scope
  <2>2. PICK i \in 1 .. N : w[i] = home[e]
    BY <1>1, <1>8 DEF Scope, Above, w
  <2>3. k \in 1 .. Len(ss[i]) /\ ss[i][k] = e
    BY <1>2, <1>4, <2>1, <2>2
  <2> QED BY <1>6, <2>3
<1> QED BY <1>6, <1>7, <1>8

(***************************************************************************)
(* Steps that change a list                                                *)
(***************************************************************************)

\* A list of region r0 changes: the entry gone, if it is not 0, is freed, entries may be
\* new, and the others keep their order.
ListStep(r0, gone) ==
  /\ r0 \in Region
  /\ MayCall
  /\ gone # 0 => Alive(gone) /\ Spared(gone) /\ home[gone] = r0
  /\ ListsOK'
  /\ \A e \in Entry : e \in Entry' /\ home'[e] = home[e]
  /\ \A e \in Entry : Alive(e)' <=> Alive(e) /\ e # gone
  /\ \A e \in Entry' : e \notin Entry => home'[e] = r0
  /\ \A r \in Region : \A x, y \in Entry :
       Alive(x)' /\ Alive(y)' => (Precedes(mods'[r], x, y) <=> Precedes(mods[r], x, y))
  /\ region_mark_subtree_dirty(r0)
  /\ UNCHANGED stack

\* Which entries are alive follows from which ones are on the lists.
LEMMA AliveThen ==
  ASSUME ListsOK, ListsOK', NEW e \in Entry, e \in Entry', home'[e] = home[e]
  PROVE  /\ Alive(e) <=> \E i \in DOMAIN mods[home[e]] : mods[home[e]][i] = e
         /\ Alive(e)' <=> \E i \in DOMAIN mods'[home[e]] : mods'[home[e]][i] = e
BY DEF Alive

\* A load appends a new entry to one list.
LEMMA LoadStep ==
  ASSUME Inv, NEW r \in Region, mod_load(r)
  PROVE  ListStep(r, 0)
<1> DEFINE n == Len(home) + 1
<1>0. ListsOK
  BY DEF Inv
<1>1. home' = Append(home, r) /\ mods' = [mods EXCEPT ![r] = Append(mods[r], n)]
  BY DEF mod_load
<1>2. /\ home' \in Seq(Region) /\ Len(home') = n /\ n \in Nat /\ Entry' = 1 .. n
      /\ home'[n] = r /\ \A e \in Entry : home'[e] = home[e] /\ e \in Entry'
      /\ n \notin Entry /\ Entry' = Entry \cup {n}
  <2>1. home \in Seq(Region) /\ Len(home) \in Nat /\ Entry = 1 .. Len(home)
    BY <1>0, ListFacts DEF ListsOK
  <2>2. home' \in Seq(Region) /\ Len(home') = n /\ home'[n] = r /\ \A e \in Entry : home'[e] = home[e]
    BY <1>1, <2>1
  <2> QED BY <2>1, <2>2 DEF Entry
<1>3. /\ \A q \in Region \ {r} : mods'[q] = mods[q]
      /\ mods'[r] = Append(mods[r], n) /\ DOMAIN mods' = Region
  BY <1>0, <1>1 DEF ListsOK
<1> HIDE DEF n
<1> DEFINE w == Len(mods[r])
<1>4. /\ mods'[r] \in Seq(Entry') /\ w \in Nat
      /\ DOMAIN mods[r] = 1 .. w /\ DOMAIN mods'[r] = 1 .. w + 1
      /\ mods'[r][w + 1] = n /\ \A i \in 1 .. w : mods'[r][i] = mods[r][i] /\ mods[r][i] \in Entry
  <2>1. mods[r] \in Seq(Entry) /\ mods[r] \in Seq(Entry') /\ n \in Entry' /\ w \in Nat
    <3>1. mods[r] \in Seq(Entry) /\ Entry \subseteq Entry'
      BY <1>0, <1>2, ListFacts
    <3> QED BY <1>2, <3>1
  <2> QED BY <1>3, <2>1
<1> HIDE DEF w
<1>5. mods' \in [Region -> Seq(Entry')]
  <2>1. ASSUME NEW q \in Region PROVE mods'[q] \in Seq(Entry')
    <3>1. mods[q] \in Seq(Entry) /\ Entry \subseteq Entry'
      BY <1>0, <1>2, ListFacts
    <3>2. mods[q] \in Seq(Entry')
      BY <3>1
    <3> QED BY <1>3, <1>4, <3>2
  <2>2. mods' = [q \in Region |-> mods'[q]]
    BY <1>1, <1>0 DEF ListsOK
  <2> QED BY <2>1, <2>2
<1>6. ASSUME NEW q \in Region, NEW i \in DOMAIN mods'[q], NEW j \in DOMAIN mods'[q]
      PROVE  home'[mods'[q][i]] = q /\ (mods'[q][i] = mods'[q][j] => i = j)
  <2>1. CASE q # r
    <3>1. mods'[q] = mods[q] /\ mods[q][i] \in Entry
      BY <1>0, <1>3, <2>1, ListFacts
    <3> QED BY <1>0, <1>2, <3>1, ListFacts
  <2>2. CASE q = r
    <3>1. (i \in 1 .. w \/ i = w + 1) /\ (j \in 1 .. w \/ j = w + 1)
      BY <1>4, <2>2
    <3>2. ASSUME NEW k \in 1 .. w PROVE mods'[r][k] # n /\ home'[mods'[r][k]] = r
      <4>1. mods'[r][k] = mods[r][k] /\ mods[r][k] \in Entry /\ k \in DOMAIN mods[r]
        BY <1>4
      <4>2. home[mods[r][k]] = r
        BY <1>0, <4>1, ListFacts
      <4> QED BY <1>2, <4>1, <4>2
    <3>3. ASSUME i \in 1 .. w, j \in 1 .. w PROVE mods'[r][i] = mods'[r][j] => i = j
      <4>1. mods'[r][i] = mods[r][i] /\ mods'[r][j] = mods[r][j] /\ i \in DOMAIN mods[r] /\ j \in DOMAIN mods[r]
        BY <1>4, <3>3
      <4>2. \A a, b \in DOMAIN mods[r] : mods[r][a] = mods[r][b] => a = b
        BY <1>0, ListFacts, Zenon
      <4> QED BY <4>1, <4>2, Zenon
    <3> QED BY <1>2, <1>4, <2>2, <3>1, <3>2, <3>3
  <2> QED BY <2>1, <2>2
<1>7. ListsOK'
  BY <1>2, <1>5, <1>6 DEF ListsOK
<1>8. ASSUME NEW e \in Entry PROVE Alive(e)' <=> Alive(e) /\ e # 0
  <2>1. e # 0
    BY <1>0, ListFacts
  <2>2. e \in Entry' /\ home'[e] = home[e] /\ e # n
    BY <1>2
  <2>3. (\E i \in DOMAIN mods'[home[e]] : mods'[home[e]][i] = e) <=>
        (\E i \in DOMAIN mods[home[e]] : mods[home[e]][i] = e)
    <3>1. CASE home[e] # r
      BY <1>0, <1>3, <3>1, ListFacts
    <3>2. CASE home[e] = r
      <4>1. ASSUME NEW i \in 1 .. w + 1, mods'[r][i] = e PROVE i \in 1 .. w
        BY <1>4, <2>2, <4>1
      <4>2. 1 .. w \subseteq 1 .. w + 1
        BY <1>4
      <4> QED BY <1>4, <3>2, <4>1, <4>2
    <3> QED BY <3>1, <3>2
  <2> QED BY <1>0, <1>7, <2>1, <2>2, <2>3, AliveThen
<1>9. ASSUME NEW q \in Region, NEW x \in Entry, NEW y \in Entry
      PROVE  Precedes(mods'[q], x, y) <=> Precedes(mods[q], x, y)
  <2>1. CASE q # r
    BY <1>3, <2>1
  <2>2. CASE q = r
    <3>1. \A i \in 1 .. w + 1 : mods'[r][i] = x \/ mods'[r][i] = y => i \in 1 .. w
      BY <1>2, <1>4
    <3>2. 1 .. w \subseteq 1 .. w + 1
      BY <1>4
    <3> QED BY <1>4, <2>2, <3>1, <3>2 DEF Precedes
  <2> QED BY <2>1, <2>2
<1>10. MayCall /\ region_mark_subtree_dirty(r) /\ UNCHANGED stack
  BY DEF mod_load
<1> QED BY <1>2, <1>7, <1>8, <1>9, <1>10 DEF ListStep

\* Of two entries of a list one stands before the other, and not the other way round.
LEMMA OrderFacts ==
  ASSUME NEW s, \A i, j \in DOMAIN s : s[i] = s[j] => i = j, DOMAIN s \subseteq Nat,
         NEW x, NEW y
  PROVE  /\ ~(Precedes(s, x, y) /\ Precedes(s, y, x))
         /\ ~Precedes(s, x, x)
         /\ (\E i, j \in DOMAIN s : s[i] = x /\ s[j] = y) /\ x # y => Precedes(s, x, y) \/ Precedes(s, y, x)
<1>1. ASSUME Precedes(s, x, y), Precedes(s, y, x) PROVE FALSE
  <2>1. PICK i, j \in DOMAIN s : i < j /\ s[i] = x /\ s[j] = y
    BY <1>1 DEF Precedes
  <2>2. PICK k, l \in DOMAIN s : k < l /\ s[k] = y /\ s[l] = x
    BY <1>1 DEF Precedes
  <2>3. i = l /\ j = k
    BY <2>1, <2>2
  <2>4. i \in Nat /\ j \in Nat
    OBVIOUS
  <2> QED BY <2>1, <2>2, <2>3, <2>4
<1>2. ASSUME Precedes(s, x, x) PROVE FALSE
  <2>1. PICK i, j \in DOMAIN s : i < j /\ s[i] = x /\ s[j] = x
    BY <1>2 DEF Precedes
  <2>2. i = j /\ i \in Nat
    BY <2>1
  <2> QED BY <2>1, <2>2
<1>3. ASSUME NEW i \in DOMAIN s, NEW j \in DOMAIN s, s[i] = x, s[j] = y, x # y
      PROVE  Precedes(s, x, y) \/ Precedes(s, y, x)
  <2>1. i \in Nat /\ j \in Nat /\ i # j
    BY <1>3
  <2>2. i < j \/ j < i
    BY <2>1
  <2> QED BY <1>3, <2>2 DEF Precedes
<1> QED BY <1>1, <1>2, <1>3

\* An unload takes one entry out of its list, and the others keep their order.
LEMMA UnloadStep ==
  ASSUME Inv, NEW e \in Entry, mod_unload(e)
  PROVE  ListStep(home[e], e)
<1> DEFINE r == home[e]
           new == Without(r, e)
<1>0. ListsOK /\ Alive(e)
  BY DEF Inv, mod_unload
<1>1. home' = home /\ mods' = [mods EXCEPT ![r] = new] /\ Entry' = Entry
  BY DEF mod_unload, Entry
<1>2. r \in Region /\ mods[r] \in Seq(Entry) /\ DOMAIN mods[r] \subseteq Nat
  BY <1>0, ListFacts
<1>3. /\ \A q \in Region \ {r} : mods'[q] = mods[q]
      /\ mods'[r] = new /\ mods' = [q \in Region |-> mods'[q]]
  BY <1>0, <1>1, <1>2 DEF ListsOK
<1>4. /\ new \in Seq(Entry)
      /\ \A j \in DOMAIN new : new[j] \in Entry \ {e} /\ \E i \in DOMAIN mods[r] : mods[r][i] = new[j]
      /\ \A i \in DOMAIN mods[r] : mods[r][i] \in Entry \ {e} => \E j \in DOMAIN new : new[j] = mods[r][i]
      /\ \A i, j \in DOMAIN new : new[i] = new[j] => i = j
      /\ \A x, y : Precedes(new, x, y) => Precedes(mods[r], x, y)
  <2>1. \A i, j \in DOMAIN mods[r] : mods[r][i] = mods[r][j] => i = j
    BY <1>0, <1>2, ListFacts
  <2> DEFINE K == Entry \ {e}
             l == mods[r]
  <2>2. new = Filter(l, K)
    BY DEF Without
  <2>3. l \in Seq(Entry) /\ \A i, j \in DOMAIN l : l[i] = l[j] => i = j
    BY <1>2, <2>1
  <2> HIDE DEF new, K, l
  <2>4. new \in Seq(Entry)
    BY <2>2, <2>3, FilterFacts
  <2>5. \A j \in DOMAIN new : new[j] \in K /\ \E i \in DOMAIN l : l[i] = new[j]
    BY <2>2, <2>3, FilterFacts
  <2>6. \A i \in DOMAIN l : l[i] \in K => \E j \in DOMAIN new : new[j] = l[i]
    BY <2>2, <2>3, FilterFacts
  <2>7. \A i, j \in DOMAIN new : new[i] = new[j] => i = j
    BY <2>2, <2>3, FilterFacts
  <2>8. \A x, y : Precedes(new, x, y) => Precedes(l, x, y)
    BY <2>2, <2>3, FilterOrder, Zenon
  <2> QED BY <2>4, <2>5, <2>6, <2>7, <2>8 DEF K, l
<1>5. DOMAIN new \subseteq Nat
  BY <1>4
<1> HIDE DEF new, r
<1>6. ListsOK'
  <2>1. home' \in Seq(Region)
    BY <1>0, <1>1 DEF ListsOK
  <2>2. ASSUME NEW q \in Region PROVE mods'[q] \in Seq(Entry)
    BY <1>0, <1>3, <1>4, ListFacts
  <2>3. mods' \in [Region -> Seq(Entry)]
    BY <1>3, <2>2
  <2>4. ASSUME NEW q \in Region, NEW i \in DOMAIN mods'[q], NEW j \in DOMAIN mods'[q]
        PROVE  home[mods'[q][i]] = q /\ (mods'[q][i] = mods'[q][j] => i = j)
    <3>1. CASE q # r
      <4>1. mods'[q] = mods[q]
        BY <1>3, <3>1
      <4> QED BY <1>0, <4>1, ListFacts
    <3>2. CASE q = r
      <4>1. mods'[q] = new
        BY <1>3, <3>2
      <4>2. PICK k \in DOMAIN mods[r] : mods[r][k] = new[i]
        BY <1>4, <4>1
      <4>3. home[new[i]] = r
        BY <1>0, <1>2, <4>2, ListFacts
      <4> QED BY <1>4, <3>2, <4>1, <4>3
    <3> QED BY <3>1, <3>2
  <2> QED BY <1>1, <2>1, <2>3, <2>4 DEF ListsOK
<1>7. ASSUME NEW x \in Entry PROVE Alive(x)' <=> Alive(x) /\ x # e
  <2>1. x \in Entry' /\ home'[x] = home[x] /\ home[x] \in Region
    BY <1>0, <1>1, ListFacts
  <2>2. CASE home[x] # r
    <3>1. x # e /\ mods'[home[x]] = mods[home[x]]
      BY <1>3, <2>1, <2>2 DEF r
    <3> QED BY <1>0, <1>6, <2>1, <3>1, AliveThen
  <2>3. CASE home[x] = r
    <3>1. mods'[home[x]] = new /\ mods[home[x]] = mods[r]
      BY <1>3, <2>3
    <3>2. (\E i \in DOMAIN new : new[i] = x) <=> (\E i \in DOMAIN mods[r] : mods[r][i] = x) /\ x # e
      BY <1>4
    <3> QED BY <1>0, <1>6, <2>1, <3>1, <3>2, AliveThen
  <2> QED BY <2>2, <2>3
<1>8. ASSUME NEW q \in Region, NEW x \in Entry, NEW y \in Entry, Alive(x)', Alive(y)'
      PROVE  Precedes(mods'[q], x, y) <=> Precedes(mods[q], x, y)
  <2>1. CASE q # r
    BY <1>3, <2>1
  <2>2. CASE q = r
    <3>1. Precedes(new, x, y) => Precedes(mods[r], x, y)
      BY <1>4
    <3>2. ASSUME Precedes(mods[r], x, y) PROVE Precedes(new, x, y)
      <4>1. \A i, j \in DOMAIN mods[r] : mods[r][i] = mods[r][j] => i = j
        BY <1>0, <1>2, ListFacts
      <4>2. ~Precedes(mods[r], y, x) /\ x # y
        BY <1>2, <3>2, <4>1, OrderFacts
      <4>3. x # e /\ y # e
        BY <1>7, <1>8
      <4>4. \E i, j \in DOMAIN new : new[i] = x /\ new[j] = y
        <5>1. PICK i, j \in DOMAIN mods[r] : mods[r][i] = x /\ mods[r][j] = y
          BY <3>2 DEF Precedes
        <5> QED BY <1>4, <4>3, <5>1
      <4>5. Precedes(new, x, y) \/ Precedes(new, y, x)
        BY <1>4, <1>5, <4>2, <4>4, OrderFacts
      <4> QED BY <1>4, <4>2, <4>5
    <3> QED BY <1>3, <2>2, <3>1, <3>2
  <2> QED BY <2>1, <2>2
<1>9. MayCall /\ Spared(e) /\ region_mark_subtree_dirty(r) /\ UNCHANGED stack
  BY DEF mod_unload, r
<1> QED BY <1>0, <1>1, <1>2, <1>6, <1>7, <1>8, <1>9 DEF ListStep, r

\* A reload puts a new entry where the old one was.
LEMMA ReloadStep ==
  ASSUME Inv, NEW e \in Entry, xy_reload(e)
  PROVE  ListStep(home[e], e)
<1> DEFINE r == home[e]
           n == Len(home) + 1
           new == [i \in DOMAIN mods[r] |-> IF mods[r][i] = e THEN n ELSE mods[r][i]]
<1>0. ListsOK /\ Alive(e)
  BY DEF Inv, xy_reload
<1>1. home' = Append(home, r) /\ mods' = [mods EXCEPT ![r] = new]
  BY DEF xy_reload
<1>2. r \in Region /\ mods[r] \in Seq(Entry) /\ DOMAIN mods[r] = 1 .. Len(mods[r]) /\ Len(mods[r]) \in Nat
  BY <1>0, ListFacts
<1>3. /\ home' \in Seq(Region) /\ Len(home') = n /\ n \in Nat /\ Entry' = 1 .. n
      /\ home'[n] = r /\ \A x \in Entry : home'[x] = home[x] /\ x \in Entry'
      /\ n \notin Entry /\ Entry' = Entry \cup {n}
  <2>1. home \in Seq(Region) /\ Len(home) \in Nat /\ Entry = 1 .. Len(home)
    BY <1>0, ListFacts DEF ListsOK
  <2> HIDE DEF r
  <2>2. home' \in Seq(Region) /\ Len(home') = n /\ home'[n] = r /\ \A x \in Entry : home'[x] = home[x]
    BY <1>1, <1>2, <2>1
  <2> QED BY <2>1, <2>2 DEF Entry
<1>4. /\ \A q \in Region \ {r} : mods'[q] = mods[q]
      /\ mods'[r] = new /\ mods' = [q \in Region |-> mods'[q]]
  <2> HIDE DEF new, r
  <2> QED BY <1>0, <1>1, <1>2 DEF ListsOK
<1> HIDE DEF n
<1>5. /\ DOMAIN new = DOMAIN mods[r]
      /\ \A i \in DOMAIN mods[r] : new[i] = IF mods[r][i] = e THEN n ELSE mods[r][i]
  OBVIOUS
<1>6. ASSUME NEW i \in DOMAIN mods[r]
      PROVE  mods[r][i] \in Entry /\ mods[r][i] # n /\ home[mods[r][i]] = r
  BY <1>0, <1>2, <1>3, ListFacts
<1>7. new \in Seq(Entry')
  <2>1. \A i \in 1 .. Len(mods[r]) : (IF mods[r][i] = e THEN n ELSE mods[r][i]) \in Entry'
    BY <1>2, <1>3, <1>6
  <2> QED BY <1>2, <2>1
<1> HIDE DEF new, r
<1>8. ListsOK'
  <2>1. ASSUME NEW q \in Region PROVE mods'[q] \in Seq(Entry')
    <3>1. mods[q] \in Seq(Entry) /\ Entry \subseteq Entry'
      BY <1>0, <1>3, ListFacts
    <3>2. mods[q] \in Seq(Entry')
      BY <3>1
    <3> QED BY <1>4, <1>7, <3>2
  <2>2. mods' \in [Region -> Seq(Entry')]
    BY <1>4, <2>1
  <2>3. ASSUME NEW q \in Region, NEW i \in DOMAIN mods'[q], NEW j \in DOMAIN mods'[q]
        PROVE  home'[mods'[q][i]] = q /\ (mods'[q][i] = mods'[q][j] => i = j)
    <3>1. CASE q # r
      <4>1. mods'[q] = mods[q]
        BY <1>4, <3>1
      <4>2. mods[q][i] \in Entry /\ home[mods[q][i]] = q /\ (mods[q][i] = mods[q][j] => i = j)
        BY <1>0, <4>1, ListFacts
      <4> QED BY <1>3, <4>1, <4>2
    <3>2. CASE q = r
      <4>1. mods'[q] = new /\ i \in DOMAIN mods[r] /\ j \in DOMAIN mods[r]
        BY <1>4, <1>5, <3>2
      <4>2. mods[r][i] = mods[r][j] => i = j
        BY <1>0, <1>2, <4>1, ListFacts
      <4>3. home'[new[i]] = r
        BY <1>3, <1>5, <1>6, <4>1
      <4>4. new[i] = new[j] => mods[r][i] = mods[r][j]
        BY <1>5, <1>6, <4>1
      <4> QED BY <3>2, <4>1, <4>2, <4>3, <4>4
    <3> QED BY <3>1, <3>2
  <2> QED BY <1>3, <2>2, <2>3 DEF ListsOK
<1>9. ASSUME NEW x \in Entry PROVE Alive(x)' <=> Alive(x) /\ x # e
  <2>1. x \in Entry' /\ home'[x] = home[x] /\ home[x] \in Region /\ x # n
    BY <1>0, <1>3, ListFacts
  <2>2. CASE home[x] # r
    <3>1. x # e /\ mods'[home[x]] = mods[home[x]]
      BY <1>4, <2>1, <2>2 DEF r
    <3> QED BY <1>0, <1>8, <2>1, <3>1, AliveThen
  <2>3. CASE home[x] = r
    <3>1. mods'[home[x]] = new /\ mods[home[x]] = mods[r]
      BY <1>4, <2>3
    <3>2. (\E i \in DOMAIN new : new[i] = x) <=> (\E i \in DOMAIN mods[r] : mods[r][i] = x) /\ x # e
      BY <1>5, <2>1
    <3> QED BY <1>0, <1>8, <2>1, <3>1, <3>2, AliveThen
  <2> QED BY <2>2, <2>3
<1>10. ASSUME NEW q \in Region, NEW x \in Entry, NEW y \in Entry, Alive(x)', Alive(y)'
      PROVE  Precedes(mods'[q], x, y) <=> Precedes(mods[q], x, y)
  <2>1. CASE q # r
    BY <1>4, <2>1
  <2>2. CASE q = r
    <3>1. x # e /\ y # e /\ x # n /\ y # n
      BY <1>3, <1>9, <1>10
    <3>2. \A i \in DOMAIN mods[r] : (new[i] = x <=> mods[r][i] = x) /\ (new[i] = y <=> mods[r][i] = y)
      BY <1>5, <3>1
    <3> QED BY <1>4, <1>5, <2>2, <3>2 DEF Precedes
  <2> QED BY <2>1, <2>2
<1>11. MayCall /\ Spared(e) /\ region_mark_subtree_dirty(r) /\ UNCHANGED stack
  BY DEF xy_reload, r
<1>12. \A x \in Entry' : x \notin Entry => home'[x] = r
  BY <1>3
<1> QED BY <1>0, <1>2, <1>3, <1>8, <1>9, <1>10, <1>11, <1>12 DEF ListStep, r

\* The stack and its frames.
LEMMA StackFacts ==
  ASSUME Inv
  PROVE  /\ Depth \in Nat /\ stack \in Seq(FrameType) /\ DOMAIN stack = 1 .. Depth
         /\ \A d \in 1 .. Depth : stack[d] \in FrameType
         /\ stack # <<>> => Depth \in 1 .. Depth /\ Top = stack[Depth] /\ Top \in FrameType
         /\ stack = <<>> <=> Depth = 0
         /\ MayCall => \A d \in 1 .. Depth : stack[d].inside
<1>1. stack \in Seq(FrameType) /\ \A d \in 1 .. Depth : d < Depth => stack[d].inside
  BY DEF Inv, StackOK
<1>2. Depth \in Nat /\ DOMAIN stack = 1 .. Depth /\ \A d \in 1 .. Depth : stack[d] \in FrameType
  BY <1>1 DEF Depth
<1>3. stack = <<>> <=> Depth = 0
  BY <1>1 DEF Depth
<1>4. stack # <<>> => Depth \in 1 .. Depth /\ Top = stack[Depth] /\ Top \in FrameType
  BY <1>2, <1>3 DEF Top
<1>5. ASSUME MayCall, NEW d \in 1 .. Depth PROVE stack[d].inside
  <2>1. stack # <<>> /\ Top.inside
    BY <1>3, <1>5 DEF MayCall
  <2>2. d = Depth \/ d < Depth
    BY <1>2
  <2> QED BY <1>1, <2>1, <2>2 DEF Top
<1> QED BY <1>1, <1>2, <1>3, <1>4, <1>5

\* Whatever changes one list and marks the vectors above it keeps the invariant.
LEMMA ListStepKeeps ==
  ASSUME Inv, NEW r0, NEW gone, ListStep(r0, gone)
  PROVE  Inv'
<1>0. ListsOK /\ CachesOK /\ StackOK
  BY DEF Inv
<1>1. /\ r0 \in Region /\ MayCall /\ ListsOK'
      /\ gone # 0 => Alive(gone) /\ Spared(gone) /\ home[gone] = r0
      /\ \A e \in Entry : e \in Entry' /\ home'[e] = home[e]
      /\ \A e \in Entry : Alive(e)' <=> Alive(e) /\ e # gone
      /\ \A e \in Entry' : e \notin Entry => home'[e] = r0
      /\ \A r \in Region : \A x, y \in Entry :
           Alive(x)' /\ Alive(y)' => (Precedes(mods'[r], x, y) <=> Precedes(mods[r], x, y))
  BY DEF ListStep
<1>2. /\ fresh' = [a \in Region |-> a \notin Above(r0) /\ fresh[a]]
      /\ slots' = slots /\ count' = count /\ cap' = cap /\ block' = block
      /\ stack' = stack /\ Depth' = Depth
  BY DEF ListStep, region_mark_subtree_dirty, Depth
<1>3. CachesOK'
  <2>1. Entry \subseteq Entry'
    BY <1>1
  <2>2. ASSUME NEW r \in Region PROVE slots[r] \in Seq(Entry')
    <3>1. slots[r] \in Seq(Entry)
      BY <1>0 DEF CachesOK
    <3> QED BY <2>1, <3>1
  <2>3. slots' \in [Region -> Seq(Entry')]
    BY <1>0, <1>2, <2>2 DEF CachesOK
  <2>4. fresh' \in [Region -> BOOLEAN]
    BY <1>0, <1>2 DEF CachesOK
  <2> QED BY <1>0, <1>2, <2>3, <2>4 DEF CachesOK
<1>4. StackOK'
  BY <1>0, <1>2 DEF StackOK
<1>5. ASSUME NEW r, NEW e \in Entry
      PROVE  Scope(r, e)' <=> Scope(r, e) /\ e # gone
  <2>1. Alive(e)' <=> Alive(e) /\ e # gone
    BY <1>1
  <2>2. home'[e] = home[e]
    BY <1>1
  <2> QED BY <2>1, <2>2 DEF Scope, Above
<1>6. ASSUME NEW r \in Region PROVE FreshOK(r)'
  <2> SUFFICES ASSUME fresh'[r]
               PROVE  /\ \A i \in 1 .. count[r] : Scope(r, slots[r][i])'
                      /\ \A i, j \in 1 .. count[r] : slots[r][i] = slots[r][j] => i = j
                      /\ \A e \in Entry' : Scope(r, e)' => \E i \in 1 .. count[r] : slots[r][i] = e
    BY <1>2 DEF FreshOK, Scope, Alive, Above
  <2>1. fresh[r] /\ r \notin Above(r0)
    BY <1>2
  <2>2. FreshOK(r)
    BY DEF Inv
  <2>3. ASSUME NEW e \in Entry PROVE Scope(r, e)' <=> Scope(r, e)
    <3>1. e = gone => ~Scope(r, e)
      <4>1. e # 0
        BY <1>0, ListFacts
      <4> QED BY <1>1, <2>1, <4>1 DEF Scope
    <3> QED BY <1>5, <3>1
  <2>4. ASSUME NEW e \in Entry', e \notin Entry PROVE ~Scope(r, e)'
    <3>1. home'[e] = r0
      BY <1>1, <2>4
    <3> QED BY <2>1, <3>1 DEF Scope, Above
  <2>5. ASSUME NEW i \in 1 .. count[r] PROVE Scope(r, slots[r][i])'
    <3>1. Scope(r, slots[r][i]) /\ slots[r][i] \in Entry
      BY <2>1, <2>2 DEF FreshOK, Scope, Alive
    <3>2. PICK e \in Entry : e = slots[r][i]
      BY <3>1
    <3>3. Scope(r, e)'
      BY <2>3, <3>1, <3>2
    <3> QED BY <1>2, <3>2, <3>3 DEF Scope, Alive
  <2>6. ASSUME NEW e \in Entry', Scope(r, e)' PROVE \E i \in 1 .. count[r] : slots[r][i] = e
    <3>1. e \in Entry /\ Scope(r, e)
      BY <2>3, <2>4, <2>6
    <3> QED BY <2>1, <2>2, <3>1 DEF FreshOK
  <2>7. \A i, j \in 1 .. count[r] : slots[r][i] = slots[r][j] => i = j
    BY <2>1, <2>2 DEF FreshOK
  <2> QED BY <2>5, <2>6, <2>7
<1>7. ASSUME NEW d \in 1 .. Depth PROVE FrameOK(stack[d])'
  <2>1. PICK f \in FrameType : f = stack[d]
    BY StackFacts
  <2>2. FrameOK(f) /\ f.inside /\ stack'[d] = f
    BY <1>1, <1>2, <2>1, StackFacts DEF Inv
  <2>3. f.me \in Entry /\ f.me # 0 /\ DOMAIN f.ran \subseteq Entry
    BY <1>0, <2>2, ListFacts DEF FrameOK, MeOK
  <2>4. Careful /\ f.self => f.me # gone
    <3> SUFFICES ASSUME Careful, f.self, f.me = gone PROVE FALSE
      OBVIOUS
    <3>1. Spared(gone) /\ gone = stack[d].me /\ stack[d].self
      BY <1>1, <2>1, <2>3
    <3> QED BY <3>1 DEF Spared
  <2>5. f.me \in Entry' /\ home'[f.me] = home[f.me] /\ (Alive(f.me)' <=> Alive(f.me) /\ f.me # gone)
    BY <1>1, <2>3
  <2>6. MeOK(f)'
    <3>1. DOMAIN f.ran \subseteq Entry'
      BY <1>1, <2>3
    <3>2. f.self => home[f.me] = f.region /\ (Careful => Alive(f.me))
      BY <2>2, <2>3 DEF FrameOK, MeOK
    <3> QED BY <2>4, <2>5, <3>1, <3>2 DEF MeOK
  <2>7. AheadOK(f)'
    <3>1. AheadOK(f)
      BY <2>2 DEF FrameOK
    <3>2. ASSUME Careful, ToRead(f) # {}, NEW i \in ToRead(f) PROVE Alive(slots[f.region][i])'
      <4>1. Alive(slots[f.region][i])
        BY <3>1, <3>2 DEF AheadOK
      <4>2. slots[f.region][i] \in Ahead(d)
        BY <2>1 DEF Ahead
      <4>3. PICK e \in Entry : e = slots[f.region][i]
        BY <1>0, <4>1, ListFacts
      <4>4. e # gone
        <5>1. e # 0 /\ e \in Ahead(d) /\ d \in 1 .. Depth
          BY <1>0, <4>2, <4>3, ListFacts
        <5> QED BY <1>1, <3>2, <5>1 DEF Spared
      <4>5. Alive(e)'
        BY <1>1, <4>1, <4>3, <4>4
      <4> QED BY <1>2, <4>3, <4>5 DEF Alive
    <3>3. ToRead(f)' = ToRead(f)
      BY DEF ToRead
    <3>4. ~f.self => f.n <= Len(slots'[f.region])
      BY <1>2, <3>1 DEF AheadOK
    <3>5. ASSUME Careful, ToRead(f) # {} PROVE f.block = block'[f.region]
      BY <1>2, <3>1, <3>5 DEF AheadOK
    <3> QED BY <1>2, <3>2, <3>3, <3>4, <3>5 DEF AheadOK, ToRead
  <2>8. VectorRuns(f)'
    <3>1. VectorRuns(f)
      BY <2>2 DEF FrameOK
    <3>2. \A e \in DOMAIN f.ran : Scope(f.region, e)' => Scope(f.region, e)
      BY <1>5, <2>3
    <3> QED BY <1>2, <3>1, <3>2 DEF VectorRuns, Done
  <2>9. ListRuns(f)'
    <3> SUFFICES ASSUME f.self, Alive(f.me)', NEW e \in DOMAIN f.ran, Alive(e)', home'[e] = f.region
                 PROVE  f.ran[e] = IF f.me = 0 \/ Precedes(mods'[f.region], e, f.me) \/ (e = f.me /\ f.inside)
                                   THEN 1 ELSE 0
      BY <2>3 DEF ListRuns, Precedes
    <3>1. e \in Entry /\ Alive(e) /\ home[e] = f.region /\ Alive(f.me)
      BY <1>1, <2>3, <2>5
    <3>2. f.region \in Region
      BY DEF FrameType
    <3>3. Precedes(mods'[f.region], e, f.me) <=> Precedes(mods[f.region], e, f.me)
      BY <1>1, <2>3, <2>5, <3>1, <3>2
    <3> QED BY <2>2, <3>1, <3>3 DEF FrameOK, ListRuns
  <2>10. FrameOK(f)'
    BY <2>6, <2>7, <2>8, <2>9 DEF FrameOK
  <2> QED BY <2>2, <2>10
<1> QED BY <1>1, <1>2, <1>3, <1>4, <1>6, <1>7 DEF Inv

(***************************************************************************)
(* Steps of a loop                                                         *)
(***************************************************************************)

\* Where the lists and the vectors stay as they are, so does what is said of a frame.
LEMMA Unmoved ==
  ASSUME UNCHANGED <<listVars, cacheVars>>
  PROVE  /\ ListsOK' <=> ListsOK
         /\ CachesOK' <=> CachesOK
         /\ \A r : FreshOK(r)' <=> FreshOK(r)
         /\ \A f : FrameOK(f)' <=> FrameOK(f)
<1>1. mods' = mods /\ home' = home /\ slots' = slots /\ count' = count /\ cap' = cap
      /\ block' = block /\ fresh' = fresh
  BY DEF listVars, cacheVars
<1>2. Entry' = Entry /\ \A e : Alive(e)' <=> Alive(e)
  BY <1>1 DEF Entry, Alive
<1>3. \A r, e : Scope(r, e)' <=> Scope(r, e)
  BY <1>1, <1>2 DEF Scope, Above
<1>4. ListsOK' <=> ListsOK
  BY <1>1, <1>2 DEF ListsOK
<1>5. CachesOK' <=> CachesOK
  BY <1>1, <1>2 DEF CachesOK
<1>6. ASSUME NEW r PROVE FreshOK(r)' <=> FreshOK(r)
  BY <1>1, <1>2, <1>3 DEF FreshOK, Scope, Alive
<1>7. ASSUME NEW f PROVE FrameOK(f)' <=> FrameOK(f)
  <2>1. MeOK(f)' <=> MeOK(f)
    BY <1>1, <1>2 DEF MeOK, Alive
  <2>2. AheadOK(f)' <=> AheadOK(f)
    BY <1>1, <1>2 DEF AheadOK, ToRead, Alive
  <2>3. VectorRuns(f)' <=> VectorRuns(f)
    BY <1>1, <1>2, <1>3 DEF VectorRuns, Done
  <2>4. ListRuns(f)' <=> ListRuns(f)
    BY <1>1, <1>2 DEF ListRuns, Precedes
  <2> QED BY <2>1, <2>2, <2>3, <2>4 DEF FrameOK
<1> QED BY <1>4, <1>5, <1>6, <1>7

\* One element of a sequence is replaced.
LEMMA ReplaceFacts ==
  ASSUME NEW S, NEW s \in Seq(S), NEW d \in 1 .. Len(s), NEW g \in S, NEW t, t = [s EXCEPT ![d] = g]
  PROVE  /\ t \in Seq(S) /\ Len(t) = Len(s) /\ t[d] = g
         /\ \A i \in 1 .. Len(s) : i # d => t[i] = s[i]
OBVIOUS

\* The frame on top changes.
LEMMA SetTopKeeps ==
  ASSUME Inv, UNCHANGED <<listVars, cacheVars>>, stack # <<>>,
         NEW g \in FrameType, SetTop(g), FrameOK(g)
  PROVE  Inv'
<1>1. /\ Depth \in Nat /\ Depth \in 1 .. Depth /\ stack \in Seq(FrameType)
      /\ DOMAIN stack = 1 .. Depth
  BY StackFacts
<1>2. stack' = [stack EXCEPT ![Depth] = g]
  BY DEF SetTop
<1>3. /\ stack' \in Seq(FrameType) /\ Len(stack') = Depth /\ stack'[Depth] = g
      /\ \A d \in 1 .. Depth : d # Depth => stack'[d] = stack[d]
  <2>1. Len(stack) = Depth
    BY DEF Depth
  <2>2. PICK s, t, n : s = stack /\ t = stack' /\ n = Depth
    OBVIOUS
  <2>3. s \in Seq(FrameType) /\ n \in 1 .. Len(s) /\ t = [s EXCEPT ![n] = g] /\ Len(s) = n
    BY <1>1, <1>2, <2>1, <2>2
  <2>4. t \in Seq(FrameType) /\ Len(t) = Len(s) /\ t[n] = g /\ \A i \in 1 .. Len(s) : i # n => t[i] = s[i]
    BY <2>3, ReplaceFacts
  <2> QED BY <2>2, <2>3, <2>4
<1>4. Depth' = Depth
  BY <1>3 DEF Depth
<1>5. StackOK'
  <2>1. \A d \in 1 .. Depth : d < Depth => stack'[d].inside
    BY <1>1, <1>3 DEF Inv, StackOK
  <2> QED BY <1>3, <1>4, <2>1 DEF StackOK
<1>6. ASSUME NEW d \in 1 .. Depth PROVE FrameOK(stack[d])'
  <2>1. PICK f : f = stack'[d]
    OBVIOUS
  <2>2. FrameOK(f)
    BY <1>3, <2>1 DEF Inv
  <2>3. FrameOK(f)'
    BY <2>2, Unmoved
  <2> QED BY <2>1, <2>3
<1>7. ListsOK' /\ CachesOK' /\ \A r \in Region : FreshOK(r)'
  BY Unmoved DEF Inv
<1> QED BY <1>4, <1>5, <1>6, <1>7 DEF Inv

\* The end of a loop leaves the loops below it as they are.
LEMMA FinishKeeps ==
  ASSUME Inv, Finish
  PROVE  Inv'
<1>1. /\ Depth \in Nat /\ Depth \in 1 .. Depth /\ stack \in Seq(FrameType)
      /\ DOMAIN stack = 1 .. Depth
  BY StackFacts DEF Finish
<1>2. stack' = SubSeq(stack, 1, Depth - 1) /\ UNCHANGED <<listVars, cacheVars>>
  BY DEF Finish
<1>3. /\ stack' \in Seq(FrameType) /\ Len(stack') = Depth - 1
      /\ \A d \in 1 .. Depth - 1 : stack'[d] = stack[d] /\ d \in 1 .. Depth
  BY <1>1, <1>2 DEF Depth
<1>4. Depth' = Depth - 1
  BY <1>3 DEF Depth
<1>5. StackOK'
  <2>1. \A d \in 1 .. Depth - 1 : d < Depth /\ d \in 1 .. Depth
    BY <1>1
  <2>2. \A d \in 1 .. Depth - 1 : stack'[d].inside
    BY <1>3, <2>1 DEF Inv, StackOK
  <2> QED BY <1>3, <1>4, <2>2 DEF StackOK
<1>6. ASSUME NEW d \in 1 .. Depth - 1 PROVE FrameOK(stack[d])'
  <2>1. PICK f : f = stack'[d]
    OBVIOUS
  <2>2. FrameOK(f)
    BY <1>3, <2>1 DEF Inv
  <2>3. FrameOK(f)'
    BY <1>2, <2>2, Unmoved
  <2> QED BY <2>1, <2>3
<1>7. ListsOK' /\ CachesOK' /\ \A r \in Region : FreshOK(r)'
  BY <1>2, Unmoved DEF Inv
<1> QED BY <1>4, <1>5, <1>6, <1>7 DEF Inv

\* Entering a listener counts it, and only it.
LEMMA EnterKeeps ==
  ASSUME Inv, Enter
  PROVE  Inv'
<1>1. PICK f \in FrameType : f = Top
  BY StackFacts DEF Enter, AtModule
<1>2. /\ stack # <<>> /\ ~f.inside /\ UNCHANGED <<listVars, cacheVars>>
      /\ IF f.self THEN f.me # 0 ELSE f.pos <= f.n
      /\ IF f.self THEN Alive(f.me) ELSE Alive(slots[f.region][f.pos])
  <2>1. AtModule /\ ReadsAlive /\ UNCHANGED <<listVars, cacheVars>>
    BY DEF Enter
  <2> QED BY <1>1, <2>1 DEF AtModule, ReadsAlive
<1>3. FrameOK(f) /\ ListsOK
  BY <1>1, <1>2, StackFacts DEF Inv
<1>4. PICK e : e = IF f.self THEN f.me ELSE slots[f.region][f.pos]
  OBVIOUS
<1>5. Alive(e) /\ e \in Entry /\ e \in Nat /\ e # 0
  BY <1>2, <1>3, <1>4, ListFacts
<1> DEFINE more == [k \in DOMAIN f.ran |-> IF k = e THEN f.ran[k] + 1 ELSE f.ran[k]]
<1>6. PICK g : g = [f EXCEPT !.inside = TRUE, !.me = e, !.ran = more]
  OBVIOUS
<1>7. SetTop(g)
  BY <1>1, <1>4, <1>6 DEF Enter
<1>8. /\ f.region \in Region /\ f.self \in BOOLEAN /\ f.n \in Nat /\ f.pos \in Nat \ {0}
      /\ f.ran \in Seq(Nat) /\ DOMAIN f.ran = 1 .. Len(f.ran) /\ Len(f.ran) \in Nat
      /\ \A k \in DOMAIN f.ran : f.ran[k] \in Nat
  <2>1. f.ran \in Seq(Nat)
    BY DEF FrameType
  <2> QED BY <2>1 DEF FrameType
<1>9. more \in Seq(Nat) /\ DOMAIN more = DOMAIN f.ran
  <2>1. \A k \in 1 .. Len(f.ran) : (IF k = e THEN f.ran[k] + 1 ELSE f.ran[k]) \in Nat
    BY <1>8
  <2> QED BY <1>8, <2>1
<1>10. \A k \in DOMAIN f.ran : more[k] = IF k = e THEN f.ran[k] + 1 ELSE f.ran[k]
  OBVIOUS
<1> HIDE DEF more
<1>11. /\ g \in FrameType /\ g.region = f.region /\ g.self = f.self /\ g.n = f.n /\ g.pos = f.pos
       /\ g.me = e /\ g.block = f.block /\ g.inside = TRUE /\ g.ran = more /\ g.rebuilt = f.rebuilt
  BY <1>5, <1>6, <1>9 DEF FrameType
<1>12. MeOK(g)
  BY <1>2, <1>3, <1>4, <1>5, <1>9, <1>11 DEF FrameOK, MeOK
<1>13. AheadOK(g)
  <2>1. ToRead(g) \subseteq ToRead(f)
    BY <1>2, <1>8, <1>11 DEF ToRead
  <2> QED BY <1>3, <1>11, <2>1 DEF FrameOK, AheadOK
<1>14. VectorRuns(g)
  <2> SUFFICES ASSUME ~f.self, ~f.rebuilt PROVE VectorRuns(g)
    BY <1>11 DEF VectorRuns
  <2>1. VectorRuns(f) /\ Done(f) = f.pos - 1 /\ Done(g) = f.pos
    BY <1>2, <1>3, <1>11 DEF FrameOK, Done
  <2>2. e = slots[f.region][f.pos] /\ f.pos \in 1 .. f.n
    BY <1>2, <1>4, <1>8
  <2>3. ASSUME NEW i \in 1 .. f.n, slots[f.region][i] \in DOMAIN f.ran
        PROVE  more[slots[f.region][i]] = IF i <= f.pos THEN 1 ELSE 0
    <3>1. f.ran[slots[f.region][i]] = IF i <= f.pos - 1 THEN 1 ELSE 0
      BY <2>1, <2>3 DEF VectorRuns
    <3>2. slots[f.region][i] = e <=> i = f.pos
      BY <2>1, <2>2 DEF VectorRuns
    <3>3. more[slots[f.region][i]] =
            IF i = f.pos THEN f.ran[slots[f.region][i]] + 1 ELSE f.ran[slots[f.region][i]]
      BY <1>10, <2>3, <3>2
    <3>4. i \in Nat /\ f.pos \in Nat
      BY <1>8
    <3> QED BY <3>1, <3>3, <3>4
  <2> QED BY <1>9, <1>11, <2>1, <2>3 DEF VectorRuns
<1>15. ListRuns(g)
  <2> SUFFICES ASSUME f.self, NEW x \in DOMAIN f.ran, Alive(x), home[x] = f.region
               PROVE  more[x] = IF e = 0 \/ Precedes(mods[f.region], x, e) \/ x = e THEN 1 ELSE 0
    BY <1>9, <1>11 DEF ListRuns
  <2>1. e = f.me /\ f.me # 0
    BY <1>2, <1>4
  <2>2. f.ran[x] = IF Precedes(mods[f.region], x, e) THEN 1 ELSE 0
    BY <1>2, <1>3, <2>1 DEF FrameOK, ListRuns
  <2>3. ~Precedes(mods[f.region], e, e)
    <3>1. DOMAIN mods[f.region] \subseteq Nat
          /\ \A i, j \in DOMAIN mods[f.region] : mods[f.region][i] = mods[f.region][j] => i = j
      <4>1. f.region \in Region /\ ListsOK
        BY <1>3, <1>8
      <4>2. Len(mods[f.region]) \in Nat /\ DOMAIN mods[f.region] = 1 .. Len(mods[f.region])
        BY <4>1, ListFacts, Zenon
      <4>3. \A i, j \in DOMAIN mods[f.region] : mods[f.region][i] = mods[f.region][j] => i = j
        BY <4>1, ListFacts, Zenon
      <4> QED BY <4>2, <4>3
    <3> QED BY <3>1, OrderFacts, Zenon
  <2>4. more[x] = IF x = e THEN f.ran[x] + 1 ELSE f.ran[x]
    BY <1>10
  <2> QED BY <1>5, <2>2, <2>3, <2>4
<1>16. FrameOK(g)
  BY <1>12, <1>13, <1>14, <1>15 DEF FrameOK
<1> QED BY <1>2, <1>7, <1>11, <1>16, SetTopKeeps

\* What stands before the next entry is what stands before this one, and this one.
LEMMA NextFacts ==
  ASSUME ListsOK, NEW e, Alive(e), NEW l, l = mods[home[e]], NEW nx, nx = region_next(e)
  PROVE  /\ nx \in Nat
         /\ nx # 0 => /\ Alive(nx) /\ home[nx] = home[e]
                      /\ \A x : Precedes(l, x, nx) <=> x = e \/ Precedes(l, x, e)
         /\ nx = 0 => \A x : Alive(x) /\ home[x] = home[e] => x = e \/ Precedes(l, x, e)
<1> DEFINE i == CHOOSE i \in DOMAIN l : l[i] = e
<1>1. /\ home[e] \in Region /\ DOMAIN l = 1 .. Len(l) /\ Len(l) \in Nat
      /\ \A j, k \in DOMAIN l : l[j] = l[k] => j = k
      /\ \A j \in DOMAIN l : l[j] \in Entry /\ l[j] \in Nat /\ l[j] # 0 /\ home[l[j]] = home[e] /\ Alive(l[j])
  <2>1. home[e] \in Region
    BY ListFacts
  <2> QED BY <2>1, ListFacts
<1>2. i \in DOMAIN l /\ l[i] = e
  <2>1. \E j \in DOMAIN l : l[j] = e
    BY DEF Alive
  <2> QED BY <2>1
<1>3. nx = IF i < Len(l) THEN l[i + 1] ELSE 0
  BY DEF region_next
<1> HIDE DEF i
<1>4. CASE i < Len(l)
  <2>1. i + 1 \in DOMAIN l /\ nx = l[i + 1] /\ i \in Nat
    BY <1>1, <1>2, <1>3, <1>4
  <2>2. nx \in Nat /\ nx # 0 /\ Alive(nx) /\ home[nx] = home[e]
    BY <1>1, <2>1
  <2>3. ASSUME NEW x PROVE Precedes(l, x, nx) <=> x = e \/ Precedes(l, x, e)
    <3>1. ASSUME Precedes(l, x, nx) PROVE x = e \/ Precedes(l, x, e)
      <4>1. PICK j, k \in DOMAIN l : j < k /\ l[j] = x /\ l[k] = nx
        BY <3>1 DEF Precedes
      <4>2. k = i + 1
        BY <1>1, <2>1, <4>1
      <4>3. j = i \/ j < i
        BY <1>1, <2>1, <4>1, <4>2
      <4> QED BY <1>2, <4>1, <4>3 DEF Precedes
    <3>2. ASSUME x = e PROVE Precedes(l, x, nx)
      <4>1. i < i + 1
        BY <2>1
      <4> QED BY <1>2, <2>1, <3>2, <4>1 DEF Precedes
    <3>3. ASSUME Precedes(l, x, e) PROVE Precedes(l, x, nx)
      <4>1. PICK j, k \in DOMAIN l : j < k /\ l[j] = x /\ l[k] = e
        BY <3>3 DEF Precedes
      <4>2. k = i
        BY <1>1, <1>2, <4>1
      <4>3. j < i + 1
        BY <1>1, <2>1, <4>1, <4>2
      <4> QED BY <2>1, <4>1, <4>3 DEF Precedes
    <3> QED BY <3>1, <3>2, <3>3
  <2> QED BY <2>2, <2>3
<1>5. CASE ~(i < Len(l))
  <2>1. nx = 0 /\ i = Len(l)
    BY <1>1, <1>2, <1>3, <1>5
  <2>2. ASSUME NEW x, Alive(x), home[x] = home[e] PROVE x = e \/ Precedes(l, x, e)
    <3>1. PICK j \in DOMAIN l : l[j] = x
      BY <2>2 DEF Alive
    <3>2. j = i \/ j < i
      BY <1>1, <2>1
    <3> QED BY <1>2, <3>1, <3>2 DEF Precedes
  <2> QED BY <2>1, <2>2
<1> QED BY <1>4, <1>5

\* The next listener has not run yet, in a vector as in a list.
LEMMA LeaveKeeps ==
  ASSUME Inv, Leave
  PROVE  Inv'
<1>1. PICK f \in FrameType : f = Top
  BY StackFacts DEF Leave
<1>2. stack # <<>> /\ f.inside /\ UNCHANGED <<listVars, cacheVars>>
  BY <1>1 DEF Leave
<1>3. FrameOK(f) /\ ListsOK
  BY <1>1, <1>2, StackFacts DEF Inv
<1>4. /\ f.region \in Region /\ f.self \in BOOLEAN /\ f.n \in Nat /\ f.pos \in Nat \ {0}
  BY DEF FrameType
<1>5. f.me \in Entry /\ f.me # 0 /\ (f.self => Alive(f.me))
  <2>1. f.me \in Entry /\ f.me # 0
    BY <1>2, <1>3, ListFacts DEF FrameOK, MeOK
  <2>2. ReadsAlive
    BY DEF Leave
  <2> QED BY <1>1, <2>1, <2>2 DEF ReadsAlive
<1>6. CASE f.self
  <2>1. PICK nx : nx = region_next(f.me)
    OBVIOUS
  <2>2. PICK g : g = [f EXCEPT !.inside = FALSE, !.me = nx]
    OBVIOUS
  <2>3. SetTop(g)
    BY <1>1, <1>6, <2>1, <2>2 DEF Leave
  <2>4. home[f.me] = f.region
    BY <1>3, <1>5, <1>6 DEF FrameOK, MeOK
  <2>5. /\ nx \in Nat
        /\ nx # 0 => /\ Alive(nx) /\ home[nx] = f.region
                     /\ \A x : Precedes(mods[f.region], x, nx) <=> x = f.me \/ Precedes(mods[f.region], x, f.me)
        /\ nx = 0 => \A x : Alive(x) /\ home[x] = f.region => x = f.me \/ Precedes(mods[f.region], x, f.me)
    BY <1>3, <1>5, <1>6, <2>1, <2>4, NextFacts
  <2>6. /\ g \in FrameType /\ g.region = f.region /\ g.self = f.self /\ g.n = f.n /\ g.pos = f.pos
        /\ g.me = nx /\ g.block = f.block /\ g.inside = FALSE /\ g.ran = f.ran /\ g.rebuilt = f.rebuilt
    BY <2>2, <2>5 DEF FrameType
  <2>7. MeOK(g)
    <3>1. nx # 0 => nx \in Entry
      BY <2>5 DEF Alive
    <3> QED BY <1>3, <2>5, <2>6, <3>1 DEF FrameOK, MeOK
  <2>8. AheadOK(g) /\ VectorRuns(g)
    BY <1>6, <2>6 DEF AheadOK, ToRead, VectorRuns
  <2>9. ListRuns(g)
    <3> SUFFICES ASSUME NEW x \in DOMAIN f.ran, Alive(x), home[x] = f.region
                 PROVE  f.ran[x] = IF nx = 0 \/ Precedes(mods[f.region], x, nx) THEN 1 ELSE 0
      BY <2>6 DEF ListRuns
    <3>1. f.ran[x] = IF Precedes(mods[f.region], x, f.me) \/ x = f.me THEN 1 ELSE 0
      BY <1>2, <1>3, <1>5, <1>6 DEF FrameOK, ListRuns
    <3> QED BY <2>5, <3>1
  <2>10. FrameOK(g)
    BY <2>7, <2>8, <2>9 DEF FrameOK
  <2> QED BY <1>2, <2>3, <2>6, <2>10, SetTopKeeps
<1>7. CASE ~f.self
  <2>1. PICK g : g = [f EXCEPT !.inside = FALSE, !.me = 0, !.pos = f.pos + 1]
    OBVIOUS
  <2>2. SetTop(g)
    BY <1>1, <1>7, <2>1 DEF Leave
  <2>3. /\ g \in FrameType /\ g.region = f.region /\ g.self = f.self /\ g.n = f.n /\ g.pos = f.pos + 1
        /\ g.me = 0 /\ g.block = f.block /\ g.inside = FALSE /\ g.ran = f.ran /\ g.rebuilt = f.rebuilt
    <3>1. f.pos + 1 \in Nat \ {0}
      BY <1>4
    <3> QED BY <1>4, <2>1, <3>1 DEF FrameType
  <2>4. MeOK(g)
    BY <1>3, <2>3 DEF FrameOK, MeOK
  <2>5. AheadOK(g)
    <3>1. ToRead(g) = ToRead(f)
      BY <1>2, <2>3 DEF ToRead
    <3> QED BY <1>3, <2>3, <3>1 DEF FrameOK, AheadOK
  <2>6. VectorRuns(g)
    <3>1. Done(g) = Done(f)
      BY <1>2, <1>4, <2>3 DEF Done
    <3> QED BY <1>3, <2>3, <3>1 DEF FrameOK, VectorRuns
  <2>7. ListRuns(g)
    BY <1>7, <2>3 DEF ListRuns
  <2>8. FrameOK(g)
    BY <2>4, <2>5, <2>6, <2>7 DEF FrameOK
  <2> QED BY <1>2, <2>2, <2>3, <2>8, SetTopKeeps
<1> QED BY <1>4, <1>6, <1>7

(***************************************************************************)
(* Calls                                                                   *)
(***************************************************************************)

\* A frame goes on top of frames that are in listeners.
LEMMA PushKeeps ==
  ASSUME Inv, ListsOK', CachesOK', \A r \in Region : FreshOK(r)',
         NEW base \in Seq(FrameType), Len(base) = Depth, \A d \in 1 .. Depth : base[d].inside,
         \A d \in 1 .. Depth : FrameOK(base[d])',
         NEW g \in FrameType, FrameOK(g)', stack' = Append(base, g)
  PROVE  Inv'
<1>1. PICK n \in Nat : n = Depth
  BY StackFacts
<1>2. PICK t : t = Append(base, g)
  OBVIOUS
<1>3. /\ t \in Seq(FrameType) /\ Len(t) = n + 1 /\ t[n + 1] = g
      /\ \A d \in 1 .. n : t[d] = base[d]
  BY <1>1, <1>2
<1>4. stack' = t /\ Depth' = n + 1
  BY <1>2, <1>3 DEF Depth
<1>5. ASSUME NEW d \in 1 .. n + 1 PROVE d = n + 1 \/ (d \in 1 .. n /\ t[d] = base[d])
  BY <1>3
<1>6. StackOK'
  <2>1. \A d \in 1 .. n + 1 : d < n + 1 => t[d].inside
    BY <1>1, <1>5
  <2> QED BY <1>3, <1>4, <2>1 DEF StackOK
<1>7. ASSUME NEW d \in 1 .. n + 1 PROVE FrameOK(stack[d])'
  <2>1. PICK f : f = t[d]
    OBVIOUS
  <2>2. CASE d = n + 1
    <3>1. f = g
      BY <1>3, <2>1, <2>2
    <3> QED BY <1>4, <2>1, <3>1
  <2>3. CASE d # n + 1
    <3>1. f = base[d] /\ d \in 1 .. Depth
      BY <1>1, <1>5, <2>1, <2>3
    <3>2. FrameOK(f)'
      BY <3>1
    <3> QED BY <1>4, <2>1, <3>2
  <2> QED BY <2>2, <2>3
<1> QED BY <1>4, <1>6, <1>7 DEF Inv

\* A loop over a list starts in front of all that the list has.
LEMMA CallSelfKeeps ==
  ASSUME Inv, NEW r \in Region, xy_call_self(r)
  PROVE  Inv'
<1>1. MayCall /\ UNCHANGED <<listVars, cacheVars>>
  BY DEF xy_call_self
<1>2. ListsOK
  BY DEF Inv
<1>3. PICK me : me = IF mods[r] = <<>> THEN 0 ELSE mods[r][1]
  OBVIOUS
<1>4. PICK zero : zero = [e \in Entry |-> 0]
  OBVIOUS
<1>5. PICK g : g = [region |-> r, self |-> TRUE, n |-> 0, pos |-> 1, me |-> me, block |-> 0,
                    inside |-> FALSE, ran |-> zero, rebuilt |-> FALSE]
  OBVIOUS
<1>6. stack' = Append(stack, g)
  BY <1>3, <1>4, <1>5 DEF xy_call_self, Frame
<1>7. zero \in Seq(Nat) /\ DOMAIN zero = Entry /\ \A e \in Entry : zero[e] = 0
  BY <1>2, <1>4, ListFacts
<1>8. /\ me \in Nat
      /\ me # 0 => /\ Alive(me) /\ home[me] = r /\ \A x : ~Precedes(mods[r], x, me)
      /\ me = 0 => \A x : Alive(x) => home[x] # r
  <2>1. /\ mods[r] \in Seq(Entry) /\ DOMAIN mods[r] = 1 .. Len(mods[r]) /\ Len(mods[r]) \in Nat
        /\ \A j, k \in DOMAIN mods[r] : mods[r][j] = mods[r][k] => j = k
        /\ \A j \in DOMAIN mods[r] : mods[r][j] \in Nat /\ mods[r][j] # 0 /\ home[mods[r][j]] = r /\ Alive(mods[r][j])
    BY <1>2, ListFacts
  <2>2. CASE mods[r] = <<>>
    <3>1. me = 0 /\ DOMAIN mods[r] = {}
      BY <1>3, <2>2
    <3> QED BY <3>1 DEF Alive
  <2>3. CASE mods[r] # <<>>
    <3>1. 1 \in DOMAIN mods[r] /\ me = mods[r][1]
      BY <1>3, <2>1, <2>3
    <3>2. me \in Nat /\ me # 0 /\ Alive(me) /\ home[me] = r
      BY <2>1, <3>1
    <3>3. ASSUME NEW x, Precedes(mods[r], x, me) PROVE FALSE
      <4>1. PICK i, j \in DOMAIN mods[r] : i < j /\ mods[r][i] = x /\ mods[r][j] = me
        BY <3>3 DEF Precedes
      <4>2. j = 1
        BY <2>1, <3>1, <4>1
      <4> QED BY <2>1, <4>1, <4>2
    <3> QED BY <3>2, <3>3
  <2> QED BY <2>2, <2>3
<1>9. /\ g \in FrameType /\ g.region = r /\ g.self = TRUE /\ g.me = me /\ g.inside = FALSE /\ g.ran = zero
  BY <1>5, <1>7, <1>8 DEF FrameType
<1>10. FrameOK(g)
  <2>1. MeOK(g)
    <3>1. me # 0 => me \in Entry
      BY <1>8 DEF Alive
    <3> QED BY <1>7, <1>8, <1>9, <3>1 DEF MeOK
  <2>2. AheadOK(g) /\ VectorRuns(g)
    BY <1>9 DEF AheadOK, ToRead, VectorRuns
  <2>3. ListRuns(g)
    BY <1>7, <1>8, <1>9 DEF ListRuns
  <2> QED BY <2>1, <2>2, <2>3 DEF FrameOK
<1>11. PICK base : base = stack
  OBVIOUS
<1>12. base \in Seq(FrameType) /\ Len(base) = Depth /\ \A d \in 1 .. Depth : base[d].inside
  BY <1>1, <1>11, StackFacts DEF Depth
<1>13. ASSUME NEW d \in 1 .. Depth PROVE FrameOK(base[d])'
  <2>1. FrameOK(base[d])
    BY <1>11 DEF Inv
  <2> QED BY <1>1, <2>1, Unmoved
<1>14. FrameOK(g)' /\ ListsOK' /\ CachesOK' /\ \A q \in Region : FreshOK(q)'
  BY <1>1, <1>10, Unmoved DEF Inv
<1> QED BY <1>6, <1>9, <1>11, <1>12, <1>13, <1>14, PushKeeps

\* The frame of a call, whose vector is up to date.
LEMMA NewFrame ==
  ASSUME ListsOK, UNCHANGED listVars, CachesOK', NEW r \in Region, fresh'[r], FreshOK(r)',
         NEW zero, zero = [e \in Entry |-> 0],
         NEW g, g = [region |-> r, self |-> FALSE, n |-> count'[r], pos |-> 1, me |-> 0,
                     block |-> block'[r], inside |-> FALSE, ran |-> zero, rebuilt |-> FALSE]
  PROVE  g \in FrameType /\ FrameOK(g)'
<1>1. zero \in Seq(Nat) /\ DOMAIN zero = Entry' /\ \A e \in Entry' : zero[e] = 0
  <2>1. Entry' = Entry
    BY DEF listVars, Entry
  <2> QED BY <2>1, ListFacts
<1>2. count'[r] \in Nat /\ block'[r] \in Nat /\ count'[r] <= Len(slots'[r])
  BY DEF CachesOK
<1>3. /\ g \in FrameType /\ g.region = r /\ g.self = FALSE /\ g.n = count'[r] /\ g.pos = 1 /\ g.me = 0
      /\ g.block = block'[r] /\ g.inside = FALSE /\ g.ran = zero /\ g.rebuilt = FALSE
  BY <1>1, <1>2 DEF FrameType
<1>4. /\ \A i \in 1 .. count'[r] : Scope(r, slots[r][i])'
      /\ \A i, j \in 1 .. count'[r] : slots'[r][i] = slots'[r][j] => i = j
      /\ \A e \in Entry' : Scope(r, e)' => \E i \in 1 .. count'[r] : slots'[r][i] = e
  BY DEF FreshOK
<1>5. MeOK(g)'
  BY <1>1, <1>3 DEF MeOK
<1>6. AheadOK(g)'
  BY <1>2, <1>3, <1>4 DEF AheadOK, ToRead, Scope
<1>7. VectorRuns(g)'
  <2>1. Done(g)' = 0
    BY <1>3 DEF Done
  <2>2. \A i \in 1 .. count'[r] : slots'[r][i] \in Entry' => zero[slots'[r][i]] = IF i <= 0 THEN 1 ELSE 0
    BY <1>1, <1>2
  <2> QED BY <1>1, <1>3, <1>4, <2>1, <2>2 DEF VectorRuns
<1>8. ListRuns(g)'
  BY <1>3 DEF ListRuns
<1> QED BY <1>3, <1>5, <1>6, <1>7, <1>8 DEF FrameOK

\* What is written over a block: the new slots, and behind them, if a loop may still read
\* them, the old ones.
LEMMA OverwriteFacts ==
  ASSUME NEW S, NEW old \in Seq(S), NEW new \in Seq(S), NEW t,
         t = new \o SubSeq(old, Len(new) + 1, Len(old))
  PROVE  /\ t \in Seq(S)
         /\ Len(t) = IF Len(new) >= Len(old) THEN Len(new) ELSE Len(old)
         /\ \A i \in 1 .. Len(new) : t[i] = new[i]
         /\ \A i \in 1 .. Len(old) : i > Len(new) => t[i] = old[i]
<1>1. PICK rest : rest = SubSeq(old, Len(new) + 1, Len(old))
  OBVIOUS
<1>2. PICK m \in Nat : m = Len(new)
  OBVIOUS
<1>3. PICK n \in Nat : n = Len(old)
  OBVIOUS
<1>4. /\ rest \in Seq(S)
      /\ Len(rest) = IF m >= n THEN 0 ELSE n - m
      /\ \A k \in 1 .. Len(rest) : rest[k] = old[m + k]
  BY <1>1, <1>2, <1>3
<1>5. /\ t \in Seq(S) /\ Len(t) = m + Len(rest)
      /\ \A i \in 1 .. m : t[i] = new[i]
      /\ \A k \in 1 .. Len(rest) : t[m + k] = rest[k]
  <2>1. t = new \o rest /\ rest \in Seq(S)
    BY <1>1, <1>4, Zenon
  <2>2. /\ t \in Seq(S) /\ Len(t) = Len(new) + Len(rest)
        /\ \A i \in 1 .. Len(new) : t[i] = new[i]
        /\ \A k \in 1 .. Len(rest) : t[Len(new) + k] = rest[k]
    <3>1. t \in Seq(S) /\ Len(t) = Len(new) + Len(rest)
      BY <2>1, ConcatType, Zenon
    <3>2. ASSUME NEW i \in 1 .. Len(new) PROVE t[i] = new[i]
      BY <2>1
    <3>3. ASSUME NEW k \in 1 .. Len(rest) PROVE t[Len(new) + k] = rest[k]
      BY <2>1, SMTT(40)
    <3> QED BY <3>1, <3>2, <3>3, Zenon
  <2> QED BY <1>2, <2>2, Zenon
<1>6. ASSUME NEW i \in 1 .. n, i > m PROVE t[i] = old[i]
  <2>1. i - m \in 1 .. Len(rest) /\ m + (i - m) = i
    BY <1>4, <1>6
  <2>2. t[m + (i - m)] = rest[i - m] /\ rest[i - m] = old[m + (i - m)]
    BY <1>4, <1>5, <2>1
  <2> QED BY <2>1, <2>2
<1>7. Len(t) = IF m >= n THEN m ELSE n
  BY <1>4, <1>5
<1>8. \A i \in 1 .. n : i > m => t[i] = old[i]
  BY <1>6
<1> QED BY <1>2, <1>3, <1>5, <1>7, <1>8, Zenon

\* The vector of r is rebuilt.
LEMMA RebuildFacts ==
  ASSUME Inv, NEW r \in Region, NEW moves \in BOOLEAN, UNCHANGED listVars,
         region_rebuild_hook_dispatch(r, moves), NEW F, F = Subtree(r)
  PROVE  /\ CachesOK'
         /\ \A q \in Region : FreshOK(q)'
         /\ fresh'[r]
         /\ \A q \in Region : q # r => slots'[q] = slots[q] /\ block'[q] = block[q]
         /\ ~moves => block'[r] = block[r]
         /\ Len(slots'[r]) \in Nat /\ Len(slots[r]) \in Nat /\ Len(F) \in Nat
         /\ \A i \in 1 .. Len(F) : slots'[r][i] = F[i] /\ Alive(F[i])
         /\ Looped(r) => /\ Len(slots'[r]) >= Len(slots[r])
                         /\ \A i \in 1 .. Len(slots[r]) : i > Len(F) => slots'[r][i] = slots[r][i]
<1>0. ListsOK /\ CachesOK
  BY DEF Inv
<1>1. /\ F \in Seq(Entry)
      /\ \A i \in 1 .. Len(F) : Scope(r, F[i])
      /\ \A i, j \in 1 .. Len(F) : F[i] = F[j] => i = j
      /\ \A e \in Entry : Scope(r, e) => \E i \in 1 .. Len(F) : F[i] = e
  BY <1>0, SubtreeFacts
<1>2. PICK old : old = slots[r]
  OBVIOUS
<1>3. PICK t : t = IF Looped(r) THEN F \o SubSeq(old, Len(F) + 1, Len(old)) ELSE F
  OBVIOUS
<1>4. /\ slots' = [slots EXCEPT ![r] = t]
      /\ count' = [count EXCEPT ![r] = Len(F)]
      /\ cap' = [cap EXCEPT ![r] = Doubled(cap[r], Len(F))]
      /\ block' = [block EXCEPT ![r] = IF moves THEN block[r] + 1 ELSE block[r]]
      /\ fresh' = [fresh EXCEPT ![r] = TRUE]
  BY <1>2, <1>3 DEF region_rebuild_hook_dispatch, Overwrite
<1>5. old \in Seq(Entry) /\ Len(old) \in Nat /\ Len(F) \in Nat /\ cap[r] \in Nat /\ Len(old) <= cap[r]
  <2>1. old \in Seq(Entry) /\ cap[r] \in Nat /\ Len(old) <= cap[r]
    BY <1>0, <1>2 DEF CachesOK
  <2> QED BY <1>1, <2>1
<1>6. /\ t \in Seq(Entry) /\ Len(t) \in Nat
      /\ Len(t) >= Len(F) /\ (Len(t) = Len(F) \/ Len(t) = Len(old))
      /\ \A i \in 1 .. Len(F) : t[i] = F[i]
      /\ Looped(r) => /\ Len(t) >= Len(old)
                      /\ \A i \in 1 .. Len(old) : i > Len(F) => t[i] = old[i]
  <2>1. CASE Looped(r)
    <3>1. t = F \o SubSeq(old, Len(F) + 1, Len(old))
      BY <1>3, <2>1
    <3>2. /\ t \in Seq(Entry)
          /\ Len(t) = IF Len(F) >= Len(old) THEN Len(F) ELSE Len(old)
          /\ \A i \in 1 .. Len(F) : t[i] = F[i]
          /\ \A i \in 1 .. Len(old) : i > Len(F) => t[i] = old[i]
      BY <1>1, <1>5, <3>1, OverwriteFacts
    <3> QED BY <1>5, <3>2
  <2>2. CASE ~Looped(r)
    BY <1>1, <1>3, <1>5, <2>2
  <2> QED BY <2>1, <2>2
<1>7. PICK c \in Nat : c = Doubled(cap[r], Len(F)) /\ c >= cap[r] /\ c >= Len(F)
  BY <1>5, DoubledFacts
<1>8. /\ slots'[r] = t /\ count'[r] = Len(F) /\ cap'[r] = c /\ fresh'[r] = TRUE
      /\ block'[r] = IF moves THEN block[r] + 1 ELSE block[r]
      /\ \A q \in Region : q # r => /\ slots'[q] = slots[q] /\ count'[q] = count[q] /\ cap'[q] = cap[q]
                                   /\ block'[q] = block[q] /\ fresh'[q] = fresh[q]
  BY <1>0, <1>4, <1>7 DEF CachesOK
<1>9. Entry' = Entry /\ (\A e : Alive(e)' <=> Alive(e)) /\ \A q, e : Scope(q, e)' <=> Scope(q, e)
  BY DEF listVars, Entry, Scope, Alive, Above
<1>10. CachesOK'
  <2>1. slots' \in [Region -> Seq(Entry')]
    BY <1>0, <1>4, <1>6, <1>9 DEF CachesOK
  <2>2. count' \in [Region -> Nat] /\ cap' \in [Region -> Nat]
    BY <1>0, <1>4, <1>5, <1>7 DEF CachesOK
  <2>3. block' \in [Region -> Nat] /\ fresh' \in [Region -> BOOLEAN]
    <3>1. (IF moves THEN block[r] + 1 ELSE block[r]) \in Nat
      BY <1>0 DEF CachesOK
    <3> QED BY <1>0, <1>4, <3>1 DEF CachesOK
  <2>4. ASSUME NEW q \in Region PROVE Len(slots'[q]) <= cap'[q] /\ count'[q] <= Len(slots'[q])
    <3>1. CASE q = r
      BY <1>5, <1>6, <1>7, <1>8, <3>1
    <3>2. CASE q # r
      BY <1>0, <1>8, <3>2 DEF CachesOK
    <3> QED BY <3>1, <3>2
  <2> QED BY <2>1, <2>2, <2>3, <2>4 DEF CachesOK
<1>11. ASSUME NEW q \in Region PROVE FreshOK(q)'
  <2>1. CASE q = r
    <3>1. \A i \in 1 .. count'[r] : Scope(r, slots'[r][i])
      BY <1>1, <1>6, <1>8
    <3>2. \A i, j \in 1 .. count'[r] : slots'[r][i] = slots'[r][j] => i = j
      BY <1>1, <1>6, <1>8
    <3>3. \A e \in Entry : Scope(r, e) => \E i \in 1 .. count'[r] : slots'[r][i] = e
      BY <1>1, <1>6, <1>8
    <3> QED BY <1>9, <2>1, <3>1, <3>2, <3>3 DEF FreshOK, Scope, Alive, Above, listVars
  <2>2. CASE q # r
    <3>1. FreshOK(q) /\ slots'[q] = slots[q] /\ count'[q] = count[q] /\ fresh'[q] = fresh[q]
      BY <1>8, <2>2 DEF Inv
    <3> QED BY <1>9, <3>1 DEF FreshOK, Scope, Alive, Above, listVars
  <2> QED BY <2>1, <2>2
<1>12. \A i \in 1 .. Len(F) : slots'[r][i] = F[i] /\ Alive(F[i])
  BY <1>1, <1>6, <1>8 DEF Scope
<1> QED BY <1>2, <1>5, <1>6, <1>8, <1>10, <1>11, <1>12

\* A loop over a vector starts in front of all live modules of the subtree; the
\* loops below that lose their vector to a rebuild are marked.
LEMMA CallKeeps ==
  ASSUME Inv, NEW r \in Region, NEW moves \in BOOLEAN, xy_call(r, moves)
  PROVE  Inv'
<1>1. MayCall /\ UNCHANGED listVars /\ ListsOK /\ CachesOK
  BY DEF xy_call, Inv
<1>2. PICK zero : zero = [e \in Entry |-> 0]
  OBVIOUS
<1>3. PICK g : g = [region |-> r, self |-> FALSE, n |-> count'[r], pos |-> 1, me |-> 0,
                    block |-> block'[r], inside |-> FALSE, ran |-> zero, rebuilt |-> FALSE]
  OBVIOUS
<1>4. PICK base : base = MarkRebuilt(r)
  OBVIOUS
<1>5. stack' = Append(base, g)
  BY <1>2, <1>3, <1>4 DEF xy_call, Frame
<1>6. ASSUME NEW d \in 1 .. Depth
      PROVE  /\ base[d] = IF stack[d].region = r /\ ~stack[d].self /\ ~fresh[r]
                          THEN [stack[d] EXCEPT !.rebuilt = TRUE, !.ran = <<>>] ELSE stack[d]
             /\ base[d] \in FrameType
             /\ base[d].inside
  <2>1. PICK f \in FrameType : f = stack[d]
    BY StackFacts
  <2>2. base[d] = IF f.region = r /\ ~f.self /\ ~fresh[r]
                  THEN [f EXCEPT !.rebuilt = TRUE, !.ran = <<>>] ELSE f
    BY <1>4, <2>1 DEF MarkRebuilt
  <2>3. f.inside
    BY <1>1, <2>1, StackFacts
  <2>4. PICK h : h = [f EXCEPT !.rebuilt = TRUE, !.ran = <<>>]
    OBVIOUS
  <2>5. h \in FrameType /\ h.inside
    <3>1. <<>> \in Seq(Nat)
      OBVIOUS
    <3> QED BY <2>3, <2>4, <3>1 DEF FrameType
  <2> QED BY <2>1, <2>2, <2>3, <2>4, <2>5
<1>7. base \in Seq(FrameType) /\ Len(base) = Depth
  <2>1. PICK n \in Nat : n = Depth
    BY StackFacts
  <2>2. base \in [1 .. n -> FrameType]
    <3>1. base = [d \in 1 .. n |-> base[d]]
      BY <1>4, <2>1 DEF MarkRebuilt
    <3> QED BY <1>6, <2>1, <3>1
  <2> QED BY <2>1, <2>2
<1>8. CASE fresh[r]
  <2>1. UNCHANGED cacheVars
    BY <1>8 DEF xy_call
  <2>2. ListsOK' /\ CachesOK' /\ \A q \in Region : FreshOK(q)'
    BY <1>1, <2>1, Unmoved DEF Inv
  <2>3. fresh'[r]
    BY <1>8, <2>1 DEF cacheVars
  <2>4. g \in FrameType /\ FrameOK(g)'
    BY <1>1, <1>2, <1>3, <2>2, <2>3, NewFrame
  <2>5. ASSUME NEW d \in 1 .. Depth PROVE FrameOK(base[d])'
    <3>1. FrameOK(base[d])
      BY <1>6, <1>8 DEF Inv
    <3> QED BY <1>1, <2>1, <3>1, Unmoved
  <2> QED BY <1>5, <1>6, <1>7, <2>2, <2>4, <2>5, PushKeeps
<1>9. CASE ~fresh[r]
  <2>1. MaySettle(r, moves) /\ region_rebuild_hook_dispatch(r, moves)
    BY <1>9 DEF xy_call
  <2>2. PICK F : F = Subtree(r)
    OBVIOUS
  <2>3. /\ CachesOK'
        /\ \A q \in Region : FreshOK(q)'
        /\ fresh'[r]
        /\ \A q \in Region : q # r => slots'[q] = slots[q] /\ block'[q] = block[q]
        /\ ~moves => block'[r] = block[r]
        /\ Len(slots'[r]) \in Nat /\ Len(slots[r]) \in Nat /\ Len(F) \in Nat
        /\ \A i \in 1 .. Len(F) : slots'[r][i] = F[i] /\ Alive(F[i])
        /\ Looped(r) => /\ Len(slots'[r]) >= Len(slots[r])
                        /\ \A i \in 1 .. Len(slots[r]) : i > Len(F) => slots'[r][i] = slots[r][i]
    BY <1>1, <2>1, <2>2, RebuildFacts
  <2>4. /\ mods' = mods /\ home' = home /\ Entry' = Entry
        /\ (\A e : Alive(e)' <=> Alive(e)) /\ \A q, e : Scope(q, e)' <=> Scope(q, e)
    BY <1>1 DEF listVars, Entry, Scope, Alive, Above
  <2>5. ListsOK'
    BY <1>1, <2>4 DEF ListsOK
  <2>6. g \in FrameType /\ FrameOK(g)'
    BY <1>1, <1>2, <1>3, <2>3, NewFrame
  <2>7. ASSUME NEW d \in 1 .. Depth PROVE FrameOK(base[d])'
    <3>1. PICK f \in FrameType : f = stack[d]
      BY StackFacts
    <3>2. PICK k \in FrameType : k = base[d]
      BY <1>6
    <3>3. FrameOK(f) /\ f.region \in Region /\ f.n \in Nat /\ f.pos \in Nat \ {0} /\ f.self \in BOOLEAN
      BY <3>1 DEF Inv, FrameType
    <3>4. CASE f.region = r /\ ~f.self
      <4>1. k = [f EXCEPT !.rebuilt = TRUE, !.ran = <<>>]
        BY <1>6, <1>9, <3>1, <3>2, <3>4
      <4>2. /\ k.region = r /\ k.self = FALSE /\ k.n = f.n /\ k.pos = f.pos /\ k.me = f.me
            /\ k.block = f.block /\ k.inside = f.inside /\ k.ran = <<>> /\ k.rebuilt = TRUE
        BY <3>4, <4>1 DEF FrameType
      <4>3. Looped(r)
        BY <3>1, <3>4 DEF Looped
      <4>4. f.n <= Len(slots[r])
        BY <3>3, <3>4 DEF FrameOK, AheadOK
      <4>5. MeOK(k)'
        BY <2>4, <3>3, <4>2 DEF FrameOK, MeOK, Alive
      <4>6. AheadOK(k)'
        <5>1. k.n <= Len(slots'[r])
          BY <2>3, <3>3, <4>2, <4>3, <4>4
        <5>2. ToRead(k)' = ToRead(f)
          BY <3>4, <4>2 DEF ToRead
        <5>3. ASSUME Careful, ToRead(f) # {} PROVE k.block = block'[r]
          <6>1. ~moves
            BY <2>1, <3>1, <3>4, <5>3 DEF MaySettle
          <6>2. f.block = block[r]
            BY <3>3, <3>4, <5>3 DEF FrameOK, AheadOK
          <6> QED BY <2>3, <4>2, <6>1, <6>2
        <5>4. ASSUME Careful, NEW i \in ToRead(f) PROVE Alive(slots'[r][i])
          <6>1. Alive(slots[r][i])
            BY <3>3, <3>4, <5>4 DEF FrameOK, AheadOK
          <6>2. i \in 1 .. Len(slots[r])
            BY <2>3, <3>3, <3>4, <4>4 DEF ToRead
          <6>3. CASE i <= Len(F)
            <7>1. i \in 1 .. Len(F)
              BY <2>3, <6>2, <6>3
            <7> QED BY <2>3, <7>1
          <6>4. CASE ~(i <= Len(F))
            <7>1. i > Len(F)
              BY <2>3, <6>2, <6>4
            <7> QED BY <2>3, <4>3, <6>1, <6>2, <7>1
          <6> QED BY <6>3, <6>4
        <5>5. ASSUME Careful, NEW i \in ToRead(f) PROVE Alive(slots[r][i])'
          <6>1. PICK x : x = slots'[r][i]
            OBVIOUS
          <6>2. Alive(x)'
            BY <2>4, <5>4, <5>5, <6>1
          <6> QED BY <6>1, <6>2
        <5>6. ASSUME Careful, ToRead(k)' # {}
              PROVE  k.block = block'[k.region] /\ \A i \in ToRead(k)' : Alive(slots[k.region][i])'
          BY <4>2, <5>2, <5>3, <5>5, <5>6
        <5> QED BY <4>2, <5>1, <5>6 DEF AheadOK
      <4>7. VectorRuns(k)' /\ ListRuns(k)'
        BY <4>2 DEF VectorRuns, ListRuns
      <4>8. FrameOK(k)'
        BY <4>5, <4>6, <4>7 DEF FrameOK
      <4> QED BY <3>2, <4>8
    <3>5. CASE ~(f.region = r /\ ~f.self)
      <4>1. k = f
        BY <1>6, <3>1, <3>2, <3>5
      <4>2. ~f.self => slots'[f.region] = slots[f.region] /\ block'[f.region] = block[f.region]
        BY <2>3, <3>3, <3>5
      <4>3. MeOK(f)'
        BY <2>4, <3>3 DEF FrameOK, MeOK, Alive
      <4>4. AheadOK(f)'
        BY <2>4, <3>3, <4>2 DEF FrameOK, AheadOK, ToRead, Alive
      <4>5. VectorRuns(f)'
        BY <2>4, <3>3, <4>2 DEF FrameOK, VectorRuns, Done
      <4>6. ListRuns(f)'
        BY <2>4, <3>3 DEF FrameOK, ListRuns, Precedes
      <4>7. FrameOK(f)'
        BY <4>3, <4>4, <4>5, <4>6 DEF FrameOK
      <4> QED BY <3>2, <4>1, <4>7
    <3> QED BY <3>4, <3>5
  <2> QED BY <1>5, <1>6, <1>7, <2>3, <2>5, <2>6, <2>7, PushKeeps
<1>10. fresh[r] \in BOOLEAN
  BY <1>1 DEF CachesOK
<1> QED BY <1>8, <1>9, <1>10

(***************************************************************************)
(* Theorems                                                                *)
(***************************************************************************)

\* Nothing is loaded and no loop runs.
LEMMA InitInv == Init => Inv
<1> SUFFICES ASSUME Init PROVE Inv
  OBVIOUS
<1>1. /\ mods = [r \in Region |-> <<>>] /\ home = <<>> /\ slots = [r \in Region |-> <<>>]
      /\ count = [r \in Region |-> 0] /\ cap = [r \in Region |-> 0] /\ block = [r \in Region |-> 0]
      /\ fresh = [r \in Region |-> FALSE] /\ stack = <<>>
  BY DEF Init
<1>2. Len(home) = 0 /\ Entry = {} /\ Depth = 0
  BY <1>1 DEF Entry, Depth
<1>3. ListsOK
  BY <1>1, <1>2 DEF ListsOK
<1>4. CachesOK
  BY <1>1, <1>2 DEF CachesOK
<1>5. StackOK /\ \A d \in 1 .. Depth : FrameOK(stack[d])
  BY <1>1, <1>2 DEF StackOK
<1>6. \A r \in Region : FreshOK(r)
  BY <1>1 DEF FreshOK
<1> QED BY <1>3, <1>4, <1>5, <1>6 DEF Inv

\* One case per operation.
LEMMA StepInv == Inv /\ [Next]_vars => Inv'
<1> SUFFICES ASSUME Inv, [Next]_vars PROVE Inv'
  OBVIOUS
<1>1. CASE \E r \in Region, moves \in BOOLEAN : xy_call(r, moves)
  BY <1>1, CallKeeps
<1>2. CASE \E r \in Region : xy_call_self(r)
  BY <1>2, CallSelfKeeps
<1>3. CASE Enter
  BY <1>3, EnterKeeps
<1>4. CASE Leave
  BY <1>4, LeaveKeeps
<1>5. CASE Finish
  BY <1>5, FinishKeeps
<1>6. CASE \E r \in Region : mod_load(r)
  BY <1>6, LoadStep, ListStepKeeps
<1>7. CASE \E e \in Entry : mod_unload(e)
  BY <1>7, UnloadStep, ListStepKeeps
<1>8. CASE \E e \in Entry : xy_reload(e)
  BY <1>8, ReloadStep, ListStepKeeps
<1>9. CASE UNCHANGED vars
  <2>1. UNCHANGED <<listVars, cacheVars>> /\ stack' = stack /\ Depth' = Depth
    BY <1>9 DEF vars, Depth
  <2>2. ListsOK' /\ CachesOK' /\ \A r \in Region : FreshOK(r)'
    BY <2>1, Unmoved DEF Inv
  <2>3. StackOK'
    BY <2>1 DEF Inv, StackOK
  <2>4. ASSUME NEW d \in 1 .. Depth PROVE FrameOK(stack[d])'
    <3>1. PICK f : f = stack[d]
      OBVIOUS
    <3>2. FrameOK(f)'
      BY <2>1, <3>1, Unmoved DEF Inv
    <3> QED BY <2>1, <3>1, <3>2
  <2> QED BY <2>1, <2>2, <2>3, <2>4 DEF Inv
<1> QED BY <1>1, <1>2, <1>3, <1>4, <1>5, <1>6, <1>7, <1>8, <1>9 DEF Next

\* The invariant holds in every reachable state.
LEMMA Invariance == Spec => []Inv
BY InitInv, StepInv, PTL DEF Spec

\* Type correctness: an entry is on one list at most, and a vector never outgrows its
\* block, for every tree of regions, every number of modules and any depth of calls.
THEOREM TypeCorrect == Spec => []TypeOK
<1>1. Inv => TypeOK
  BY DEF Inv, ListsOK, CachesOK, TypeOK
<1> QED BY <1>1, Invariance, PTL

\* If the program does not free what a running loop has still to reach or the entry a loop
\* over a list is at, and makes no call that moves the vector of a loop, every step of a loop
\* of xy_dispatch reads a block and an entry that are not freed: also the step behind a
\* listener, and also where listeners unload or reload themselves.
THEOREM LoopReadsAliveCorrect ==
  ASSUME Careful
  PROVE  Spec => []LoopReadsAlive
<1>1. Inv => LoopReadsAlive
  <2> SUFFICES ASSUME Inv, stack # <<>> PROVE ReadsAlive
    BY DEF LoopReadsAlive
  <2>1. PICK f \in FrameType : f = Top
    BY StackFacts
  <2>2. FrameOK(f)
    BY <2>1, StackFacts DEF Inv
  <2>3. f.pos \in Nat /\ f.n \in Nat /\ f.self \in BOOLEAN
    BY DEF FrameType
  <2>4. CASE f.self
    BY <2>1, <2>2, <2>4 DEF ReadsAlive, FrameOK, MeOK
  <2>5. CASE ~f.self
    <3> SUFFICES ASSUME AtModule
                 PROVE  f.block = block[f.region] /\ Alive(slots[f.region][f.pos])
      BY <2>1, <2>5 DEF ReadsAlive
    <3>1. ~f.inside /\ f.pos <= f.n
      BY <2>1, <2>5 DEF AtModule
    <3>2. f.pos \in ToRead(f)
      BY <2>3, <2>5, <3>1 DEF ToRead
    <3> QED BY <2>2, <3>2 DEF FrameOK, AheadOK
  <2> QED BY <2>3, <2>4, <2>5
<1> QED BY <1>1, Invariance, PTL

\* Under the same care nothing that a running loop has still to read is unloaded: what the
\* documentation promises of xy_unload holds for such programs, and the run that refutes
\* it needs one that is not careful.
THEOREM UnloadInvalidatesCorrect ==
  ASSUME Careful
  PROVE  Spec => []UnloadInvalidates
<1>1. Inv => UnloadInvalidates
  <2> SUFFICES ASSUME Inv, NEW d \in 1 .. Depth, NEW e \in Ahead(d) PROVE Alive(e)
    BY DEF UnloadInvalidates
  <2>1. PICK i \in ToRead(stack[d]) : e = slots[stack[d].region][i]
    BY DEF Ahead
  <2> QED BY <2>1 DEF Inv, FrameOK, AheadOK
<1> QED BY <1>1, Invariance, PTL

\* Careful or not: a call runs every module of its scope that is alive from its beginning
\* to its end exactly once, whatever is loaded, unloaded and reloaded around it, unless
\* a nested call rebuilds the vector under it.  (Where a loop would read freed memory the
\* model stops: nothing is said of such a call.)
THEOREM AllRanOnceCorrect == Spec => []AllRanOnce
<1>1. Inv => AllRanOnce
  <2> SUFFICES ASSUME Inv, stack # <<>>, ~Top.inside, ~AtModule, ~Top.rebuilt,
                      NEW e \in DOMAIN Top.ran, Alive(e),
                      IF Top.self THEN home[e] = Top.region ELSE Top.region \in Above(home[e])
               PROVE  Top.ran[e] = 1
    BY DEF AllRanOnce
  <2>1. PICK f \in FrameType : f = Top
    BY StackFacts
  <2>2. FrameOK(f)
    BY <2>1, StackFacts DEF Inv
  <2>3. /\ ~f.inside /\ ~f.rebuilt /\ (f.self => f.me = 0) /\ (~f.self => ~(f.pos <= f.n))
        /\ f.pos \in Nat /\ f.n \in Nat /\ f.self \in BOOLEAN /\ e \in DOMAIN f.ran
        /\ IF f.self THEN home[e] = f.region ELSE f.region \in Above(home[e])
    BY <2>1 DEF AtModule, FrameType
  <2>4. CASE f.self
    BY <2>1, <2>2, <2>3, <2>4 DEF FrameOK, ListRuns
  <2>5. CASE ~f.self
    <3>1. VectorRuns(f) /\ Scope(f.region, e)
      BY <2>2, <2>3, <2>5 DEF FrameOK, Scope
    <3>2. PICK i \in 1 .. f.n : slots[f.region][i] = e
      BY <2>3, <2>5, <3>1 DEF VectorRuns
    <3>3. i <= Done(f)
      BY <2>3, <2>5 DEF Done
    <3>4. f.ran[e] = 1
      BY <2>3, <2>5, <3>1, <3>2, <3>3 DEF VectorRuns
    <3> QED BY <2>1, <3>4
  <2> QED BY <2>3, <2>4, <2>5
<1> QED BY <1>1, Invariance, PTL
===============================================================================
