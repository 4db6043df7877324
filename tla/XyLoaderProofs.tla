---------------------------- MODULE XyLoaderProofs ----------------------------
(***************************************************************************)
(* Proofs about XyLoader, for any number of addresses, libraries, regions  *)
(* and references, and installs nested to any depth.                       *)
(***************************************************************************)
EXTENDS XyLoader, XySeqProofs

(***************************************************************************)
(* The inductive invariant.  The tables are passed as values, because a    *)
(* reload goes through tables that are never the state: R regions, e       *)
(* entries, hd the module table, ms the lists.                             *)
(***************************************************************************)

KeyOf(e, a) == <<e[a].so, e[a].region>>

Types(R, e, hd, ms) ==
  /\ R \subseteq Region
  /\ DOMAIN e \subseteq Addr
  /\ \A a \in DOMAIN e : e[a] \in Entry /\ e[a].region \in R
  /\ DOMAIN hd \subseteq Key
  /\ ms \in [Region -> Seq(Addr)]

\* Table and entries name each other.
HdExact(e, hd) ==
  /\ \A k \in DOMAIN hd : hd[k] \in DOMAIN e /\ k = KeyOf(e, hd[k])
  /\ \A a \in DOMAIN e : KeyOf(e, a) \in DOMAIN hd /\ hd[KeyOf(e, a)] = a

\* A list has no address twice.
Once(l) == \A i, j \in DOMAIN l : l[i] = l[j] => i = j

\* The list of region r has the entries of that region, each once.
ListExact(e, l, r) ==
  /\ \A a \in DOMAIN e : e[a].region = r => IsIn(l, a)
  /\ \A i \in DOMAIN l : l[i] \in DOMAIN e /\ e[l[i]].region = r
  /\ Once(l)

\* The counts cover the references; more than one means a second load.
Counts(e) ==
  \A a \in DOMAIN e :
    /\ e[a].refcount >= e[a].host + IF e[a].parent_entry \in DOMAIN e THEN 1 ELSE 0
    /\ e[a].refcount > 1 => e[a].outlives
    /\ e[a].parent_entry \notin DOMAIN e \cup {NULL} => e[a].outlives

\* a, and what was loaded by it, by its children, and so on.
Below(e, S) == \A d \in DOMAIN e : e[d].parent_entry \in S => d \in S
Reach(e, a) == {c \in DOMAIN e : \A S \in SUBSET DOMAIN e : a \in S /\ Below(e, S) => c \in S}

\* Nothing stands before the module that loaded it, or that loaded its loader.
Ordered(e, l) == \A x, y \in DOMAIN e : Precedes(l, x, y) => x \notin Reach(e, y)

Good(R, e, hd, ms) ==
  /\ Types(R, e, hd, ms)
  /\ HdExact(e, hd)
  /\ \A r \in Region : ListExact(e, ms[r], r) /\ Ordered(e, ms[r])
  /\ Counts(e)

\* x is at a position of the list l or before it.
UpTo(l, x, after) == after # NULL /\ (x = after \/ Precedes(l, x, after))

\* The installs fs that run: their modules are there.  Only the outermost can be that of
\* a reload; then no other module has its library and the old region, and what stands up
\* to the remembered position was there before it.
Running(e, hd, ms, fs) ==
  /\ \A i \in DOMAIN fs : fs[i] \in Frame /\ fs[i].mod \in DOMAIN e
  /\ \A i \in DOMAIN fs : fs[i].region = NoRegion => fs[i].after = NULL
  /\ \A i \in DOMAIN fs : fs[i].region # NoRegion =>
       LET k == <<e[fs[i].mod].so, fs[i].region>>
           l == ms[fs[i].region]
       IN /\ i = 1
          /\ e[fs[i].mod].parent_entry = NULL
          /\ k \in DOMAIN hd => hd[k] = fs[i].mod
          /\ fs[i].after # NULL => IsIn(l, fs[i].after)
          /\ \A x \in DOMAIN e : UpTo(l, x, fs[i].after) => x \notin Reach(e, fs[i].mod)

IInv ==
  /\ gated \subseteq regions
  /\ Good(regions, entry, mod_hd, mods)
  /\ frames \in Seq(Frame)
  /\ Running(entry, mod_hd, mods, frames)

(***************************************************************************)
(* Lists                                                                   *)
(***************************************************************************)

\* The position of an element of a list.
LEMMA PositionFacts ==
  ASSUME NEW l, NEW a, IsIn(l, a)
  PROVE  Position(l, a) \in DOMAIN l /\ l[Position(l, a)] = a
BY DEF IsIn, Position

\* Where the elements are after an insertion.
LEMMA InsertFacts ==
  ASSUME NEW l \in Seq(Addr), NEW a \in Addr, NEW p \in 1 .. Len(l) + 1
  PROVE  /\ InsertAt(l, p, a) \in Seq(Addr)
         /\ DOMAIN InsertAt(l, p, a) = 1 .. Len(l) + 1
         /\ \A i \in 1 .. Len(l) + 1 :
              InsertAt(l, p, a)[i] = IF i < p THEN l[i] ELSE IF i = p THEN a ELSE l[i - 1]
<1>1. Len(l) \in Nat /\ p \in Nat /\ p >= 1 /\ p - 1 <= Len(l)
  OBVIOUS
<1> DEFINE u == SubSeq(l, 1, p - 1)
           v == SubSeq(l, p, Len(l))
<1>2. u \in Seq(Addr) /\ Len(u) = p - 1 /\ \A i \in 1 .. p - 1 : u[i] = l[i]
  BY <1>1
<1>3. v \in Seq(Addr) /\ Len(v) = Len(l) - p + 1 /\ \A i \in 1 .. Len(l) - p + 1 : v[i] = l[p + i - 1]
  BY <1>1
<1>4. InsertAt(l, p, a) = (u \o <<a>>) \o v
  BY DEF InsertAt
<1> HIDE DEF u, v
<1> DEFINE w == u \o <<a>>
<1>5. w \in Seq(Addr) /\ Len(w) = p /\ w[p] = a /\ \A i \in 1 .. p - 1 : w[i] = u[i]
  BY <1>1, <1>2
<1> HIDE DEF w
<1>6. w \o v \in Seq(Addr) /\ DOMAIN (w \o v) = 1 .. Len(l) + 1
  <2>1. w \in Seq(Addr) /\ v \in Seq(Addr)
    BY <1>3, <1>5
  <2>2. w \o v \in Seq(Addr) /\ Len(w \o v) = Len(w) + Len(v)
    BY <2>1
  <2>3. Len(w) + Len(v) = Len(l) + 1
    BY <1>1, <1>3, <1>5
  <2> QED BY <2>2, <2>3
<1>7. ASSUME NEW i \in 1 .. Len(l) + 1
      PROVE  (w \o v)[i] = IF i < p THEN l[i] ELSE IF i = p THEN a ELSE l[i - 1]
  <2>1. CASE i <= p
    <3>1. i \in 1 .. Len(w)
      BY <1>1, <1>5, <2>1
    <3>2. (w \o v)[i] = w[i]
      BY <1>3, <1>5, <3>1
    <3>3. i < p => i \in 1 .. p - 1
      BY <1>1
    <3>4. i < p => w[i] = l[i]
      BY <1>2, <1>5, <3>3
    <3> QED BY <1>1, <1>5, <2>1, <3>2, <3>4
  <2>2. CASE i > p
    <3>1. (w \o v)[i] = v[i - p]
      BY <1>1, <1>3, <1>5, <2>2
    <3>2. i - p \in 1 .. Len(l) - p + 1 /\ p + (i - p) - 1 = i - 1
      BY <1>1, <2>2
    <3>3. v[i - p] = l[i - 1]
      BY <1>3, <3>2
    <3> QED BY <1>1, <2>2, <3>1, <3>3
  <2>3. i <= p \/ i > p
    BY <1>1
  <2> QED BY <2>1, <2>2, <2>3, Zenon
<1> QED BY <1>4, <1>6, <1>7 DEF w

\* An insertion adds one element and keeps the order of the others.
LEMMA InsertOrder ==
  ASSUME NEW l \in Seq(Addr), NEW a \in Addr, NEW p \in 1 .. Len(l) + 1, Once(l), ~IsIn(l, a)
  PROVE  /\ Once(InsertAt(l, p, a))
         /\ \A x : IsIn(InsertAt(l, p, a), x) <=> x = a \/ IsIn(l, x)
         /\ \A x, y : Precedes(InsertAt(l, p, a), x, y) =>
              \/ x # a /\ y # a /\ Precedes(l, x, y)
              \/ y = a /\ \E i \in DOMAIN l : i < p /\ l[i] = x
              \/ x = a /\ \E i \in DOMAIN l : i >= p /\ l[i] = y
<1>0. Len(l) \in Nat /\ p \in Nat /\ DOMAIN l = 1 .. Len(l)
  OBVIOUS
<1> DEFINE m == InsertAt(l, p, a)
           old(i) == IF i < p THEN i ELSE i - 1
<1>1. DOMAIN m = 1 .. Len(l) + 1 /\ m[p] = a
  BY <1>0, InsertFacts
<1>2. ASSUME NEW i \in DOMAIN m, i # p
      PROVE  old(i) \in DOMAIN l /\ m[i] = l[old(i)] /\ m[i] # a
  <2>1. old(i) \in DOMAIN l
    BY <1>0, <1>1, <1>2
  <2>2. m[i] = l[old(i)]
    <3> HIDE DEF m
    <3>1. \A j \in 1 .. Len(l) + 1 : m[j] = IF j < p THEN l[j] ELSE IF j = p THEN a ELSE l[j - 1]
      BY InsertFacts DEF m
    <3>2. i < p \/ i > p
      BY <1>0, <1>1, <1>2
    <3> QED BY <1>0, <1>1, <3>1, <3>2
  <2> QED BY <2>1, <2>2 DEF IsIn
<1>3. ASSUME NEW i \in DOMAIN l PROVE \E j \in DOMAIN m : j # p /\ m[j] = l[i]
  <2>1. CASE i < p
    <3>1. i \in DOMAIN m /\ i # p /\ old(i) = i
      BY <1>0, <1>1, <2>1
    <3> QED BY <1>2, <3>1
  <2>2. CASE i >= p
    <3>1. i + 1 \in DOMAIN m /\ i + 1 # p /\ old(i + 1) = i
      BY <1>0, <1>1, <2>2
    <3> QED BY <1>2, <3>1
  <2> QED BY <1>0, <2>1, <2>2
<1> HIDE DEF m
<1>4. Once(m)
  <2> SUFFICES ASSUME NEW i \in DOMAIN m, NEW j \in DOMAIN m, m[i] = m[j] PROVE i = j
    BY DEF Once
  <2>1. CASE i = p \/ j = p
    BY <1>1, <1>2, <2>1
  <2>2. CASE i # p /\ j # p
    <3>1. old(i) = old(j)
      <4> HIDE DEF old
      <4> QED BY <1>2, <2>2 DEF Once
    <3> QED BY <1>0, <1>1, <2>2, <3>1
  <2> QED BY <2>1, <2>2
<1>5. ASSUME NEW x PROVE IsIn(m, x) <=> x = a \/ IsIn(l, x)
  <2>1. p \in DOMAIN m
    BY <1>0, <1>1
  <2> HIDE DEF old
  <2> QED BY <1>1, <1>2, <1>3, <2>1 DEF IsIn
<1>6. ASSUME NEW x, NEW y, Precedes(m, x, y)
      PROVE  \/ x # a /\ y # a /\ Precedes(l, x, y)
             \/ y = a /\ \E i \in DOMAIN l : i < p /\ l[i] = x
             \/ x = a /\ \E i \in DOMAIN l : i >= p /\ l[i] = y
  <2>1. PICK i, j \in DOMAIN m : i < j /\ m[i] = x /\ m[j] = y
    BY <1>6 DEF Precedes
  <2>2. CASE i = p
    <3>1. j # p /\ old(j) >= p
      BY <1>0, <1>1, <2>1, <2>2
    <3> HIDE DEF old
    <3> QED BY <1>1, <1>2, <2>1, <2>2, <3>1
  <2>3. CASE j = p
    <3>1. i # p /\ old(i) < p
      BY <1>0, <1>1, <2>1, <2>3
    <3> HIDE DEF old
    <3> QED BY <1>1, <1>2, <2>1, <2>3, <3>1
  <2>4. CASE i # p /\ j # p
    <3>1. old(i) < old(j)
      BY <1>0, <1>1, <2>1, <2>4
    <3> HIDE DEF old
    <3> QED BY <1>2, <2>1, <2>4, <3>1 DEF Precedes
  <2> QED BY <2>2, <2>3, <2>4
<1> QED BY <1>4, <1>5, <1>6 DEF m

\* A module that is appended stands behind all others.
LEMMA AppendFacts ==
  ASSUME NEW l \in Seq(Addr), NEW a \in Addr, Once(l), ~IsIn(l, a)
  PROVE  /\ module_region_append(l, a) \in Seq(Addr)
         /\ Once(module_region_append(l, a))
         /\ \A x : IsIn(module_region_append(l, a), x) <=> x = a \/ IsIn(l, x)
         /\ \A x, y : Precedes(module_region_append(l, a), x, y) =>
              x # a /\ (y = a \/ Precedes(l, x, y))
<1>1. Len(l) \in Nat /\ DOMAIN l = 1 .. Len(l)
  OBVIOUS
<1>2. module_region_append(l, a) = InsertAt(l, Len(l) + 1, a)
  <2>1. CASE l = <<>>
    <3>1. module_region_append(l, a) = InsertAt(l, 1, a)
      BY <2>1 DEF module_region_append, module_region_insert_after
    <3> QED BY <2>1, <3>1
  <2>2. CASE l # <<>>
    <3>1. Len(l) \in DOMAIN l /\ Last(l) = l[Len(l)] /\ Last(l) # NULL /\ IsIn(l, Last(l))
      <4>1. Len(l) \in DOMAIN l
        BY <1>1, <2>2
      <4>2. l[Len(l)] \in Addr
        BY <4>1
      <4> QED BY <4>1, <4>2, AddrAssumption DEF IsIn, Last
    <3>2. Position(l, Last(l)) = Len(l)
      BY <3>1, PositionFacts DEF Once
    <3> QED BY <2>2, <3>1, <3>2 DEF module_region_append, module_region_insert_after
  <2> QED BY <2>1, <2>2
<1>3. Len(l) + 1 \in 1 .. Len(l) + 1
  BY <1>1
<1>4. InsertAt(l, Len(l) + 1, a) \in Seq(Addr)
  BY <1>3, InsertFacts
<1>5. /\ Once(InsertAt(l, Len(l) + 1, a))
      /\ \A x : IsIn(InsertAt(l, Len(l) + 1, a), x) <=> x = a \/ IsIn(l, x)
      /\ \A x, y : Precedes(InsertAt(l, Len(l) + 1, a), x, y) =>
              \/ x # a /\ y # a /\ Precedes(l, x, y)
              \/ y = a /\ \E i \in DOMAIN l : i < Len(l) + 1 /\ l[i] = x
              \/ x = a /\ \E i \in DOMAIN l : i >= Len(l) + 1 /\ l[i] = y
  BY <1>3, InsertOrder
<1>6. \A i \in DOMAIN l : ~(i >= Len(l) + 1) /\ l[i] # a
  BY <1>1 DEF IsIn
<1> QED BY <1>2, <1>4, <1>5, <1>6

\* A module that is taken out and put behind another one, or first: the others keep
\* their order, it stands behind what stands up to that one, and before the rest.
LEMMA MoveFacts ==
  ASSUME NEW l \in Seq(Addr), NEW a \in Addr, NEW after, Once(l), IsIn(l, a),
         after # NULL => IsIn(l, after) /\ after # a
  PROVE  LET m == module_region_insert_after(module_region_detach(l, a), a, after)
         IN /\ m \in Seq(Addr)
            /\ Once(m)
            /\ \A x : IsIn(m, x) <=> IsIn(l, x)
            /\ \A x, y : Precedes(m, x, y) =>
                 \/ x # a /\ y # a /\ Precedes(l, x, y)
                 \/ y = a /\ UpTo(l, x, after)
                 \/ x = a /\ y # a /\ IsIn(l, y) /\ (after # NULL => Precedes(l, after, y))
<1> DEFINE d == module_region_detach(l, a)
           p == IF after = NULL THEN 1 ELSE Position(d, after) + 1
           m == InsertAt(d, p, a)
<1>1. /\ d \in Seq(Addr)
      /\ \A j \in DOMAIN d : d[j] \in Addr \ {a} /\ \E i \in DOMAIN l : l[i] = d[j]
      /\ \A i \in DOMAIN l : l[i] \in Addr \ {a} => \E j \in DOMAIN d : d[j] = l[i]
      /\ Once(d)
  BY FilterFacts DEF module_region_detach, Once
<1>2. \A x, y : Precedes(d, x, y) => Precedes(l, x, y)
  BY FilterOrder DEF module_region_detach
<1>3. \A x : IsIn(d, x) <=> IsIn(l, x) /\ x # a
  <2>1. \A i \in DOMAIN l : l[i] \in Addr
    OBVIOUS
  <2> HIDE DEF d
  <2> QED BY <1>1, <2>1 DEF IsIn
<1>4. module_region_insert_after(d, a, after) = m
  BY DEF module_region_insert_after
<1> HIDE DEF d
<1>5. Len(d) \in Nat /\ DOMAIN d = 1 .. Len(d)
  BY <1>1
<1>6. after # NULL => Position(d, after) \in DOMAIN d /\ d[Position(d, after)] = after
  BY <1>3, PositionFacts
<1>7. p \in 1 .. Len(d) + 1
  BY <1>5, <1>6
<1>8. ~IsIn(d, a)
  BY <1>3
<1>9. m \in Seq(Addr)
  <2> HIDE DEF p
  <2> QED BY <1>1, <1>7, InsertFacts
<1>10. /\ Once(m)
       /\ \A x : IsIn(m, x) <=> x = a \/ IsIn(d, x)
       /\ \A x, y : Precedes(m, x, y) =>
            \/ x # a /\ y # a /\ Precedes(d, x, y)
            \/ y = a /\ \E i \in DOMAIN d : i < p /\ d[i] = x
            \/ x = a /\ \E i \in DOMAIN d : i >= p /\ d[i] = y
  <2> HIDE DEF p
  <2> QED BY <1>1, <1>7, <1>8, InsertOrder
<1> HIDE DEF m
<1>11. ASSUME NEW x, NEW i \in DOMAIN d, i < p, d[i] = x
       PROVE  UpTo(l, x, after)
  <2>1. after # NULL /\ p = Position(d, after) + 1 /\ Position(d, after) \in DOMAIN d
    BY <1>5, <1>6, <1>11
  <2>2. i = Position(d, after) \/ i < Position(d, after)
    BY <1>5, <1>11, <2>1
  <2>3. x = after \/ Precedes(d, x, after)
    BY <1>6, <1>11, <2>1, <2>2 DEF Precedes
  <2> QED BY <1>2, <2>1, <2>3 DEF UpTo
<1>12. ASSUME NEW y, NEW i \in DOMAIN d, i >= p, d[i] = y
       PROVE  y # a /\ IsIn(l, y) /\ (after # NULL => Precedes(l, after, y))
  <2>1. y # a /\ IsIn(l, y)
    BY <1>3, <1>12 DEF IsIn
  <2>2. ASSUME after # NULL PROVE Precedes(d, after, y)
    <3>1. Position(d, after) < i
      BY <1>5, <1>6, <1>12, <2>2
    <3> QED BY <1>6, <1>12, <2>2, <3>1 DEF Precedes
  <2> QED BY <1>2, <2>1, <2>2
<1> HIDE DEF p
<1>13. ASSUME NEW x, NEW y, Precedes(m, x, y)
       PROVE  \/ x # a /\ y # a /\ Precedes(l, x, y)
              \/ y = a /\ UpTo(l, x, after)
              \/ x = a /\ y # a /\ IsIn(l, y) /\ (after # NULL => Precedes(l, after, y))
  BY <1>2, <1>10, <1>11, <1>12, <1>13
<1>14. \A x : IsIn(m, x) <=> IsIn(l, x)
  BY <1>3, <1>10
<1> QED BY <1>4, <1>9, <1>10, <1>13, <1>14 DEF d

(***************************************************************************)
(* What a module has loaded                                                *)
(***************************************************************************)

\* Reach is the least set that has a in it and is closed under loading.
LEMMA ReachFacts ==
  ASSUME NEW e, NEW a \in DOMAIN e
  PROVE  /\ a \in Reach(e, a) /\ Reach(e, a) \subseteq DOMAIN e /\ Below(e, Reach(e, a))
         /\ \A S \in SUBSET DOMAIN e : a \in S /\ Below(e, S) => Reach(e, a) \subseteq S
BY DEF Reach, Below

\* It does not grow when entries go.
LEMMA ReachShrinks ==
  ASSUME NEW e, NEW e2, DOMAIN e2 \subseteq DOMAIN e,
         \A c \in DOMAIN e2 : e2[c].parent_entry = e[c].parent_entry,
         NEW a \in DOMAIN e2
  PROVE  Reach(e2, a) \subseteq Reach(e, a)
<1> DEFINE S == Reach(e, a) \cap DOMAIN e2
<1>1. a \in S /\ S \in SUBSET DOMAIN e2
  BY ReachFacts
<1>2. Below(e2, S)
  BY ReachFacts DEF Below
<1> QED BY <1>1, <1>2, ReachFacts

\* A new entry is all that it adds to what others have loaded, and has loaded nothing.
LEMMA ReachGrows ==
  ASSUME NEW e, NEW e2, NEW n, n \notin DOMAIN e, DOMAIN e2 = DOMAIN e \cup {n},
         \A c \in DOMAIN e : e2[c].parent_entry = e[c].parent_entry /\ e[c].parent_entry # n
  PROVE  /\ \A y \in DOMAIN e : Reach(e2, y) \subseteq Reach(e, y) \cup {n}
         /\ Reach(e2, n) \subseteq {n}
<1>1. ASSUME NEW y \in DOMAIN e PROVE Reach(e2, y) \subseteq Reach(e, y) \cup {n}
  <2> DEFINE S == Reach(e, y) \cup {n}
  <2>1. y \in S /\ S \in SUBSET DOMAIN e2
    BY ReachFacts
  <2>2. Below(e2, S)
    BY ReachFacts DEF Below
  <2> QED BY <2>1, <2>2, ReachFacts
<1>2. Below(e2, {n}) /\ {n} \in SUBSET DOMAIN e2
  BY DEF Below
<1> QED BY <1>1, <1>2, ReachFacts

\* No other module has loaded one without a loader.
LEMMA ReachRoot ==
  ASSUME NEW e, NEW x \in DOMAIN e, e[x].parent_entry \notin DOMAIN e,
         NEW y \in DOMAIN e, y # x
  PROVE  x \notin Reach(e, y)
<1> DEFINE S == Reach(e, y) \ {x}
<1>1. y \in S /\ S \in SUBSET DOMAIN e
  BY ReachFacts
<1>2. Below(e, S)
  BY ReachFacts DEF Below
<1> QED BY <1>1, <1>2, ReachFacts

(***************************************************************************)
(* Entries                                                                 *)
(***************************************************************************)

\* Two entries of the same library in the same region, loaded by the same module.
SameLink(x, y) == x.so = y.so /\ x.region = y.region /\ x.parent_entry = y.parent_entry

\* An entry that now may outlive its loader.
LEMMA OutlivesFacts ==
  ASSUME NEW x \in Entry
  PROVE  LET y == [x EXCEPT !.outlives = TRUE]
         IN y \in Entry /\ SameLink(y, x) /\ y.refcount = x.refcount /\ y.host = x.host /\ y.outlives
BY DEF Entry, SameLink

\* An entry with one reference less.
LEMMA UnrefFacts ==
  ASSUME NEW x \in Entry, x.refcount # 1
  PROVE  /\ Unref(x) \in Entry /\ SameLink(Unref(x), x) /\ Unref(x).refcount = x.refcount - 1
         /\ Unref(x).host = x.host /\ Unref(x).outlives = x.outlives
         /\ x.refcount > 1
BY BoundAssumption DEF Entry, SameLink, Unref

\* An entry that the host has let go of once.
LEMMA LetGoFacts ==
  ASSUME NEW x \in Entry
  PROVE  /\ LetGo(x) \in Entry /\ SameLink(LetGo(x), x) /\ LetGo(x).refcount = x.refcount
         /\ LetGo(x).outlives = x.outlives
         /\ LetGo(x).host = IF x.host = 0 THEN 0 ELSE x.host - 1
<1> DEFINE h == IF x.host = 0 THEN 0 ELSE x.host - 1
<1>1. h \in 0 .. MaxRefs
  BY BoundAssumption DEF Entry
<1>2. LetGo(x) = [x EXCEPT !.host = h]
  BY DEF LetGo
<1> HIDE DEF h
<1>3. /\ [x EXCEPT !.host = h] \in Entry /\ SameLink([x EXCEPT !.host = h], x)
      /\ [x EXCEPT !.host = h].refcount = x.refcount /\ [x EXCEPT !.host = h].outlives = x.outlives
      /\ [x EXCEPT !.host = h].host = h
  BY <1>1 DEF Entry, SameLink
<1> QED BY <1>2, <1>3 DEF h

\* An entry with one reference more, h of them of the host.
LEMMA RefFacts ==
  ASSUME NEW y \in Entry, NEW h \in 0 .. 1, y.refcount < MaxRefs, y.host <= y.refcount
  PROVE  /\ Ref(y, h) \in Entry /\ SameLink(Ref(y, h), y) /\ Ref(y, h).refcount = y.refcount + 1
         /\ Ref(y, h).host = y.host + h /\ Ref(y, h).outlives
<1>1. y.refcount + 1 \in 1 .. MaxRefs /\ y.host + h \in 0 .. MaxRefs
  BY BoundAssumption DEF Entry
<1>2. PICK z : z = [y EXCEPT !.refcount = y.refcount + 1]
  OBVIOUS
<1>3. z \in Entry /\ SameLink(z, y) /\ z.refcount = y.refcount + 1 /\ z.host = y.host
  BY <1>1, <1>2 DEF Entry, SameLink
<1>4. PICK w : w = [z EXCEPT !.host = y.host + h]
  OBVIOUS
<1>5. w \in Entry /\ SameLink(w, z) /\ w.refcount = z.refcount /\ w.host = y.host + h
  BY <1>1, <1>3, <1>4 DEF Entry, SameLink
<1>6. Ref(y, h) = [w EXCEPT !.outlives = TRUE]
  BY <1>2, <1>4 DEF Entry, Ref
<1>7. PICK x : x = Ref(y, h)
  OBVIOUS
<1>8. x \in Entry /\ SameLink(x, w) /\ x.refcount = w.refcount /\ x.host = w.host /\ x.outlives
  BY <1>5, <1>6, <1>7, OutlivesFacts
<1>9. SameLink(x, y) /\ x.refcount = y.refcount + 1 /\ x.host = y.host + h
  BY <1>3, <1>5, <1>8 DEF SameLink
<1> QED BY <1>7, <1>8, <1>9

\* An entry with a ctx that another load has written.
LEMMA CtxFacts ==
  ASSUME NEW x \in Entry, NEW v \in {"shared", "lost"}
  PROVE  LET y == [x EXCEPT !.ctx = v]
         IN y \in Entry /\ SameLink(y, x) /\ y.refcount = x.refcount /\ y.host = x.host
            /\ y.outlives = x.outlives
BY DEF Entry, SameLink

(***************************************************************************)
(* The tables                                                              *)
(***************************************************************************)

\* What other counts, ctx and regions leave alone.
LEMMA SameLinks ==
  ASSUME NEW R, NEW e, NEW hd, NEW ms, NEW fs, NEW R2, NEW e2, NEW hd2,
         Good(R, e, hd, ms), R \subseteq R2, R2 \subseteq Region,
         DOMAIN e2 = DOMAIN e, \A a \in DOMAIN e : e2[a] \in Entry /\ SameLink(e2[a], e[a]),
         Counts(e2),
         DOMAIN hd2 = DOMAIN hd, \A k \in DOMAIN hd : hd2[k] = hd[k]
  PROVE  /\ Good(R2, e2, hd2, ms)
         /\ Running(e, hd, ms, fs) => Running(e2, hd2, ms, fs)
<1>1. \A a \in DOMAIN e : KeyOf(e2, a) = KeyOf(e, a)
  BY DEF KeyOf, SameLink
<1>2. \A a \in DOMAIN e : Reach(e2, a) \subseteq Reach(e, a)
  BY ReachShrinks DEF SameLink
<1>3. Types(R2, e2, hd2, ms)
  BY DEF Good, Types, SameLink
<1>4. HdExact(e2, hd2)
  <2>1. ASSUME NEW k \in DOMAIN hd PROVE hd2[k] \in DOMAIN e2 /\ k = KeyOf(e2, hd2[k])
    BY <1>1, <2>1 DEF Good, HdExact
  <2>2. ASSUME NEW a \in DOMAIN e PROVE KeyOf(e2, a) \in DOMAIN hd2 /\ hd2[KeyOf(e2, a)] = a
    BY <1>1, <2>2 DEF Good, HdExact
  <2> QED BY <2>1, <2>2 DEF HdExact
<1>5. ASSUME NEW r \in Region PROVE ListExact(e2, ms[r], r) /\ Ordered(e2, ms[r])
  <2>1. ListExact(e, ms[r], r) /\ Ordered(e, ms[r])
    BY DEF Good
  <2>2. ListExact(e2, ms[r], r)
    <3>1. \A a \in DOMAIN e : e2[a].region = e[a].region
      BY DEF SameLink
    <3> QED BY <2>1, <3>1 DEF ListExact
  <2>3. Ordered(e2, ms[r])
    BY <1>2, <2>1 DEF Ordered
  <2> QED BY <2>2, <2>3
<1>6. Good(R2, e2, hd2, ms)
  BY <1>3, <1>4, <1>5 DEF Good
<1>7. ASSUME Running(e, hd, ms, fs) PROVE Running(e2, hd2, ms, fs)
  <2>1. ASSUME NEW i \in DOMAIN fs, fs[i].region # NoRegion
        PROVE  LET k == <<e2[fs[i].mod].so, fs[i].region>>
                   l == ms[fs[i].region]
               IN /\ i = 1
                  /\ e2[fs[i].mod].parent_entry = NULL
                  /\ k \in DOMAIN hd2 => hd2[k] = fs[i].mod
                  /\ fs[i].after # NULL => IsIn(l, fs[i].after)
                  /\ \A x \in DOMAIN e2 : UpTo(l, x, fs[i].after) => x \notin Reach(e2, fs[i].mod)
    <3>1. /\ fs[i].mod \in DOMAIN e
          /\ e2[fs[i].mod].so = e[fs[i].mod].so
          /\ e2[fs[i].mod].parent_entry = e[fs[i].mod].parent_entry
      BY <1>7 DEF Running, SameLink
    <3>2. LET k == <<e[fs[i].mod].so, fs[i].region>>
              l == ms[fs[i].region]
          IN /\ i = 1
             /\ e[fs[i].mod].parent_entry = NULL
             /\ k \in DOMAIN hd => hd[k] = fs[i].mod
             /\ fs[i].after # NULL => IsIn(l, fs[i].after)
             /\ \A x \in DOMAIN e : UpTo(l, x, fs[i].after) => x \notin Reach(e, fs[i].mod)
      BY <1>7, <2>1 DEF Running
    <3> QED BY <1>2, <3>1, <3>2
  <2> QED BY <1>7, <2>1 DEF Running
<1> QED BY <1>6, <1>7

\* What goes with the last reference to a has been loaded by a, directly or not.
LEMMA DyingFacts ==
  ASSUME NEW a \in DOMAIN entry, NEW U
  PROVE  /\ a \in Dying(a, U) /\ Dying(a, U) \subseteq Reach(entry, a)
         /\ \A c \in DOMAIN entry \ U :
              entry[c].parent_entry \in Dying(a, U) /\ entry[c].refcount = 1 => c \in Dying(a, U)
<1>1. a \in Dying(a, U)
  BY DEF Dying
<1>2. ASSUME NEW c \in Dying(a, U) PROVE c \in Reach(entry, a)
  <2>1. /\ a \in Reach(entry, a) /\ Reach(entry, a) \in SUBSET DOMAIN entry
        /\ \A d \in DOMAIN entry : entry[d].parent_entry \in Reach(entry, a) => d \in Reach(entry, a)
    BY ReachFacts DEF Below
  <2> HIDE DEF Reach
  <2> QED BY <1>2, <2>1 DEF Dying
<1>3. ASSUME NEW c \in DOMAIN entry \ U, entry[c].parent_entry \in Dying(a, U),
             entry[c].refcount = 1
      PROVE  c \in Dying(a, U)
  BY <1>3 DEF Dying
<1> QED BY <1>1, <1>2, <1>3

\* The tables are good after an unload: the cascade leaves no child with one reference,
\* and a module that stands before the unloaded one stays.
LEMMA WithoutGood ==
  ASSUME Good(regions, entry, mod_hd, mods), NEW a \in DOMAIN entry, NEW U, NEW t,
         t = Without(Dying(a, U), U)
  PROVE  /\ Good(regions, t.entry, t.mod_hd, t.mods)
         /\ KeyOf(entry, a) \notin DOMAIN t.mod_hd
         /\ \A r \in Region, x \in DOMAIN entry : Precedes(mods[r], x, a) => IsIn(t.mods[r], x)
<1> DEFINE D == Dying(a, U)
           e2 == t.entry
<1>0. /\ Types(regions, entry, mod_hd, mods) /\ HdExact(entry, mod_hd) /\ Counts(entry)
      /\ \A r \in Region : ListExact(entry, mods[r], r) /\ Ordered(entry, mods[r])
  BY DEF Good
<1>1. a \in D /\ D \subseteq Reach(entry, a)
  BY DyingFacts
<1>2. ASSUME NEW c \in DOMAIN entry \ D, entry[c].parent_entry \in D, c \notin U
      PROVE  entry[c].refcount # 1
  BY <1>2, DyingFacts
<1>3. /\ DOMAIN e2 = DOMAIN entry \ D
      /\ \A c \in DOMAIN e2 :
           e2[c] = IF entry[c].parent_entry \notin D THEN entry[c]
                   ELSE IF c \in U THEN [entry[c] EXCEPT !.outlives = TRUE]
                   ELSE Unref(entry[c])
      /\ t.mod_hd = [k \in {x \in DOMAIN mod_hd : mod_hd[x] \notin D} |-> mod_hd[k]]
      /\ t.mods = [r \in Region |-> Filter(mods[r], Addr \ D)]
  BY DEF Without, module_free_entry
<1> HIDE DEF D, e2
<1>4. ASSUME NEW c \in DOMAIN e2
      PROVE  /\ e2[c] \in Entry /\ SameLink(e2[c], entry[c])
             /\ e2[c].refcount >= e2[c].host + IF e2[c].parent_entry \in DOMAIN e2 THEN 1 ELSE 0
             /\ e2[c].refcount > 1 => e2[c].outlives
             /\ e2[c].parent_entry \notin DOMAIN e2 \cup {NULL} => e2[c].outlives
  <2>1. c \in DOMAIN entry \ D /\ entry[c] \in Entry
    BY <1>0, <1>3 DEF Types
  <2>2. /\ entry[c].refcount >= entry[c].host + IF entry[c].parent_entry \in DOMAIN entry THEN 1 ELSE 0
        /\ entry[c].refcount > 1 => entry[c].outlives
        /\ entry[c].parent_entry \notin DOMAIN entry \cup {NULL} => entry[c].outlives
    BY <1>0, <2>1 DEF Counts
  <2>3. entry[c].refcount \in Nat /\ entry[c].host \in Nat
    BY <2>1, BoundAssumption DEF Entry
  <2>4. CASE entry[c].parent_entry \notin D
    <3>1. e2[c] = entry[c]
      BY <1>3, <2>4
    <3>2. entry[c].parent_entry \in DOMAIN e2 <=> entry[c].parent_entry \in DOMAIN entry
      BY <1>3, <2>4
    <3> QED BY <2>1, <2>2, <3>1, <3>2 DEF SameLink
  <2>5. CASE entry[c].parent_entry \in D
    <3>1. entry[c].parent_entry \in DOMAIN entry /\ entry[c].parent_entry \notin DOMAIN e2
      BY <1>1, <1>3, <2>5 DEF Reach
    <3>2. entry[c].refcount >= entry[c].host + 1
      BY <2>2, <3>1
    <3>3. CASE c \in U
      <4>1. e2[c] = [entry[c] EXCEPT !.outlives = TRUE]
        BY <1>3, <2>5, <3>3
      <4>2. /\ e2[c] \in Entry /\ SameLink(e2[c], entry[c]) /\ e2[c].refcount = entry[c].refcount
            /\ e2[c].host = entry[c].host /\ e2[c].outlives
        BY <2>1, <4>1, OutlivesFacts
      <4>3. e2[c].parent_entry \notin DOMAIN e2
        BY <3>1, <4>2 DEF SameLink
      <4>4. e2[c].refcount >= e2[c].host
        BY <2>3, <3>2, <4>2
      <4>5. e2[c].host \in Nat
        BY <2>3, <4>2
      <4>6. e2[c].refcount >= e2[c].host + IF e2[c].parent_entry \in DOMAIN e2 THEN 1 ELSE 0
        BY <4>3, <4>4, <4>5
      <4> QED BY <4>2, <4>6
    <3>4. CASE c \notin U
      <4>1. entry[c].refcount # 1
        BY <1>2, <2>1, <2>5, <3>4
      <4>2. e2[c] = Unref(entry[c])
        BY <1>3, <2>5, <3>4
      <4>3. /\ e2[c] \in Entry /\ SameLink(e2[c], entry[c]) /\ e2[c].refcount = entry[c].refcount - 1
            /\ e2[c].host = entry[c].host /\ e2[c].outlives = entry[c].outlives
            /\ entry[c].refcount > 1
        BY <2>1, <4>1, <4>2, UnrefFacts
      <4>4. e2[c].outlives
        BY <2>2, <4>3
      <4>5. e2[c].parent_entry \notin DOMAIN e2
        BY <3>1, <4>3 DEF SameLink
      <4>6. e2[c].refcount >= e2[c].host /\ e2[c].host \in Nat
        BY <2>3, <3>2, <4>3
      <4>7. e2[c].refcount >= e2[c].host + IF e2[c].parent_entry \in DOMAIN e2 THEN 1 ELSE 0
        BY <4>5, <4>6
      <4> QED BY <4>3, <4>4, <4>7
    <3> QED BY <3>3, <3>4
  <2> QED BY <2>4, <2>5
<1>5. Types(regions, e2, t.mod_hd, t.mods)
  <2>1. ASSUME NEW r \in Region PROVE t.mods[r] \in Seq(Addr)
    <3>1. mods[r] \in Seq(Addr)
      BY <1>0 DEF Types
    <3>2. Filter(mods[r], Addr \ D) \in Seq(Addr)
      BY <3>1, FilterFacts
    <3> QED BY <1>3, <3>2
  <2>2. t.mods \in [Region -> Seq(Addr)]
    BY <1>3, <2>1
  <2>3. \A c \in DOMAIN e2 : e2[c] \in Entry /\ e2[c].region \in regions
    BY <1>0, <1>3, <1>4 DEF Types, SameLink
  <2> QED BY <1>0, <1>3, <2>2, <2>3 DEF Types
<1>6. \A c \in DOMAIN e2 : KeyOf(e2, c) = KeyOf(entry, c)
  BY <1>4 DEF KeyOf, SameLink
<1>7. HdExact(e2, t.mod_hd)
  <2>1. ASSUME NEW k \in DOMAIN t.mod_hd
        PROVE  t.mod_hd[k] \in DOMAIN e2 /\ k = KeyOf(e2, t.mod_hd[k])
    <3>1. k \in DOMAIN mod_hd /\ t.mod_hd[k] = mod_hd[k] /\ mod_hd[k] \notin D
      BY <1>3
    <3> QED BY <1>0, <1>3, <1>6, <3>1 DEF HdExact
  <2>2. ASSUME NEW c \in DOMAIN e2
        PROVE  KeyOf(e2, c) \in DOMAIN t.mod_hd /\ t.mod_hd[KeyOf(e2, c)] = c
    <3>1. c \in DOMAIN entry /\ c \notin D
      BY <1>3
    <3>2. KeyOf(entry, c) \in DOMAIN mod_hd /\ mod_hd[KeyOf(entry, c)] = c
      BY <1>0, <3>1 DEF HdExact
    <3> QED BY <1>3, <1>6, <3>1, <3>2
  <2> QED BY <2>1, <2>2 DEF HdExact
<1>8. ASSUME NEW r \in Region PROVE ListExact(e2, t.mods[r], r) /\ Ordered(e2, t.mods[r])
  <2>1. mods[r] \in Seq(Addr) /\ ListExact(entry, mods[r], r) /\ Ordered(entry, mods[r])
    BY <1>0 DEF Types
  <2> DEFINE l == mods[r]
             m == t.mods[r]
  <2>2. m = Filter(l, Addr \ D)
    BY <1>3
  <2>3. /\ \A j \in DOMAIN m : m[j] \in Addr \ D /\ \E i \in DOMAIN l : l[i] = m[j]
        /\ \A i \in DOMAIN l : l[i] \in Addr \ D => \E j \in DOMAIN m : m[j] = l[i]
        /\ Once(l) => Once(m)
    <3>1. l \in Seq(Addr)
      BY <2>1
    <3> DEFINE K == Addr \ D
               f == Filter(l, K)
    <3> HIDE DEF l, K
    <3>2. /\ \A j \in DOMAIN f : f[j] \in K /\ \E i \in DOMAIN l : l[i] = f[j]
          /\ \A i \in DOMAIN l : l[i] \in K => \E j \in DOMAIN f : f[j] = l[i]
          /\ (\A i, j \in DOMAIN l : l[i] = l[j] => i = j) =>
               \A i, j \in DOMAIN f : f[i] = f[j] => i = j
      BY <3>1, FilterFacts
    <3>3. m = f
      BY <2>2 DEF K
    <3> HIDE DEF f, m
    <3> QED BY <3>2, <3>3 DEF Once, K
  <2>4. \A x, y : Precedes(m, x, y) => Precedes(l, x, y)
    BY <2>1, <2>2, FilterOrder
  <2>5. DOMAIN entry \subseteq Addr /\ \A c \in DOMAIN e2 : e2[c].region = entry[c].region
    BY <1>0, <1>4 DEF Types, SameLink
  <2> HIDE DEF l, m
  <2>6. ListExact(entry, l, r) /\ Ordered(entry, l)
    BY <2>1 DEF l
  <2>7. ListExact(e2, m, r)
    <3>1. ASSUME NEW c \in DOMAIN e2, e2[c].region = r PROVE IsIn(m, c)
      <4>1. c \in Addr \ D /\ IsIn(l, c)
        BY <1>3, <2>5, <2>6, <3>1 DEF ListExact
      <4> QED BY <2>3, <4>1 DEF IsIn
    <3>2. ASSUME NEW j \in DOMAIN m PROVE m[j] \in DOMAIN e2 /\ e2[m[j]].region = r
      <4>1. m[j] \in DOMAIN entry \ D /\ entry[m[j]].region = r
        BY <2>3, <2>6 DEF ListExact
      <4> QED BY <1>3, <2>5, <4>1
    <3> QED BY <2>3, <2>6, <3>1, <3>2 DEF ListExact
  <2>8. Ordered(e2, m)
    <3>1. ASSUME NEW x \in DOMAIN e2, NEW y \in DOMAIN e2, Precedes(m, x, y)
          PROVE  x \notin Reach(e2, y)
      <4>1. x \in DOMAIN entry /\ y \in DOMAIN entry /\ DOMAIN e2 \subseteq DOMAIN entry
        BY <1>3
      <4>2. x \notin Reach(entry, y)
        BY <2>4, <2>6, <3>1, <4>1 DEF Ordered
      <4>3. \A c \in DOMAIN e2 : e2[c].parent_entry = entry[c].parent_entry
        BY <1>4 DEF SameLink
      <4>4. Reach(e2, y) \subseteq Reach(entry, y)
        BY <4>1, <4>3, ReachShrinks
      <4> QED BY <4>2, <4>4
    <3> QED BY <3>1 DEF Ordered
  <2> QED BY <2>7, <2>8 DEF m
<1>9. Counts(e2)
  BY <1>4 DEF Counts
<1>10. Good(regions, e2, t.mod_hd, t.mods)
  BY <1>5, <1>7, <1>8, <1>9 DEF Good
<1>11. KeyOf(entry, a) \notin DOMAIN t.mod_hd
  <2>1. mod_hd[KeyOf(entry, a)] = a
    BY <1>0 DEF HdExact
  <2> QED BY <1>1, <1>3, <2>1
<1>12. ASSUME NEW r \in Region, NEW x \in DOMAIN entry, Precedes(mods[r], x, a)
       PROVE  IsIn(t.mods[r], x)
  <2>1. x \notin D
    <3>1. x \notin Reach(entry, a)
      BY <1>0, <1>12 DEF Ordered
    <3> QED BY <1>1, <3>1
  <2>2. x \in Addr \ D /\ mods[r] \in Seq(Addr) /\ IsIn(mods[r], x)
    BY <1>0, <1>12, <2>1 DEF Types, Precedes, IsIn
  <2>3. IsIn(Filter(mods[r], Addr \ D), x)
    <3> DEFINE l == mods[r]
               K == Addr \ D
    <3>1. l \in Seq(Addr) /\ x \in K /\ IsIn(l, x)
      BY <2>2
    <3> HIDE DEF l, K
    <3>2. \A i \in DOMAIN l : l[i] \in K => \E j \in DOMAIN Filter(l, K) : Filter(l, K)[j] = l[i]
      BY <3>1, FilterFacts
    <3>3. IsIn(Filter(l, K), x)
      BY <3>1, <3>2 DEF IsIn
    <3> QED BY <3>3 DEF l, K
  <2> QED BY <1>3, <2>3
<1> QED BY <1>10, <1>11, <1>12 DEF e2

\* A key is new to the table when no module of the library is loaded in the region.
LEMMA NewKey ==
  ASSUME NEW R, NEW e, NEW hd, NEW ms, Good(R, e, hd, ms),
         NEW s, NEW r, NEW c, <<s, r>> \notin DOMAIN hd, c = r \/ c \notin R
  PROVE  <<s, c>> \notin DOMAIN hd
<1>1. ASSUME <<s, c>> \in DOMAIN hd PROVE c \in R
  <2>1. hd[<<s, c>>] \in DOMAIN e /\ <<s, c>> = <<e[hd[<<s, c>>]].so, e[hd[<<s, c>>]].region>>
    BY <1>1 DEF Good, HdExact, KeyOf
  <2> QED BY <2>1 DEF Good, Types
<1> QED BY <1>1

\* A load publishes the entry under the region it was called for and ends with it under
\* the one it has claimed.
LEMMA RekeyFacts ==
  ASSUME NEW hd, NEW s, NEW r, NEW c, NEW a, <<s, r>> \notin DOMAIN hd,
         <<s, c>> \notin DOMAIN hd, NEW hd2,
         hd2 = module_rekey_for_claim(mod_load_publish_entry(hd, <<s, r>>, a), <<s, r>>, <<s, c>>)
  PROVE  /\ DOMAIN hd2 = DOMAIN hd \cup {<<s, c>>}
         /\ hd2[<<s, c>>] = a /\ \A k \in DOMAIN hd : hd2[k] = hd[k]
<1>1. CASE <<s, r>> = <<s, c>>
  BY <1>1 DEF module_rekey_for_claim, mod_load_publish_entry, corm_put
<1>2. CASE <<s, r>> # <<s, c>>
  <2> DEFINE h1 == mod_load_publish_entry(hd, <<s, r>>, a)
             h2 == corm_put(h1, <<s, c>>, h1[<<s, r>>])
  <2>1. /\ DOMAIN h1 = DOMAIN hd \cup {<<s, r>>}
        /\ \A k \in DOMAIN h1 : h1[k] = IF k = <<s, r>> THEN a ELSE hd[k]
    BY DEF mod_load_publish_entry, corm_put
  <2> HIDE DEF h1
  <2>2. /\ DOMAIN h2 = DOMAIN h1 \cup {<<s, c>>}
        /\ \A k \in DOMAIN h2 : h2[k] = IF k = <<s, c>> THEN a ELSE h1[k]
    BY <2>1 DEF corm_put
  <2>3. hd2 = corm_del(h2, <<s, r>>)
    BY <1>2 DEF module_rekey_for_claim, h1
  <2> HIDE DEF h2
  <2>4. DOMAIN hd2 = DOMAIN h2 \ {<<s, r>>} /\ \A k \in DOMAIN hd2 : hd2[k] = h2[k]
    BY <2>3 DEF corm_del
  <2> QED BY <1>2, <2>1, <2>2, <2>4
<1> QED BY <1>1, <1>2

\* e2, hd2 and ms2 are e, hd and ms with a new module: entry n of library s, in region c,
\* which is none of those whose installs fs run.
Adds(e, hd, ms, fs, s, c, n, e2, hd2, ms2) ==
  /\ c \in Region /\ <<s, c>> \notin DOMAIN hd /\ <<s, c>> \in Key
  /\ \A i \in DOMAIN fs : e[fs[i].mod].so # s
  /\ n \in Addr \ DOMAIN e /\ \A d \in DOMAIN e : e[d].parent_entry # n
  /\ DOMAIN e2 = DOMAIN e \cup {n}
  /\ \A d \in DOMAIN e : /\ e2[d] \in Entry /\ SameLink(e2[d], e[d])
                         /\ e2[d].refcount = e[d].refcount /\ e2[d].host = e[d].host
                         /\ e2[d].outlives = e[d].outlives
  /\ e2[n] \in Entry /\ e2[n].so = s /\ e2[n].region = c /\ e2[n].refcount = 1
  /\ e2[n].parent_entry \in DOMAIN e \cup {NULL}
  /\ 1 >= e2[n].host + IF e2[n].parent_entry \in DOMAIN e THEN 1 ELSE 0
  /\ DOMAIN hd2 = DOMAIN hd \cup {<<s, c>>}
  /\ hd2[<<s, c>>] = n /\ \A k \in DOMAIN hd : hd2[k] = hd[k]
  /\ ms2 = [ms EXCEPT ![c] = module_region_append(@, n)]

\* Nothing stands behind x.
Ends(l, x) == \A y : ~Precedes(l, x, y)

\* The tables are good after a new module has come in, and the installs that run do not
\* notice.
LEMMA InstallGood ==
  ASSUME NEW R, NEW e, NEW hd, NEW ms, NEW fs, Good(R, e, hd, ms), Running(e, hd, ms, fs),
         NEW s, NEW c, NEW n, NEW e2, NEW hd2, NEW ms2,
         Adds(e, hd, ms, fs, s, c, n, e2, hd2, ms2)
  PROVE  /\ Good(R \cup {c}, e2, hd2, ms2)
         /\ Running(e2, hd2, ms2, fs)
         /\ Reach(e2, n) \subseteq {n}
         /\ \A r \in Region, x \in DOMAIN e : IsIn(ms[r], x) => IsIn(ms2[r], x)
         /\ \A r \in Region : Ends(ms2[r], n)
<1> USE DEF Adds
<1>0. /\ Types(R, e, hd, ms) /\ HdExact(e, hd) /\ Counts(e)
      /\ \A r \in Region : ListExact(e, ms[r], r) /\ Ordered(e, ms[r])
  BY DEF Good
<1>1. /\ \A y \in DOMAIN e : Reach(e2, y) \subseteq Reach(e, y) \cup {n}
      /\ Reach(e2, n) \subseteq {n}
  BY ReachGrows, ZenonT(40) DEF SameLink
<1>2. \A d \in DOMAIN e : KeyOf(e2, d) = KeyOf(e, d)
  BY DEF KeyOf, SameLink
<1>3. KeyOf(e2, n) = <<s, c>>
  BY DEF KeyOf
<1>4. ASSUME NEW r \in Region
      PROVE  /\ ms2[r] \in Seq(Addr)
             /\ Once(ms2[r])
             /\ \A x : IsIn(ms2[r], x) <=> (r = c /\ x = n) \/ IsIn(ms[r], x)
             /\ \A x, y : Precedes(ms2[r], x, y) => x # n /\ ((r = c /\ y = n) \/ Precedes(ms[r], x, y))
  <2>1. ms \in [Region -> Seq(Addr)] /\ ms[r] \in Seq(Addr) /\ Once(ms[r]) /\ ~IsIn(ms[r], n)
    <3>1. ms \in [Region -> Seq(Addr)] /\ ListExact(e, ms[r], r)
      BY <1>0 DEF Types
    <3> QED BY <3>1 DEF ListExact, IsIn
  <2>2. CASE r = c
    <3>1. ms2[r] = module_region_append(ms[r], n)
      BY <2>1, <2>2
    <3> QED BY <2>1, <2>2, <3>1, AppendFacts
  <2>3. CASE r # c
    <3>1. ms2[r] = ms[r]
      BY <2>1, <2>3
    <3>2. \A x, y : Precedes(ms[r], x, y) => x # n
      BY <2>1 DEF Precedes, IsIn
    <3> QED BY <2>1, <2>3, <3>1, <3>2
  <2> QED BY <2>2, <2>3
<1>5. Types(R \cup {c}, e2, hd2, ms2)
  <2>1. ms2 \in [Region -> Seq(Addr)]
    <3>1. ms2 = [r \in Region |-> ms2[r]]
      BY <1>0 DEF Types
    <3> QED BY <1>4, <3>1
  <2>2. \A a \in DOMAIN e2 : e2[a] \in Entry /\ e2[a].region \in R \cup {c}
    BY <1>0 DEF Types, SameLink
  <2> QED BY <1>0, <2>1, <2>2 DEF Types
<1>6. HdExact(e2, hd2)
  <2>1. ASSUME NEW k \in DOMAIN hd2 PROVE hd2[k] \in DOMAIN e2 /\ k = KeyOf(e2, hd2[k])
    <3>1. CASE k = <<s, c>>
      BY <1>3, <3>1
    <3>2. CASE k # <<s, c>>
      <4>1. k \in DOMAIN hd /\ hd2[k] = hd[k]
        BY <3>2
      <4> QED BY <1>0, <1>2, <4>1 DEF HdExact
    <3> QED BY <3>1, <3>2
  <2>2. ASSUME NEW a \in DOMAIN e2 PROVE KeyOf(e2, a) \in DOMAIN hd2 /\ hd2[KeyOf(e2, a)] = a
    <3>1. CASE a = n
      BY <1>3, <3>1
    <3>2. CASE a \in DOMAIN e
      <4>1. KeyOf(e, a) \in DOMAIN hd /\ hd[KeyOf(e, a)] = a
        BY <1>0, <3>2 DEF HdExact
      <4> QED BY <1>2, <3>2, <4>1
    <3> QED BY <3>1, <3>2
  <2> QED BY <2>1, <2>2 DEF HdExact
<1>7. ASSUME NEW r \in Region PROVE ListExact(e2, ms2[r], r) /\ Ordered(e2, ms2[r])
  <2>1. ListExact(e, ms[r], r) /\ Ordered(e, ms[r])
    BY <1>0
  <2>2. \A d \in DOMAIN e : e2[d].region = e[d].region
    BY DEF SameLink
  <2>3. ASSUME NEW a \in DOMAIN e2, e2[a].region = r PROVE IsIn(ms2[r], a)
    <3>1. CASE a = n
      BY <1>4, <2>3, <3>1
    <3>2. CASE a \in DOMAIN e
      <4>1. IsIn(ms[r], a)
        BY <2>1, <2>2, <2>3, <3>2 DEF ListExact
      <4> QED BY <1>4, <4>1
    <3> QED BY <3>1, <3>2
  <2>4. ASSUME NEW i \in DOMAIN ms2[r] PROVE ms2[r][i] \in DOMAIN e2 /\ e2[ms2[r][i]].region = r
    <3>1. IsIn(ms2[r], ms2[r][i])
      BY DEF IsIn
    <3>2. CASE r = c /\ ms2[r][i] = n
      BY <3>2
    <3>3. CASE IsIn(ms[r], ms2[r][i])
      BY <2>1, <2>2, <3>3 DEF ListExact, IsIn
    <3> QED BY <1>4, <3>1, <3>2, <3>3
  <2>5. ASSUME NEW x \in DOMAIN e2, NEW y \in DOMAIN e2, Precedes(ms2[r], x, y)
        PROVE  x \notin Reach(e2, y)
    <3>1. x # n /\ ((r = c /\ y = n) \/ Precedes(ms[r], x, y))
      BY <1>4, <2>5
    <3>2. CASE y = n
      BY <1>1, <3>1, <3>2
    <3>3. CASE y # n
      <4>1. x \in DOMAIN e /\ y \in DOMAIN e /\ Precedes(ms[r], x, y)
        BY <3>1, <3>3
      <4>2. x \notin Reach(e, y)
        BY <2>1, <4>1 DEF Ordered
      <4> QED BY <1>1, <3>1, <4>1, <4>2
    <3> QED BY <3>2, <3>3
  <2> QED BY <1>4, <2>3, <2>4, <2>5 DEF ListExact, Ordered
<1>8. Counts(e2)
  <2> SUFFICES ASSUME NEW a \in DOMAIN e2
               PROVE  /\ e2[a].refcount >= e2[a].host + IF e2[a].parent_entry \in DOMAIN e2 THEN 1 ELSE 0
                      /\ e2[a].refcount > 1 => e2[a].outlives
                      /\ e2[a].parent_entry \notin DOMAIN e2 \cup {NULL} => e2[a].outlives
    BY DEF Counts
  <2>1. CASE a = n
    <3>1. e2[a].parent_entry \in DOMAIN e2 <=> e2[a].parent_entry \in DOMAIN e
      BY <2>1, AddrAssumption
    <3> QED BY <2>1, <3>1
  <2>2. CASE a \in DOMAIN e
    <3>1. /\ e[a].refcount >= e[a].host + IF e[a].parent_entry \in DOMAIN e THEN 1 ELSE 0
          /\ e[a].refcount > 1 => e[a].outlives
          /\ e[a].parent_entry \notin DOMAIN e \cup {NULL} => e[a].outlives
      BY <1>0, <2>2 DEF Counts
    <3>2. e2[a].parent_entry = e[a].parent_entry
      BY <2>2 DEF SameLink
    <3>3. e2[a].parent_entry \in DOMAIN e2 <=> e[a].parent_entry \in DOMAIN e
      BY <2>2, <3>2
    <3>4. /\ e2[a].refcount = e[a].refcount /\ e2[a].host = e[a].host
          /\ e2[a].outlives = e[a].outlives
      BY <2>2
    <3> QED BY <3>1, <3>2, <3>3, <3>4
  <2> QED BY <2>1, <2>2
<1>9. Good(R \cup {c}, e2, hd2, ms2)
  BY <1>5, <1>6, <1>7, <1>8 DEF Good
<1>10. ASSUME NEW i \in DOMAIN fs, fs[i].region # NoRegion
       PROVE  LET k == <<e2[fs[i].mod].so, fs[i].region>>
                  l == ms2[fs[i].region]
              IN /\ i = 1
                 /\ e2[fs[i].mod].parent_entry = NULL
                 /\ k \in DOMAIN hd2 => hd2[k] = fs[i].mod
                 /\ fs[i].after # NULL => IsIn(l, fs[i].after)
                 /\ \A x \in DOMAIN e2 : UpTo(l, x, fs[i].after) => x \notin Reach(e2, fs[i].mod)
  <2>1. LET k == <<e[fs[i].mod].so, fs[i].region>>
            l == ms[fs[i].region]
        IN /\ i = 1
           /\ e[fs[i].mod].parent_entry = NULL
           /\ k \in DOMAIN hd => hd[k] = fs[i].mod
           /\ fs[i].after # NULL => IsIn(l, fs[i].after)
           /\ \A x \in DOMAIN e : UpTo(l, x, fs[i].after) => x \notin Reach(e, fs[i].mod)
    BY <1>10 DEF Running
  <2>2. fs[i] \in Frame /\ fs[i].mod \in DOMAIN e /\ fs[i].region \in Region
    BY <1>10 DEF Running, Frame
  <2>3. /\ e2[fs[i].mod].so = e[fs[i].mod].so
        /\ e2[fs[i].mod].parent_entry = e[fs[i].mod].parent_entry
    BY <2>2 DEF SameLink
  <2>4. <<e[fs[i].mod].so, fs[i].region>> # <<s, c>>
    OBVIOUS
  <2>5. fs[i].after # NULL => IsIn(ms2[fs[i].region], fs[i].after)
    BY <1>4, <2>1, <2>2
  <2>6. ASSUME NEW x \in DOMAIN e2, UpTo(ms2[fs[i].region], x, fs[i].after)
        PROVE  x \notin Reach(e2, fs[i].mod)
    <3>1. fs[i].after # NULL /\ IsIn(ms[fs[i].region], fs[i].after)
      BY <2>1, <2>6 DEF UpTo
    <3>2. fs[i].after \in DOMAIN e
      BY <1>0, <2>2, <3>1 DEF ListExact, IsIn
    <3>3. x # n /\ UpTo(ms[fs[i].region], x, fs[i].after)
      <4>1. x = fs[i].after \/ Precedes(ms2[fs[i].region], x, fs[i].after)
        BY <2>6 DEF UpTo
      <4>2. n \notin DOMAIN e
        OBVIOUS
      <4> HIDE DEF Adds
      <4>3. Precedes(ms2[fs[i].region], x, fs[i].after) => x # n /\ Precedes(ms[fs[i].region], x, fs[i].after)
        BY <1>4, <2>2, <3>2, <4>2
      <4> QED BY <3>1, <3>2, <4>1, <4>2, <4>3 DEF UpTo
    <3>4. x \notin Reach(e, fs[i].mod)
      BY <2>1, <3>3
    <3> QED BY <1>1, <2>2, <3>3, <3>4
  <2> QED BY <2>1, <2>2, <2>3, <2>4, <2>5, <2>6
<1>11. Running(e2, hd2, ms2, fs)
  <2>1. \A i \in DOMAIN fs : fs[i] \in Frame /\ fs[i].mod \in DOMAIN e2
    BY DEF Running
  <2>2. \A i \in DOMAIN fs : fs[i].region = NoRegion => fs[i].after = NULL
    BY DEF Running
  <2> QED BY <1>10, <2>1, <2>2 DEF Running
<1>12. \A r \in Region, x \in DOMAIN e : IsIn(ms[r], x) => IsIn(ms2[r], x)
  BY <1>4
<1>13. \A r \in Region : Ends(ms2[r], n)
  BY <1>4 DEF Ends
<1> QED BY <1>1, <1>9, <1>11, <1>12, <1>13

\* The tables are good after a module has moved to a position that is behind none that
\* it has loaded, and before none that has loaded it.
LEMMA MoveGood ==
  ASSUME NEW R, NEW e, NEW hd, NEW ms, Good(R, e, hd, ms),
         NEW a \in DOMAIN e, NEW r \in Region, e[a].region = r,
         NEW after, after # NULL => IsIn(ms[r], after) /\ after # a,
         \A x \in DOMAIN e : UpTo(ms[r], x, after) => x \notin Reach(e, a),
         \A y \in DOMAIN e :
           y # a /\ IsIn(ms[r], y) /\ (after # NULL => Precedes(ms[r], after, y)) => a \notin Reach(e, y),
         NEW ms2, ms2 = [ms EXCEPT ![r] =
                           module_region_insert_after(module_region_detach(@, a), a, after)]
  PROVE  Good(R, e, hd, ms2)
<1>0. /\ Types(R, e, hd, ms) /\ HdExact(e, hd) /\ Counts(e)
      /\ \A q \in Region : ListExact(e, ms[q], q) /\ Ordered(e, ms[q])
  BY DEF Good
<1> DEFINE l == ms[r]
           m == ms2[r]
<1>1. /\ l \in Seq(Addr) /\ a \in Addr /\ Once(l) /\ IsIn(l, a)
      /\ m = module_region_insert_after(module_region_detach(l, a), a, after)
      /\ \A q \in Region : q # r => ms2[q] = ms[q]
      /\ ms2 = [q \in Region |-> ms2[q]]
  BY <1>0 DEF Types, ListExact
<1> HIDE DEF l, m
<1>2. after # NULL => IsIn(l, after) /\ after # a
  BY DEF l
<1>3. /\ m \in Seq(Addr) /\ Once(m) /\ \A x : IsIn(m, x) <=> IsIn(l, x)
      /\ \A x, y : Precedes(m, x, y) =>
           \/ x # a /\ y # a /\ Precedes(l, x, y)
           \/ y = a /\ UpTo(l, x, after)
           \/ x = a /\ y # a /\ IsIn(l, y) /\ (after # NULL => Precedes(l, after, y))
  BY <1>1, <1>2, MoveFacts
<1>4. ListExact(e, m, r)
  <2>1. ListExact(e, l, r)
    BY <1>0 DEF l
  <2>2. ASSUME NEW c \in DOMAIN e, e[c].region = r PROVE IsIn(m, c)
    BY <1>3, <2>1, <2>2 DEF ListExact
  <2>3. ASSUME NEW i \in DOMAIN m PROVE m[i] \in DOMAIN e /\ e[m[i]].region = r
    <3>1. IsIn(m, m[i])
      BY DEF IsIn
    <3>2. IsIn(l, m[i])
      BY <1>3, <3>1
    <3> QED BY <2>1, <3>2 DEF ListExact, IsIn
  <2> QED BY <1>3, <2>2, <2>3 DEF ListExact
<1>5. ASSUME NEW x \in DOMAIN e, NEW y \in DOMAIN e, Precedes(m, x, y) PROVE x \notin Reach(e, y)
  <2>1. CASE x # a /\ y # a /\ Precedes(l, x, y)
    BY <1>0, <2>1 DEF Ordered, l
  <2>2. CASE y = a /\ UpTo(l, x, after)
    BY <2>2 DEF l
  <2>3. CASE x = a /\ y # a /\ IsIn(l, y) /\ (after # NULL => Precedes(l, after, y))
    BY <2>3 DEF l
  <2> QED BY <1>3, <1>5, <2>1, <2>2, <2>3
<1>6. ASSUME NEW q \in Region
      PROVE  ms2[q] \in Seq(Addr) /\ ListExact(e, ms2[q], q) /\ Ordered(e, ms2[q])
  <2>1. CASE q = r
    BY <1>3, <1>4, <1>5, <2>1 DEF m, Ordered
  <2>2. CASE q # r
    BY <1>0, <1>1, <2>2 DEF Types
  <2> QED BY <2>1, <2>2
<1>7. ms2 \in [Region -> Seq(Addr)]
  BY <1>1, <1>6
<1>8. Types(R, e, hd, ms2)
  BY <1>0, <1>7 DEF Types
<1> QED BY <1>0, <1>6, <1>8 DEF Good

(***************************************************************************)
(* The steps                                                               *)
(***************************************************************************)

\* A load writes the ctx of other entries and nothing else of them.
LEMMA InitFacts ==
  ASSUME NEW e, \A a \in DOMAIN e : e[a] \in Entry, NEW s, NEW copy, NEW v \in {"shared", "lost"}
  PROVE  /\ DOMAIN _xy_init(e, s, copy, v) = DOMAIN e
         /\ \A a \in DOMAIN e :
              LET y == _xy_init(e, s, copy, v)[a]
              IN /\ y \in Entry /\ SameLink(y, e[a]) /\ y.refcount = e[a].refcount
                 /\ y.host = e[a].host /\ y.outlives = e[a].outlives
<1>1. DOMAIN _xy_init(e, s, copy, v) = DOMAIN e
  BY DEF _xy_init
<1>2. ASSUME NEW a \in DOMAIN e
      PROVE  _xy_init(e, s, copy, v)[a] = e[a] \/ _xy_init(e, s, copy, v)[a] = [e[a] EXCEPT !.ctx = v]
  BY DEF _xy_init
<1>3. ASSUME NEW a \in DOMAIN e
      PROVE  LET y == _xy_init(e, s, copy, v)[a]
             IN /\ y \in Entry /\ SameLink(y, e[a]) /\ y.refcount = e[a].refcount
                /\ y.host = e[a].host /\ y.outlives = e[a].outlives
  <2> DEFINE y == _xy_init(e, s, copy, v)[a]
  <2>1. y = e[a] \/ y = [e[a] EXCEPT !.ctx = v]
    BY <1>2
  <2> HIDE DEF y
  <2>2. /\ y \in Entry /\ SameLink(y, e[a]) /\ y.refcount = e[a].refcount
        /\ y.host = e[a].host /\ y.outlives = e[a].outlives
    <3>1. CASE y = e[a]
      BY <3>1 DEF SameLink
    <3>2. CASE y = [e[a] EXCEPT !.ctx = v]
      BY <3>2, CtxFacts
    <3> QED BY <2>1, <3>1, <3>2
  <2> QED BY <2>2 DEF y
<1> QED BY <1>1, <1>3

\* The same counts and links are as good.
LEMMA SameCounts ==
  ASSUME NEW e, NEW e2, Counts(e), DOMAIN e2 = DOMAIN e,
         \A a \in DOMAIN e : /\ SameLink(e2[a], e[a]) /\ e2[a].refcount = e[a].refcount
                             /\ e2[a].host = e[a].host /\ e2[a].outlives = e[a].outlives
  PROVE  Counts(e2)
<1> SUFFICES ASSUME NEW a \in DOMAIN e
             PROVE  /\ e2[a].refcount >= e2[a].host + IF e2[a].parent_entry \in DOMAIN e THEN 1 ELSE 0
                    /\ e2[a].refcount > 1 => e2[a].outlives
                    /\ e2[a].parent_entry \notin DOMAIN e \cup {NULL} => e2[a].outlives
  BY DEF Counts
<1>1. e2[a].parent_entry = e[a].parent_entry
  BY DEF SameLink
<1>2. /\ e[a].refcount >= e[a].host + IF e[a].parent_entry \in DOMAIN e THEN 1 ELSE 0
      /\ e[a].refcount > 1 => e[a].outlives
      /\ e[a].parent_entry \notin DOMAIN e \cup {NULL} => e[a].outlives
  BY DEF Counts
<1> QED BY <1>1, <1>2

\* What a load finds when it begins: good tables, where its key is new.
MayLoad(t, s, r) ==
  /\ gated \subseteq regions /\ frames \in Seq(Frame)
  /\ Good(regions, t.entry, t.mod_hd, t.mods)
  /\ Running(t.entry, t.mod_hd, t.mods, frames)
  /\ s \in So /\ r \in regions /\ <<s, r>> \notin DOMAIN t.mod_hd
  /\ \A i \in DOMAIN frames : t.entry[frames[i].mod].so # s

\* The regions that a load may end in.
LEMMA ClaimFacts ==
  ASSUME NEW t, NEW s, NEW r, MayLoad(t, s, r), NEW c \in mod_load_claim_if_needed(s, r)
  PROVE  c \in Region /\ (c = r \/ c \notin regions) /\ <<s, c>> \in Key /\ <<s, c>> \notin DOMAIN t.mod_hd
<1>1. c \in Region /\ (c = r \/ c \notin regions)
  BY DEF mod_load_claim_if_needed, MayLoad, Good, Types
<1>2. <<s, c>> \notin DOMAIN t.mod_hd
  BY <1>1, NewKey DEF MayLoad
<1> QED BY <1>1, <1>2 DEF Key, MayLoad

\* A load that fails after it has bound the context leaves good tables.
LEMMA AbortStep ==
  ASSUME NEW t, NEW s, NEW r, NEW copy, MayLoad(t, s, r), NEW c \in Region,
         <<s, c>> \notin DOMAIN t.mod_hd,
         mod_load_abort(t, s, c, copy), regions \subseteq regions', regions' \subseteq Region
  PROVE  IInv'
<1> DEFINE e == t.entry
           hd == t.mod_hd
<1>0. Good(regions, e, hd, t.mods) /\ Running(e, hd, t.mods, frames)
  BY DEF MayLoad
<1>1. PICK e2 : e2 = _xy_init(e, s, copy, "lost")
  OBVIOUS
<1>2. PICK hd2, a : hd2 = corm_del(mod_load_publish_entry(hd, <<s, c>>, a), <<s, c>>) /\ mod_hd' = hd2
  BY DEF mod_load_abort
<1>3. DOMAIN hd2 = DOMAIN hd /\ \A k \in DOMAIN hd : hd2[k] = hd[k]
  BY <1>2 DEF corm_del, mod_load_publish_entry, corm_put
<1>4. PICK R2 : R2 = regions'
  OBVIOUS
<1>5. entry' = e2 /\ mods' = t.mods /\ frames' = frames /\ gated' = gated
  BY <1>1 DEF mod_load_abort
<1> HIDE DEF e, hd
<1>6. /\ DOMAIN e2 = DOMAIN e
      /\ \A d \in DOMAIN e : /\ e2[d] \in Entry /\ SameLink(e2[d], e[d]) /\ e2[d].refcount = e[d].refcount
                             /\ e2[d].host = e[d].host /\ e2[d].outlives = e[d].outlives
  <2>1. \A d \in DOMAIN e : e[d] \in Entry
    BY <1>0 DEF Good, Types
  <2> QED BY <1>1, <2>1, InitFacts
<1>7. Counts(e2)
  <2>1. Counts(e)
    BY <1>0 DEF Good
  <2> QED BY <1>6, <2>1, SameCounts
<1>8. Good(R2, e2, hd2, t.mods) /\ Running(e2, hd2, t.mods, frames)
  BY <1>0, <1>3, <1>4, <1>6, <1>7, SameLinks
<1>9. gated' \subseteq regions' /\ frames' \in Seq(Frame)
  BY <1>5 DEF MayLoad
<1> QED BY <1>2, <1>4, <1>5, <1>8, <1>9 DEF IInv

\* One more install runs.
LEMMA FrameFacts ==
  ASSUME NEW e, NEW hd, NEW ms, NEW fs \in Seq(Frame), Running(e, hd, ms, fs),
         NEW f \in Frame, f.mod \in DOMAIN e,
         f.region = NoRegion => f.after = NULL,
         f.region # NoRegion =>
           /\ fs = <<>>
           /\ e[f.mod].parent_entry = NULL
           /\ <<e[f.mod].so, f.region>> \in DOMAIN hd => hd[<<e[f.mod].so, f.region>>] = f.mod
           /\ f.after # NULL => IsIn(ms[f.region], f.after)
           /\ \A x \in DOMAIN e : UpTo(ms[f.region], x, f.after) => x \notin Reach(e, f.mod)
  PROVE  Append(fs, f) \in Seq(Frame) /\ Running(e, hd, ms, Append(fs, f))
<1>1. Append(fs, f) \in Seq(Frame)
  OBVIOUS
<1>2. PICK gs : gs = Append(fs, f)
  OBVIOUS
<1>3. /\ DOMAIN gs = 1 .. Len(fs) + 1 /\ Len(fs) \in Nat /\ DOMAIN fs = 1 .. Len(fs)
      /\ gs[Len(fs) + 1] = f /\ \A i \in 1 .. Len(fs) : gs[i] = fs[i]
  BY <1>2
<1>4. \A i \in DOMAIN gs : (i \in DOMAIN fs /\ gs[i] = fs[i]) \/ (i = Len(fs) + 1 /\ gs[i] = f)
  BY <1>3
<1>5. ASSUME NEW i \in DOMAIN gs
      PROVE  /\ gs[i] \in Frame /\ gs[i].mod \in DOMAIN e
             /\ gs[i].region = NoRegion => gs[i].after = NULL
  BY <1>4 DEF Running
<1>6. ASSUME NEW i \in DOMAIN gs, gs[i].region # NoRegion
      PROVE  LET k == <<e[gs[i].mod].so, gs[i].region>>
                 l == ms[gs[i].region]
             IN /\ i = 1
                /\ e[gs[i].mod].parent_entry = NULL
                /\ k \in DOMAIN hd => hd[k] = gs[i].mod
                /\ gs[i].after # NULL => IsIn(l, gs[i].after)
                /\ \A x \in DOMAIN e : UpTo(l, x, gs[i].after) => x \notin Reach(e, gs[i].mod)
  <2>1. CASE i \in DOMAIN fs /\ gs[i] = fs[i]
    BY <1>6, <2>1 DEF Running
  <2>2. CASE i = Len(fs) + 1 /\ gs[i] = f
    <3>1. f.region # NoRegion /\ fs = <<>>
      BY <1>6, <2>2
    <3>2. i = 1
      BY <2>2, <3>1
    <3> QED BY <2>2, <3>1, <3>2
  <2> QED BY <1>4, <2>1, <2>2
<1>7. Running(e, hd, ms, gs)
  BY <1>5, <1>6 DEF Running
<1> QED BY <1>1, <1>2, <1>7

\* The module whose install runs, if any, is loaded.
LEMMA LoadingMod ==
  ASSUME frames \in Seq(Frame), NEW e, NEW hd, NEW ms, Running(e, hd, ms, frames), DOMAIN e \subseteq Addr
  PROVE  IF frames = <<>> THEN xy_loading_mod = NULL ELSE xy_loading_mod \in DOMAIN e
<1>1. CASE frames = <<>>
  BY <1>1 DEF xy_loading_mod
<1>2. CASE frames # <<>>
  <2>1. Len(frames) \in DOMAIN frames
    BY <1>2
  <2> QED BY <1>2, <2>1 DEF xy_loading_mod, Last, Running
<1> QED BY <1>1, <1>2

\* The frame and the references that such a load begins with: a reload is the outermost
\* load, for the old region, and its position is there.
MayInstall(t, r, h, frame) ==
  /\ h \in 0 .. MaxRefs /\ 1 >= h + IF frames = <<>> THEN 0 ELSE 1
  /\ frame \in [mod : {NULL}, region : Region \cup {NoRegion}, after : Addr \cup {NULL}]
  /\ \/ frame.region = NoRegion /\ frame.after = NULL
     \/ /\ frames = <<>> /\ frame.region = r
        /\ frame.after # NULL => IsIn(t.mods[r], frame.after)

\* A load that comes to xy_install keeps the invariant.
LEMMA InstallStep ==
  ASSUME NEW t, NEW s, NEW r, NEW copy, NEW h, NEW frame, MayLoad(t, s, r),
         MayInstall(t, r, h, frame), mod_load_run_install(t, s, r, copy, h, frame)
  PROVE  IInv'
<1> DEFINE e == t.entry
           hd == t.mod_hd
           ms == t.mods
<1>0. /\ Good(regions, e, hd, ms) /\ Running(e, hd, ms, frames) /\ frames \in Seq(Frame)
      /\ s \in So /\ r \in regions /\ <<s, r>> \notin DOMAIN hd
      /\ \A i \in DOMAIN frames : e[frames[i].mod].so # s
  BY DEF MayLoad
<1>1. PICK c \in mod_load_claim_if_needed(s, r), a \in calloc(t) :
        /\ entry' = [x \in DOMAIN e \cup {a} |->
                       IF x = a THEN mod_load_alloc_entry(s, c, mod_load_bind_xy(s, copy), h)
                       ELSE _xy_init(e, s, copy, "shared")[x]]
        /\ mod_hd' = module_rekey_for_claim(
                       mod_load_publish_entry(hd, <<s, r>>, a), <<s, r>>, <<s, c>>)
        /\ mods' = [ms EXCEPT ![c] = module_region_append(@, a)]
        /\ regions' = regions \cup {c}
        /\ frames' = Append(frames, [frame EXCEPT !.mod = a])
        /\ gated' = gated
  BY DEF mod_load_run_install
<1>2. c \in Region /\ (c = r \/ c \notin regions) /\ <<s, c>> \in Key /\ <<s, c>> \notin DOMAIN hd
  BY ClaimFacts
<1>3. a \in Addr \ DOMAIN e /\ \A d \in DOMAIN e : e[d].parent_entry # a
  BY DEF calloc
<1> HIDE DEF e, hd, ms
<1>4. /\ \A d \in DOMAIN e : e[d] \in Entry
      /\ DOMAIN e \subseteq Addr /\ regions \subseteq Region
  BY <1>0 DEF Good, Types
<1>5. PICK hd2 : hd2 = module_rekey_for_claim(
                         mod_load_publish_entry(hd, <<s, r>>, a), <<s, r>>, <<s, c>>)
  OBVIOUS
<1>6. /\ DOMAIN hd2 = DOMAIN hd \cup {<<s, c>>}
      /\ hd2[<<s, c>>] = a /\ \A k \in DOMAIN hd : hd2[k] = hd[k]
  <2>1. <<s, r>> \notin DOMAIN hd /\ <<s, c>> \notin DOMAIN hd
    BY <1>0, <1>2
  <2> QED BY <1>5, <2>1, RekeyFacts
<1>7. PICK ms2 : ms2 = [ms EXCEPT ![c] = module_region_append(@, a)]
  OBVIOUS
<1>8. PICK n : n = mod_load_alloc_entry(s, c, mod_load_bind_xy(s, copy), h)
  OBVIOUS
<1>9. IF frames = <<>> THEN xy_loading_mod = NULL ELSE xy_loading_mod \in DOMAIN e
  BY <1>0, <1>4, LoadingMod
<1>10. /\ n \in Entry /\ n.so = s /\ n.region = c /\ n.refcount = 1 /\ n.host = h
       /\ n.parent_entry = xy_loading_mod
  <2>1. mod_load_bind_xy(s, copy) \in {"none", "private", "shared", "lost"}
    BY DEF mod_load_bind_xy
  <2>2. xy_loading_mod \in Addr \cup {NULL}
    BY <1>4, <1>9
  <2>3. 1 \in 1 .. MaxRefs
    BY BoundAssumption
  <2> HIDE DEF mod_load_bind_xy, xy_loading_mod
  <2>4. h \in 0 .. MaxRefs
    BY DEF MayInstall
  <2> QED BY <1>0, <1>2, <1>8, <2>1, <2>2, <2>3, <2>4 DEF mod_load_alloc_entry, Entry
<1>11. PICK e2 : e2 = [x \in DOMAIN e \cup {a} |->
                         IF x = a THEN n ELSE _xy_init(e, s, copy, "shared")[x]]
  OBVIOUS
<1>12. /\ DOMAIN e2 = DOMAIN e \cup {a} /\ e2[a] = n
       /\ \A d \in DOMAIN e : e2[d] = _xy_init(e, s, copy, "shared")[d]
  BY <1>3, <1>11
<1>13. \A d \in DOMAIN e :
         /\ e2[d] \in Entry /\ SameLink(e2[d], e[d])
         /\ e2[d].refcount = e[d].refcount /\ e2[d].host = e[d].host
         /\ e2[d].outlives = e[d].outlives
  BY <1>4, <1>12, InitFacts
<1>14. e2[a].parent_entry \in DOMAIN e \cup {NULL} /\ NULL \notin DOMAIN e
  BY <1>4, <1>9, <1>10, <1>12, AddrAssumption
<1>15. 1 >= e2[a].host + IF e2[a].parent_entry \in DOMAIN e THEN 1 ELSE 0
  <2>1. e2[a].host = h /\ (e2[a].parent_entry \in DOMAIN e <=> frames # <<>>)
    BY <1>9, <1>10, <1>12, <1>14
  <2> QED BY <2>1 DEF MayInstall
<1>16. e2[a] \in Entry /\ e2[a].so = s /\ e2[a].region = c /\ e2[a].refcount = 1
  BY <1>10, <1>12
<1>17a. Adds(e, hd, ms, frames, s, c, a, e2, hd2, ms2)
  BY <1>0, <1>2, <1>3, <1>6, <1>7, <1>12, <1>13, <1>14, <1>15, <1>16 DEF Adds
<1>17. /\ Good(regions \cup {c}, e2, hd2, ms2)
       /\ Running(e2, hd2, ms2, frames)
       /\ Reach(e2, a) \subseteq {a}
       /\ \A q \in Region, x \in DOMAIN e : IsIn(ms[q], x) => IsIn(ms2[q], x)
       /\ \A q \in Region : Ends(ms2[q], a)
  <2>1. Good(regions \cup {c}, e2, hd2, ms2) /\ Running(e2, hd2, ms2, frames)
    BY <1>0, <1>17a, InstallGood
  <2>2. Reach(e2, a) \subseteq {a}
    BY <1>0, <1>17a, InstallGood
  <2>3. \A q \in Region, x \in DOMAIN e : IsIn(ms[q], x) => IsIn(ms2[q], x)
    BY <1>0, <1>17a, InstallGood
  <2>4. \A q \in Region : Ends(ms2[q], a)
    BY <1>0, <1>17a, InstallGood
  <2> QED BY <2>1, <2>2, <2>3, <2>4
<1>18. PICK f : f = [frame EXCEPT !.mod = a]
  OBVIOUS
<1>19. f \in Frame /\ f.mod = a /\ f.region = frame.region /\ f.after = frame.after
  BY <1>3, <1>18 DEF Frame, MayInstall
<1>20. ASSUME f.region # NoRegion
       PROVE  /\ frames = <<>>
              /\ e2[f.mod].parent_entry = NULL
              /\ <<e2[f.mod].so, f.region>> \in DOMAIN hd2 => hd2[<<e2[f.mod].so, f.region>>] = f.mod
              /\ f.after # NULL => IsIn(ms2[f.region], f.after)
              /\ \A x \in DOMAIN e2 : UpTo(ms2[f.region], x, f.after) => x \notin Reach(e2, f.mod)
  <2>1. frames = <<>> /\ f.region = r /\ (f.after # NULL => IsIn(ms[r], f.after)) /\ r \in Region
    BY <1>0, <1>4, <1>19, <1>20 DEF ms, MayInstall
  <2>2. e2[f.mod].parent_entry = NULL /\ e2[f.mod].so = s
    BY <1>9, <1>10, <1>12, <1>19, <2>1
  <2>3. <<s, r>> \in DOMAIN hd2 => hd2[<<s, r>>] = a
    BY <1>0, <1>6
  <2>4. f.after # NULL => f.after \in DOMAIN e
    BY <1>0, <2>1 DEF Good, ListExact, IsIn
  <2>5. f.after # NULL => IsIn(ms2[r], f.after)
    BY <1>17, <2>1, <2>4
  <2>6. ASSUME NEW x, UpTo(ms2[r], x, f.after) PROVE x # a
    <3>1. f.after # NULL /\ f.after # a
      BY <1>3, <2>4, <2>6 DEF UpTo
    <3> QED BY <1>17, <2>1, <2>6, <3>1 DEF UpTo, Ends
  <2> QED BY <1>17, <1>19, <2>1, <2>2, <2>3, <2>5, <2>6
<1>21. f.region = NoRegion => f.after = NULL
  BY <1>0, <1>4, <1>19, RegionAssumption DEF MayInstall
<1>22. f.mod \in DOMAIN e2
  BY <1>12, <1>19
<1>23. Append(frames, f) \in Seq(Frame) /\ Running(e2, hd2, ms2, Append(frames, f))
  BY <1>0, <1>17, <1>19, <1>20, <1>21, <1>22, FrameFacts
<1>24. gated \subseteq regions \cup {c}
  BY DEF MayLoad
<1>25. /\ entry' = e2 /\ mod_hd' = hd2 /\ mods' = ms2 /\ regions' = regions \cup {c}
       /\ frames' = Append(frames, f) /\ gated' = gated
  BY <1>1, <1>5, <1>7, <1>8, <1>11, <1>18
<1> QED BY <1>17, <1>23, <1>24, <1>25 DEF IInv

\* No install, nothing to say of it.
LEMMA RunningNone ==
  ASSUME NEW e, NEW hd, NEW ms
  PROVE  Running(e, hd, ms, <<>>)
BY DEF Running

\* The four ends of a load keep the invariant.
LEMMA LoadStep ==
  ASSUME NEW t, NEW s, NEW r, NEW copy, NEW h, NEW frame, MayLoad(t, s, r),
         MayInstall(t, r, h, frame),
         \/ mod_load_check_ctx_abi(t)
         \/ mod_load_refused(t, s, r, copy)
         \/ mod_load_no_install(t, s, r, copy)
         \/ mod_load_run_install(t, s, r, copy, h, frame)
  PROVE  IInv'
<1>1. CASE mod_load_check_ctx_abi(t)
  <2>1. /\ entry' = t.entry /\ mod_hd' = t.mod_hd /\ mods' = t.mods
        /\ regions' = regions /\ gated' = gated /\ frames' = frames
    BY <1>1 DEF mod_load_check_ctx_abi, Become
  <2> QED BY <2>1 DEF MayLoad, IInv
<1>2. r \in Region /\ regions \subseteq Region /\ <<s, r>> \notin DOMAIN t.mod_hd
  BY DEF MayLoad, Good, Types
<1>3. CASE mod_load_refused(t, s, r, copy)
  <2>1. mod_load_abort(t, s, r, copy) /\ regions' = regions
    BY <1>3 DEF mod_load_refused
  <2> QED BY <1>2, <2>1, AbortStep
<1>4. CASE mod_load_no_install(t, s, r, copy)
  <2>1. PICK c \in mod_load_claim_if_needed(s, r) :
          mod_load_abort(t, s, c, copy) /\ regions' = regions \cup {c}
    BY <1>4 DEF mod_load_no_install
  <2>2. c \in Region /\ <<s, c>> \notin DOMAIN t.mod_hd
    BY ClaimFacts
  <2>3. regions \subseteq regions' /\ regions' \subseteq Region
    BY <1>2, <2>1, <2>2
  <2> QED BY <2>1, <2>2, <2>3, AbortStep
<1>5. CASE mod_load_run_install(t, s, r, copy, h, frame)
  BY <1>5, InstallStep
<1> QED BY <1>1, <1>3, <1>4, <1>5

\* xy_load of a module that is not loaded in the region.
LEMMA LoadPreserves ==
  ASSUME IInv, NEW k \in Key, xy_load(k)
  PROVE  IInv'
<1>1. PICK t : t = Now
  OBVIOUS
<1>2. t.entry = entry /\ t.mod_hd = mod_hd /\ t.mods = mods
  BY <1>1 DEF Now
<1>3. k[1] \in So /\ k[2] \in Region /\ k = <<k[1], k[2]>>
  BY DEF Key
<1>4. MayLoad(t, k[1], k[2])
  BY <1>2, <1>3 DEF MayLoad, IInv, xy_load
<1>5. PICK h : h = ByHost
  OBVIOUS
<1>6. PICK copy : copy = mod_load_open_handle(k[1], xy_reloading)
  OBVIOUS
<1>7. MayInstall(t, k[2], h, PlainFrame)
  <2>1. h \in 0 .. MaxRefs /\ 1 >= h + IF frames = <<>> THEN 0 ELSE 1
    BY <1>5, BoundAssumption DEF ByHost
  <2>2. /\ PlainFrame \in [mod : {NULL}, region : Region \cup {NoRegion}, after : Addr \cup {NULL}]
        /\ PlainFrame.region = NoRegion /\ PlainFrame.after = NULL
    BY DEF PlainFrame
  <2> QED BY <2>1, <2>2 DEF MayInstall
<1>8. \/ mod_load_check_ctx_abi(t)
      \/ mod_load_refused(t, k[1], k[2], copy)
      \/ mod_load_no_install(t, k[1], k[2], copy)
      \/ mod_load_run_install(t, k[1], k[2], copy, h, PlainFrame)
  BY <1>1, <1>5, <1>6 DEF xy_load
<1> QED BY <1>4, <1>7, <1>8, LoadStep

\* A table with the counts of one entry changed, and no link.
LEMMA CountStep ==
  ASSUME IInv, NEW a \in DOMAIN entry, NEW x \in Entry, SameLink(x, entry[a]),
         x.refcount >= x.host + IF x.parent_entry \in DOMAIN entry THEN 1 ELSE 0,
         x.outlives,
         entry' = [entry EXCEPT ![a] = x], UNCHANGED <<regions, gated, mod_hd, mods, frames>>
  PROVE  IInv'
<1>1. PICK e2 : e2 = [entry EXCEPT ![a] = x]
  OBVIOUS
<1>2. Good(regions, entry, mod_hd, mods) /\ Running(entry, mod_hd, mods, frames)
  BY DEF IInv
<1>3. /\ DOMAIN e2 = DOMAIN entry /\ e2[a] = x
      /\ \A d \in DOMAIN entry : d # a => e2[d] = entry[d]
  BY <1>1
<1>4. ASSUME NEW d \in DOMAIN entry
      PROVE  /\ e2[d] \in Entry /\ SameLink(e2[d], entry[d])
             /\ e2[d].refcount >= e2[d].host + IF e2[d].parent_entry \in DOMAIN e2 THEN 1 ELSE 0
             /\ e2[d].refcount > 1 => e2[d].outlives
             /\ e2[d].parent_entry \notin DOMAIN e2 \cup {NULL} => e2[d].outlives
  <2>1. CASE d = a
    BY <1>3, <2>1
  <2>2. CASE d # a
    BY <1>2, <1>3, <2>2 DEF Good, Types, Counts, SameLink
  <2> QED BY <2>1, <2>2
<1>5. Counts(e2)
  BY <1>3, <1>4 DEF Counts
<1>6. regions \subseteq Region
  BY <1>2 DEF Good, Types
<1>7. Good(regions, e2, mod_hd, mods) /\ Running(e2, mod_hd, mods, frames)
  BY <1>2, <1>3, <1>4, <1>5, <1>6, SameLinks
<1>8. /\ entry' = e2 /\ regions' = regions /\ gated' = gated /\ mod_hd' = mod_hd /\ mods' = mods
      /\ frames' = frames
  BY <1>1
<1> QED BY <1>7, <1>8 DEF IInv

\* The entry of a key of the table.
LEMMA EntryFacts ==
  ASSUME IInv, NEW k \in Key, k \in DOMAIN mod_hd
  PROVE  /\ mod_hd[k] \in DOMAIN entry /\ entry[mod_hd[k]] \in Entry /\ k = KeyOf(entry, mod_hd[k])
         /\ k[1] \in So /\ k[2] \in regions /\ k[2] \in Region
         /\ entry[mod_hd[k]].so = k[1] /\ entry[mod_hd[k]].region = k[2]
         /\ entry[mod_hd[k]].refcount \in Nat /\ entry[mod_hd[k]].host \in Nat
         /\ entry[mod_hd[k]].refcount >= entry[mod_hd[k]].host
              + IF entry[mod_hd[k]].parent_entry \in DOMAIN entry THEN 1 ELSE 0
         /\ entry[mod_hd[k]].refcount > 1 => entry[mod_hd[k]].outlives
         /\ IsIn(mods[k[2]], mod_hd[k])
<1>1. PICK a : a = mod_hd[k]
  OBVIOUS
<1>2. a \in DOMAIN entry /\ k = KeyOf(entry, a) /\ entry[a] \in Entry /\ entry[a].region \in regions
  BY <1>1 DEF IInv, Good, HdExact, Types
<1>3. k[1] = entry[a].so /\ k[2] = entry[a].region
  BY <1>2 DEF KeyOf
<1>4. k[1] \in So /\ k[2] \in regions /\ k[2] \in Region
  BY <1>2, <1>3 DEF Entry
<1>5. entry[a].refcount \in Nat /\ entry[a].host \in Nat
  BY <1>2, BoundAssumption DEF Entry
<1>6. /\ entry[a].refcount >= entry[a].host + IF entry[a].parent_entry \in DOMAIN entry THEN 1 ELSE 0
      /\ entry[a].refcount > 1 => entry[a].outlives
  BY <1>2 DEF IInv, Good, Counts
<1>7. IsIn(mods[k[2]], a)
  BY <1>2, <1>3, <1>4 DEF IInv, Good, ListExact
<1> QED BY <1>1, <1>2, <1>3, <1>4, <1>5, <1>6, <1>7

\* One more reference: mod_load_try_reuse_existing.
LEMMA ReusePreserves ==
  ASSUME IInv, NEW k \in Key, mod_load_try_reuse_existing(k)
  PROVE  IInv'
<1>1. k \in DOMAIN mod_hd /\ entry[mod_hd[k]].refcount < MaxRefs
  BY DEF mod_load_try_reuse_existing
<1>2. PICK a : a = mod_hd[k]
  OBVIOUS
<1>3. PICK y : y = entry[a]
  OBVIOUS
<1>4. /\ a \in DOMAIN entry /\ y \in Entry /\ y.refcount < MaxRefs
      /\ y.refcount \in Nat /\ y.host \in Nat
      /\ y.refcount >= y.host + IF y.parent_entry \in DOMAIN entry THEN 1 ELSE 0
  BY <1>1, <1>2, <1>3, EntryFacts
<1>5. PICK h : h = ByHost
  OBVIOUS
<1>6. PICK x : x = Ref(y, h)
  OBVIOUS
<1>7. h \in 0 .. 1
  BY <1>5 DEF ByHost
<1>8. y.host <= y.refcount
  BY <1>4
<1>9. /\ x \in Entry /\ SameLink(x, y) /\ x.refcount = y.refcount + 1 /\ x.host = y.host + h
      /\ x.outlives
  BY <1>4, <1>6, <1>7, <1>8, RefFacts
<1>10. x.refcount >= x.host + IF x.parent_entry \in DOMAIN entry THEN 1 ELSE 0
  <2>1. x.parent_entry = y.parent_entry
    BY <1>9 DEF SameLink
  <2> QED BY <1>4, <1>7, <1>9, <2>1
<1>11. entry' = [entry EXCEPT ![a] = x]
  BY <1>2, <1>3, <1>5, <1>6 DEF mod_load_try_reuse_existing
<1>12. UNCHANGED <<regions, gated, mod_hd, mods, frames>>
  BY DEF mod_load_try_reuse_existing
<1> QED BY <1>3, <1>4, <1>9, <1>10, <1>11, <1>12, CountStep

\* One reference less: xy_unload of a module that has more.
LEMMA UnloadSharedPreserves ==
  ASSUME IInv, NEW k \in Key, xy_unload_shared(k)
  PROVE  IInv'
<1>1. k \in DOMAIN mod_hd /\ entry[mod_hd[k]].refcount > 1
  BY DEF xy_unload_shared
<1>2. PICK a : a = mod_hd[k]
  OBVIOUS
<1>3. PICK y : y = entry[a]
  OBVIOUS
<1>4. /\ a \in DOMAIN entry /\ y \in Entry /\ y.refcount > 1 /\ y.outlives
      /\ y.refcount \in Nat /\ y.host \in Nat
      /\ y.refcount >= y.host + IF y.parent_entry \in DOMAIN entry THEN 1 ELSE 0
  BY <1>1, <1>2, <1>3, EntryFacts
<1>5. PICK u : u = Unref(y)
  OBVIOUS
<1>6. /\ u \in Entry /\ SameLink(u, y) /\ u.refcount = y.refcount - 1 /\ u.host = y.host
      /\ u.outlives = y.outlives
  <2>1. y \in Entry /\ y.refcount # 1
    BY <1>4
  <2>2. /\ Unref(y) \in Entry /\ SameLink(Unref(y), y) /\ Unref(y).refcount = y.refcount - 1
        /\ Unref(y).host = y.host /\ Unref(y).outlives = y.outlives
    BY <2>1, UnrefFacts
  <2> QED BY <1>5, <2>2
<1>7. PICK x : x = LetGo(u)
  OBVIOUS
<1>8. /\ x \in Entry /\ SameLink(x, u) /\ x.refcount = u.refcount /\ x.outlives = u.outlives
      /\ x.host = IF u.host = 0 THEN 0 ELSE u.host - 1
  BY <1>6, <1>7, LetGoFacts
<1>9. SameLink(x, y) /\ x.outlives
  BY <1>4, <1>6, <1>8 DEF SameLink
<1>10. x.refcount >= x.host + IF x.parent_entry \in DOMAIN entry THEN 1 ELSE 0
  <2>1. x.parent_entry = y.parent_entry
    BY <1>9 DEF SameLink
  <2>2. x.refcount = y.refcount - 1 /\ x.host = IF y.host = 0 THEN 0 ELSE y.host - 1
    BY <1>6, <1>8
  <2> QED BY <1>4, <2>1, <2>2
<1>11. entry' = [entry EXCEPT ![a] = x]
  BY <1>2, <1>3, <1>5, <1>7 DEF xy_unload_shared
<1>12. UNCHANGED <<regions, gated, mod_hd, mods, frames>>
  BY DEF xy_unload_shared
<1> QED BY <1>3, <1>4, <1>8, <1>9, <1>10, <1>11, <1>12, CountStep

\* The neighbour that a reload remembers: what stands up to it stands before the module,
\* and what stands behind it stands behind the module.
LEMMA PreviousFacts ==
  ASSUME NEW l \in Seq(Addr), NEW a, IsIn(l, a), Once(l), NEW p, p = Previous(l, a)
  PROVE  /\ p \in Addr \cup {NULL}
         /\ p # NULL => Precedes(l, p, a) /\ IsIn(l, p) /\ p # a
         /\ \A x : UpTo(l, x, p) => Precedes(l, x, a)
         /\ \A y : y # a /\ IsIn(l, y) /\ (p # NULL => Precedes(l, p, y)) => Precedes(l, a, y)
<1>1. PICK i \in DOMAIN l : i = Position(l, a) /\ l[i] = a
  BY PositionFacts
<1>2. DOMAIN l = 1 .. Len(l) /\ Len(l) \in Nat /\ \A j \in DOMAIN l : l[j] \in Addr
  OBVIOUS
<1>3. p = IF i = 1 THEN NULL ELSE l[i - 1]
  BY <1>1 DEF Previous
<1>4. p # NULL => i # 1 /\ i - 1 \in DOMAIN l /\ l[i - 1] = p
  BY <1>2, <1>3
<1>5. p = NULL => i = 1
  <2>1. i # 1 => i - 1 \in DOMAIN l /\ l[i - 1] \in Addr
    BY <1>2
  <2> QED BY <1>3, <2>1, AddrAssumption
<1>6. p \in Addr \cup {NULL}
  BY <1>2, <1>4
<1>7. ASSUME p # NULL PROVE Precedes(l, p, a) /\ IsIn(l, p) /\ p # a
  <2>1. i - 1 \in DOMAIN l /\ l[i - 1] = p /\ i - 1 < i
    BY <1>2, <1>4, <1>7
  <2> QED BY <1>1, <2>1 DEF Precedes, IsIn, Once
<1>8. ASSUME NEW x, UpTo(l, x, p) PROVE Precedes(l, x, a)
  <2>1. p # NULL /\ i - 1 \in DOMAIN l /\ l[i - 1] = p
    BY <1>4, <1>8 DEF UpTo
  <2>2. CASE x = p
    BY <1>7, <2>1, <2>2
  <2>3. CASE Precedes(l, x, p)
    <3>1. PICK m, n \in DOMAIN l : m < n /\ l[m] = x /\ l[n] = p
      BY <2>3 DEF Precedes
    <3>2. n = i - 1
      BY <2>1, <3>1 DEF Once
    <3>3. m < i
      BY <1>2, <3>1, <3>2
    <3> QED BY <1>1, <3>1, <3>3 DEF Precedes
  <2> QED BY <1>8, <2>2, <2>3 DEF UpTo
<1>9. ASSUME NEW y, y # a, IsIn(l, y), p # NULL => Precedes(l, p, y) PROVE Precedes(l, a, y)
  <2>1. PICK n \in DOMAIN l : l[n] = y
    BY <1>9 DEF IsIn
  <2>2. n # i
    BY <1>1, <1>9, <2>1
  <2>3. CASE p = NULL
    <3>1. i < n
      BY <1>2, <1>5, <2>2, <2>3
    <3> QED BY <1>1, <2>1, <3>1 DEF Precedes
  <2>4. CASE p # NULL
    <3>1. PICK m, q \in DOMAIN l : m < q /\ l[m] = p /\ l[q] = y
      BY <1>9, <2>4 DEF Precedes
    <3>2. m = i - 1 /\ q = n
      BY <1>4, <2>1, <2>4, <3>1 DEF Once
    <3>3. i < n
      BY <1>2, <2>2, <3>1, <3>2
    <3> QED BY <1>1, <2>1, <3>3 DEF Precedes
  <2> QED BY <2>3, <2>4
<1> QED BY <1>6, <1>7, <1>8, <1>9

\* The list of a region in a state.
LEMMA ListFacts ==
  ASSUME IInv, NEW r \in Region
  PROVE  /\ mods[r] \in Seq(Addr) /\ ListExact(entry, mods[r], r) /\ Ordered(entry, mods[r])
         /\ Once(mods[r]) /\ \A x : IsIn(mods[r], x) => x \in DOMAIN entry
<1>1. mods[r] \in Seq(Addr) /\ ListExact(entry, mods[r], r) /\ Ordered(entry, mods[r])
  BY DEF IInv, Good, Types
<1> QED BY <1>1 DEF ListExact, IsIn

\* The last reference: xy_unload with its cascade.
LEMMA UnloadPreserves ==
  ASSUME IInv, NEW k \in Key, xy_unload(k)
  PROVE  IInv'
<1>1. k \in DOMAIN mod_hd /\ frames = <<>>
  BY DEF xy_unload
<1>2. PICK a : a = mod_hd[k]
  OBVIOUS
<1>3. a \in DOMAIN entry /\ Good(regions, entry, mod_hd, mods)
  BY <1>1, <1>2, EntryFacts DEF IInv
<1>4. PICK U \in Unreadable : Become(Without(Dying(a, U), U))
  BY <1>2 DEF xy_unload
<1>5. PICK t : t = Without(Dying(a, U), U)
  OBVIOUS
<1>6. Good(regions, t.entry, t.mod_hd, t.mods)
  BY <1>3, <1>5, WithoutGood
<1>7. /\ entry' = t.entry /\ mod_hd' = t.mod_hd /\ mods' = t.mods
      /\ regions' = regions /\ gated' = gated /\ frames' = frames
  BY <1>4, <1>5 DEF Become, xy_unload
<1>8. Running(t.entry, t.mod_hd, t.mods, frames)
  BY <1>1, RunningNone
<1> QED BY <1>6, <1>7, <1>8 DEF IInv

\* xy_reload of the last reference: the cascade, then a load.
LEMMA ReloadPreserves ==
  ASSUME IInv, NEW k \in Key, xy_reload(k)
  PROVE  IInv'
<1>1. k \in DOMAIN mod_hd /\ frames = <<>> /\ entry[mod_hd[k]].refcount = 1
  BY DEF xy_reload
<1>2. PICK a : a = mod_hd[k]
  OBVIOUS
<1>3. /\ a \in DOMAIN entry /\ Good(regions, entry, mod_hd, mods) /\ k = KeyOf(entry, a)
      /\ k[1] \in So /\ k[2] \in regions /\ k[2] \in Region /\ IsIn(mods[k[2]], a)
  BY <1>1, <1>2, EntryFacts DEF IInv
<1>4. PICK p : p = Previous(mods[k[2]], a)
  OBVIOUS
<1>5. PICK frame : frame = [mod |-> NULL, region |-> k[2], after |-> p]
  OBVIOUS
<1>6. PICK copy : copy = mod_load_open_handle(k[1], TRUE)
  OBVIOUS
<1>7. PICK h : h = entry[a].host
  OBVIOUS
<1>8. PICK U, t :
        /\ U \in Unreadable
        /\ t = Without(Dying(a, U), U)
        /\ \/ mod_load_check_ctx_abi(t)
           \/ mod_load_refused(t, k[1], k[2], copy)
           \/ mod_load_no_install(t, k[1], k[2], copy)
           \/ mod_load_run_install(t, k[1], k[2], copy, h, frame)
  BY <1>2, <1>4, <1>5, <1>6, <1>7 DEF xy_reload
<1>9. /\ Good(regions, t.entry, t.mod_hd, t.mods)
      /\ k \notin DOMAIN t.mod_hd
      /\ \A r \in Region, x \in DOMAIN entry : Precedes(mods[r], x, a) => IsIn(t.mods[r], x)
  BY <1>3, <1>8, WithoutGood
<1>10. k = <<k[1], k[2]>>
  BY DEF Key
<1>11. MayLoad(t, k[1], k[2])
  <2>1. Running(t.entry, t.mod_hd, t.mods, frames)
    BY <1>1, RunningNone
  <2> QED BY <1>1, <1>3, <1>9, <1>10, <2>1 DEF MayLoad, IInv
<1>12. MayInstall(t, k[2], h, frame)
  <2>1. h \in 0 .. MaxRefs /\ 1 >= h + IF frames = <<>> THEN 0 ELSE 1
    <3>1. entry[a] \in Entry /\ entry[a].refcount = 1 /\ entry[a].host \in Nat
          /\ entry[a].refcount >= entry[a].host + IF entry[a].parent_entry \in DOMAIN entry THEN 1 ELSE 0
      BY <1>1, <1>2, EntryFacts
    <3> QED BY <1>1, <1>7, <3>1, BoundAssumption
  <2>2. mods[k[2]] \in Seq(Addr) /\ Once(mods[k[2]]) /\ \A x : IsIn(mods[k[2]], x) => x \in DOMAIN entry
    BY <1>3, ListFacts
  <2>3. p \in Addr \cup {NULL} /\ (p # NULL => Precedes(mods[k[2]], p, a) /\ IsIn(mods[k[2]], p))
    BY <1>3, <1>4, <2>2, PreviousFacts
  <2>4. p # NULL => IsIn(t.mods[k[2]], p)
    BY <1>3, <1>9, <2>2, <2>3
  <2>5. /\ frame \in [mod : {NULL}, region : Region \cup {NoRegion}, after : Addr \cup {NULL}]
        /\ frame.region = k[2] /\ frame.after = p
    BY <1>3, <1>5, <2>3
  <2> QED BY <1>1, <2>1, <2>4, <2>5 DEF MayInstall
<1> QED BY <1>8, <1>11, <1>12, LoadStep

\* xy_reload of a module with more references.
LEMMA ReloadSharedPreserves ==
  ASSUME IInv, NEW k \in Key, xy_reload_shared(k)
  PROVE  IInv'
<1>1. k \in DOMAIN mod_hd /\ frames = <<>>
  BY DEF xy_reload_shared
<1>2. PICK a, r : a = mod_hd[k] /\ r = k[2]
  OBVIOUS
<1>3. /\ a \in DOMAIN entry /\ Good(regions, entry, mod_hd, mods) /\ entry[a].region = r
      /\ r \in Region /\ IsIn(mods[r], a)
  BY <1>1, <1>2, EntryFacts DEF IInv
<1>4. PICK p : p = Previous(mods[r], a)
  OBVIOUS
<1>5. /\ mods[r] \in Seq(Addr) /\ Once(mods[r]) /\ Ordered(entry, mods[r])
  BY <1>3, ListFacts
<1>6. /\ p # NULL => Precedes(mods[r], p, a) /\ IsIn(mods[r], p) /\ p # a
      /\ \A x : UpTo(mods[r], x, p) => Precedes(mods[r], x, a)
      /\ \A y : y # a /\ IsIn(mods[r], y) /\ (p # NULL => Precedes(mods[r], p, y)) => Precedes(mods[r], a, y)
  BY <1>3, <1>4, <1>5, PreviousFacts
<1>7. \A x \in DOMAIN entry : UpTo(mods[r], x, p) => x \notin Reach(entry, a)
  BY <1>3, <1>5, <1>6 DEF Ordered
<1>8. \A y \in DOMAIN entry : y # a /\ IsIn(mods[r], y) /\ (p # NULL => Precedes(mods[r], p, y))
        => a \notin Reach(entry, y)
  BY <1>3, <1>5, <1>6 DEF Ordered
<1>9. PICK ms2 : ms2 = [mods EXCEPT ![r] =
                          module_region_insert_after(module_region_detach(@, a), a, p)]
  OBVIOUS
<1>10. Good(regions, entry, mod_hd, ms2)
  BY <1>3, <1>6, <1>7, <1>8, <1>9, MoveGood
<1>11. /\ mods' = ms2 /\ regions' = regions /\ gated' = gated /\ entry' = entry
       /\ mod_hd' = mod_hd /\ frames' = frames
  BY <1>2, <1>4, <1>9 DEF xy_reload_shared
<1>12. Running(entry, mod_hd, ms2, frames)
  BY <1>1, RunningNone
<1> QED BY <1>10, <1>11, <1>12 DEF IInv

\* xy_install returns; the end of a reload moves the module to the old position.
LEMMA ReturnPreserves ==
  ASSUME IInv, InstallReturns
  PROVE  IInv'
<1>0. /\ Good(regions, entry, mod_hd, mods) /\ Running(entry, mod_hd, mods, frames)
      /\ frames \in Seq(Frame) /\ frames # <<>> /\ gated \subseteq regions
  BY DEF IInv, InstallReturns
<1>1. PICK n \in Nat : n = Len(frames)
  BY <1>0
<1>2. PICK f : f = frames[n]
  OBVIOUS
<1>3. n \in DOMAIN frames /\ DOMAIN frames = 1 .. n /\ n >= 1
  BY <1>0, <1>1
<1>4. f \in Frame /\ f.mod \in DOMAIN entry
  BY <1>0, <1>2, <1>3 DEF Running
<1>5. PICK gs : gs = Front(frames)
  OBVIOUS
<1>6. gs \in Seq(Frame) /\ DOMAIN gs = 1 .. n - 1 /\ \A i \in 1 .. n - 1 : gs[i] = frames[i]
  BY <1>0, <1>1, <1>3, <1>5 DEF Front
<1>7. PICK k : k = <<entry[f.mod].so, f.region>>
  OBVIOUS
<1>8. /\ mods' = IF f.region = NoRegion \/ k \notin DOMAIN mod_hd THEN mods
                 ELSE [mods EXCEPT ![f.region] =
                         module_region_insert_after(
                           module_region_detach(@, mod_hd[k]), mod_hd[k], f.after)]
      /\ frames' = gs /\ regions' = regions /\ gated' = gated /\ entry' = entry /\ mod_hd' = mod_hd
  BY <1>1, <1>2, <1>5, <1>7 DEF InstallReturns, Last
<1>9. CASE f.region = NoRegion \/ k \notin DOMAIN mod_hd
  <2>1. mods' = mods
    BY <1>8, <1>9
  <2>2. Running(entry, mod_hd, mods, gs)
    <3>1. \A i \in DOMAIN gs : i \in DOMAIN frames /\ gs[i] = frames[i]
      BY <1>3, <1>6
    <3> QED BY <1>0, <3>1 DEF Running
  <2> QED BY <1>0, <1>6, <1>8, <2>1, <2>2 DEF IInv
<1>10. CASE f.region # NoRegion /\ k \in DOMAIN mod_hd
  <2>1. /\ n = 1
        /\ entry[f.mod].parent_entry = NULL
        /\ mod_hd[k] = f.mod
        /\ f.after # NULL => IsIn(mods[f.region], f.after)
        /\ \A x \in DOMAIN entry : UpTo(mods[f.region], x, f.after) => x \notin Reach(entry, f.mod)
    BY <1>0, <1>2, <1>3, <1>7, <1>10 DEF Running
  <2>2. PICK a, r : a = f.mod /\ r = f.region
    OBVIOUS
  <2>3. a \in DOMAIN entry /\ r \in Region
    BY <1>4, <1>10, <2>2 DEF Frame
  <2>4. entry[a].region = r
    <3>1. k = <<entry[a].so, entry[a].region>>
      BY <1>0, <1>10, <2>1, <2>2 DEF Good, HdExact, KeyOf
    <3> QED BY <1>7, <2>2, <3>1
  <2>5. NULL \notin DOMAIN entry
    BY <1>0, AddrAssumption DEF Good, Types
  <2>6. f.after # NULL => IsIn(mods[r], f.after) /\ f.after # a
    <3>1. ASSUME f.after # NULL PROVE f.after # a
      <4>1. f.after \in DOMAIN entry
        BY <2>1, <2>2, <2>3, <3>1, ListFacts
      <4>2. f.after \notin Reach(entry, a)
        BY <2>1, <2>2, <3>1, <4>1 DEF UpTo
      <4> QED BY <2>3, <4>2, ReachFacts
    <3> QED BY <2>1, <2>2, <3>1
  <2>7. \A x \in DOMAIN entry : UpTo(mods[r], x, f.after) => x \notin Reach(entry, a)
    BY <2>1, <2>2
  <2>8. \A y \in DOMAIN entry : y # a => a \notin Reach(entry, y)
    BY <2>1, <2>2, <2>3, <2>5, ReachRoot
  <2>9. PICK ms2 : ms2 = [mods EXCEPT ![r] =
                            module_region_insert_after(module_region_detach(@, a), a, f.after)]
    OBVIOUS
  <2>10. Good(regions, entry, mod_hd, ms2)
    BY <1>0, <2>3, <2>4, <2>6, <2>7, <2>8, <2>9, MoveGood
  <2>11. mods' = ms2
    BY <1>8, <1>10, <2>1, <2>2, <2>9
  <2>12. gs = <<>>
    <3>1. Len(gs) = 0
      BY <1>6, <2>1
    <3> QED BY <1>6, <3>1
  <2>13. Running(entry, mod_hd, ms2, gs)
    BY <2>12, RunningNone
  <2> QED BY <1>0, <1>6, <1>8, <2>10, <2>11, <2>13 DEF IInv
<1> QED BY <1>9, <1>10

\* Empty tables are good.
LEMMA EmptyGood ==
  Good({RootRegion}, Empty.entry, Empty.mod_hd, Empty.mods)
<1>1. /\ DOMAIN Empty.entry = {} /\ DOMAIN Empty.mod_hd = {}
      /\ Empty.mods = [r \in Region |-> <<>>]
  BY DEF Empty
<1>2. Types({RootRegion}, Empty.entry, Empty.mod_hd, Empty.mods)
  BY <1>1, RegionAssumption DEF Types
<1>3. HdExact(Empty.entry, Empty.mod_hd) /\ Counts(Empty.entry)
  BY <1>1 DEF HdExact, Counts
<1>4. ASSUME NEW r \in Region
      PROVE  ListExact(Empty.entry, Empty.mods[r], r) /\ Ordered(Empty.entry, Empty.mods[r])
  <2>1. Empty.mods[r] = <<>>
    BY <1>1
  <2> QED BY <1>1, <2>1 DEF ListExact, Ordered, Once
<1> QED BY <1>2, <1>3, <1>4 DEF Good

\* The invariant holds at the start.
LEMMA InitInv ==
  Init => IInv
<1> SUFFICES ASSUME Init PROVE IInv
  OBVIOUS
<1>1. Good(regions, entry, mod_hd, mods)
  BY EmptyGood DEF Init
<1>2. Running(entry, mod_hd, mods, frames) /\ frames \in Seq(Frame)
  BY RunningNone DEF Init
<1> QED BY <1>1, <1>2 DEF Init, IInv

\* xy_shutdown starts over.
LEMMA ShutdownPreserves ==
  ASSUME IInv, xy_shutdown
  PROVE  IInv'
<1>1. /\ entry' = Empty.entry /\ mod_hd' = Empty.mod_hd /\ mods' = Empty.mods
      /\ regions' = {RootRegion} /\ gated' = {} /\ frames' = <<>>
  BY DEF xy_shutdown, Become
<1>2. Running(Empty.entry, Empty.mod_hd, Empty.mods, <<>>)
  BY RunningNone
<1> QED BY <1>1, <1>2, EmptyGood DEF IInv

\* Every step keeps the invariant.
LEMMA Step ==
  ASSUME IInv, [Next]_vars
  PROVE  IInv'
<1>1. ASSUME NEW k \in Key, xy_load(k) PROVE IInv'
  BY <1>1, LoadPreserves
<1>2. ASSUME NEW k \in Key, mod_load_try_reuse_existing(k) PROVE IInv'
  BY <1>2, ReusePreserves
<1>3. ASSUME NEW k \in Key, xy_unload(k) PROVE IInv'
  BY <1>3, UnloadPreserves
<1>4. ASSUME NEW k \in Key, xy_unload_shared(k) PROVE IInv'
  BY <1>4, UnloadSharedPreserves
<1>5. ASSUME NEW k \in Key, xy_reload(k) PROVE IInv'
  BY <1>5, ReloadPreserves
<1>6. ASSUME NEW k \in Key, xy_reload_shared(k) PROVE IInv'
  BY <1>6, ReloadSharedPreserves
<1>7. CASE InstallReturns
  BY <1>7, ReturnPreserves
<1>8. ASSUME NEW r \in Region, xy_require_claim(r) PROVE IInv'
  <2>1. gated' \subseteq regions
    BY <1>8 DEF xy_require_claim, IInv
  <2>2. /\ regions' = regions /\ entry' = entry /\ mod_hd' = mod_hd /\ mods' = mods
        /\ frames' = frames
    BY <1>8 DEF xy_require_claim, tableVars
  <2> QED BY <2>1, <2>2 DEF IInv
<1>9. CASE xy_shutdown
  BY <1>9, ShutdownPreserves
<1>10. CASE UNCHANGED vars
  <2>1. /\ regions' = regions /\ gated' = gated /\ entry' = entry /\ mod_hd' = mod_hd
        /\ mods' = mods /\ frames' = frames
    BY <1>10 DEF vars, tableVars
  <2> QED BY <2>1 DEF IInv
<1> QED BY <1>1, <1>2, <1>3, <1>4, <1>5, <1>6, <1>7, <1>8, <1>9, <1>10 DEF Next

\* The inductive invariant holds in every reachable state.
THEOREM Invariance == Spec => []IInv
BY InitInv, Step, PTL DEF Spec

(***************************************************************************)
(* The theorems                                                            *)
(***************************************************************************)

\* The tables, lists and frames have their types, and a gate is on a region that exists.
THEOREM TypeCorrect == Spec => []TypeOK
<1>1. IInv => TypeOK
  <2> SUFFICES ASSUME IInv PROVE TypeOK
    OBVIOUS
  <2>1. Types(regions, entry, mod_hd, mods)
    BY DEF IInv, Good
  <2>2. \A k \in DOMAIN mod_hd : mod_hd[k] \in Addr
    BY <2>1 DEF IInv, Good, HdExact, Types
  <2>3. \A i \in DOMAIN frames : frames[i] \in Frame
    BY DEF IInv, Running
  <2>4. gated \subseteq regions
    BY DEF IInv
  <2> QED BY <2>1, <2>2, <2>3, <2>4 DEF TypeOK, Types
<1> QED BY <1>1, Invariance, PTL

\* After any sequence of loads, failed loads, cascades and reloads, the table and the
\* lists name the allocated entries, each once, and nothing that was freed.
THEOREM TablesAgreeCorrect == Spec => []TablesAgree
<1>1. IInv => TablesAgree
  <2> SUFFICES ASSUME IInv PROVE TablesAgree
    OBVIOUS
  <2>1. \A k \in DOMAIN mod_hd :
          mod_hd[k] \in DOMAIN entry /\ k = <<entry[mod_hd[k]].so, entry[mod_hd[k]].region>>
    BY DEF IInv, Good, HdExact, KeyOf
  <2>2. ASSUME NEW a \in DOMAIN entry
        PROVE  /\ <<entry[a].so, entry[a].region>> \in DOMAIN mod_hd
               /\ mod_hd[<<entry[a].so, entry[a].region>>] = a
               /\ IsIn(mods[entry[a].region], a)
    <3>1. <<entry[a].so, entry[a].region>> \in DOMAIN mod_hd /\ mod_hd[<<entry[a].so, entry[a].region>>] = a
      BY DEF IInv, Good, HdExact, KeyOf
    <3>2. entry[a].region \in Region
      BY DEF IInv, Good, Types
    <3>3. IsIn(mods[entry[a].region], a)
      BY <3>2, ListFacts DEF ListExact
    <3> QED BY <3>1, <3>3
  <2>3. ASSUME NEW r \in Region, NEW i \in DOMAIN mods[r]
        PROVE  /\ mods[r][i] \in DOMAIN entry /\ entry[mods[r][i]].region = r
               /\ \A j \in DOMAIN mods[r] : mods[r][i] = mods[r][j] => i = j
    <3>1. ListExact(entry, mods[r], r)
      BY ListFacts
    <3> QED BY <3>1 DEF ListExact, Once
  <2> QED BY <2>1, <2>2, <2>3 DEF TablesAgree
<1> QED BY <1>1, Invariance, PTL

\* The reference count of a module covers the references of the host and of its first
\* loader, whatever cascades and reloads went before.
THEOREM CountsCoverCorrect == Spec => []CountsCover
<1>1. IInv => CountsCover
  BY DEF IInv, Good, Counts, CountsCover
<1> QED BY <1>1, Invariance, PTL

\* No module that only an unloaded one needed stays behind, however deep the cascade.
THEOREM ChildrenGoCorrect == Spec => []ChildrenGo
<1>1. IInv => ChildrenGo
  BY DEF IInv, Good, Counts, ChildrenGo
<1> QED BY <1>1, Invariance, PTL

\* The neighbour that a reload remembers by its address is in the list of its region
\* as long as the install runs.
THEOREM PositionAliveCorrect == Spec => []PositionAlive
<1>1. IInv => PositionAlive
  <2> SUFFICES ASSUME IInv, NEW i \in DOMAIN frames, frames[i].after # NULL
               PROVE  IsIn(mods[frames[i].region], frames[i].after)
    BY DEF PositionAlive
  <2>1. frames[i].region # NoRegion
    BY DEF IInv, Running
  <2> QED BY <2>1 DEF IInv, Running
<1> QED BY <1>1, Invariance, PTL

\* No module runs before the one that loaded it, or one that loaded its loader: the
\* order in which a call goes through a list survives cascades and reloads
\* (module_region_insert_after at the end of xy_reload).
LoadersFirst ==
  \A r \in Region : \A x, y \in DOMAIN entry : Precedes(mods[r], x, y) => x \notin Reach(entry, y)

\* The order of every list, for any number of modules and any depth of loads.
THEOREM LoadersFirstCorrect == Spec => []LoadersFirst
<1>1. IInv => LoadersFirst
  BY DEF IInv, Good, Ordered, LoadersFirst
<1> QED BY <1>1, Invariance, PTL
===============================================================================
