---------------------------- MODULE XyRegionProofs ----------------------------
(***************************************************************************)
(* Proofs about XyRegion, for every width, every set of threads and every  *)
(* bound.  TreeInv is inductive by itself; the current-region invariant    *)
(* rests on it, and so do the walks: up to the root, and down in search of *)
(* a point.                                                                *)
(***************************************************************************)
EXTENDS XyRegion, XySeqProofs

RegionType ==
  /\ inited \in BOOLEAN
  /\ DOMAIN region \subseteq Key
  /\ region = [k \in DOMAIN region |-> region[k]]
  /\ \A k \in DOMAIN region : region[k] \in Entry
  /\ Root \in DOMAIN region <=> inited
  /\ ~inited => DOMAIN region = {}

TreeInv ==
  /\ RegionType
  /\ ParentsNarrower
  /\ IdsAligned
  /\ ChildInsideParent
  /\ DepthBounded
  /\ KidsMatchParents

CallType ==
  /\ current \in [Thread -> Current]
  /\ frames \in [Thread -> Seq(Frame)]
  /\ shutdowns \in Nat

\* The two halves of c agree, in a table that holds the regions of D.
SyncedIn(D, c) ==
  \/ c.entry = Freed
  \/ c.entry = NoRegion /\ c.id = XY_REGION_ROOT
  \/ c.entry \in D /\ c.id = c.entry.id

\* An unfinished dispatch, the frame at i, kept the id that is current whenever its loop
\* goes on: now, if the frame is the innermost one, and else when the frame above it ends.
LoopKept(c, f, i) ==
  /\ f[i].entry # NoRegion
  /\ f[i].entry # Freed =>
       IF i = Len(f) THEN c.id = f[i].id
       ELSE f[i + 1].id = f[i].id /\ (f[i + 1].loop => f[i + 1].entry # Freed)

SyncIn(D, c, f) ==
  /\ SyncedIn(D, c)
  /\ \A i \in DOMAIN f : SyncedIn(D, f[i]) /\ (f[i].loop => LoopKept(c, f, i))

SyncInv == \A t \in Thread : SyncIn(DOMAIN region, current[t], frames[t])

IInv == TreeInv /\ CallType /\ (Tidy => SyncInv)

\* The root is a region identity: id 0 at width 0 (XY_REGION_ROOT).
LEMMA RootKey == Root \in Key /\ Root.id = {} /\ Root.plen = 0
  BY WidthAssumption DEF Root, Key, Id, XY_REGION_ROOT

\* AddRegion, which creates every region but the root, keeps the tree a tree:
\* the new region is wider than its parent, canonical, and inside it.
LEMMA AddRegionKeepsTree ==
  ASSUME TreeInv, inited, inited' = inited,
         NEW c \in Key, c \notin DOMAIN region,
         NEW p \in DOMAIN region, p.plen < c.plen,
         c.id \subseteq region_mask(c.plen),
         c.plen < W => Covers(p, c.id),
         NEW h \in BOOLEAN,
         AddRegion(c, p, h)
  PROVE  TreeInv'
<1> USE WidthAssumption, PointerAssumption, RootKey
<1>0. /\ DOMAIN region' = DOMAIN region \cup {c}
      /\ region'[c] = [parent |-> p, depth |-> region[p].depth + 1,
                       handler |-> h, gate |-> FALSE, kids |-> <<>>]
      /\ region'[p] = [region[p] EXCEPT !.kids = <<c>> \o @]
      /\ \A k \in DOMAIN region \ {p} : region'[k] = region[k]
      /\ p # c /\ c # Root /\ Root \in DOMAIN region
  BY DEF AddRegion, TreeInv, RegionType
<1>1. /\ p \in Key /\ p.plen \in 0 .. W /\ c.plen \in 0 .. W
      /\ region[p] \in Entry
      /\ \A k \in DOMAIN region : k \in Key /\ region[k] \in Entry
  BY DEF TreeInv, RegionType, Key
<1>2. /\ region'[p].parent = region[p].parent
      /\ region'[p].depth = region[p].depth
      /\ region'[p].kids = <<c>> \o region[p].kids
      /\ region'[p] \in Entry
  <2> DEFINE r == region[p]
             ks == <<c>> \o r.kids
  <2>1. /\ r.parent \in Key \cup {NoRegion} /\ r.depth \in 0 .. W
        /\ r.handler \in BOOLEAN /\ r.gate \in BOOLEAN /\ r.kids \in Seq(Key)
    BY <1>1 DEF Entry
  <2>2. ks \in Seq(Key)
    BY <2>1
  <2>3. r = [parent |-> r.parent, depth |-> r.depth, handler |-> r.handler,
             gate |-> r.gate, kids |-> r.kids]
    BY <1>1 DEF Entry
  <2>4. region'[p] = [r EXCEPT !.kids = ks]
    BY <1>0
  <2>5. [r EXCEPT !.kids = ks] =
          [parent |-> r.parent, depth |-> r.depth, handler |-> r.handler,
           gate |-> r.gate, kids |-> ks]
    <3> HIDE DEF r, ks
    <3> QED BY <2>3
  <2> HIDE DEF ks
  <2>6. region'[p] = [parent |-> r.parent, depth |-> r.depth, handler |-> r.handler,
                      gate |-> r.gate, kids |-> ks]
    BY <2>4, <2>5
  <2>7. region'[p] \in Entry
    BY <2>1, <2>2, <2>6 DEF Entry
  <2> QED BY <2>6, <2>7 DEF ks
<1>3. region[p].depth \in Nat /\ region[p].depth <= p.plen
  BY <1>1 DEF TreeInv, DepthBounded, Entry
<1>4. region[p].depth + 1 \in 0 .. W /\ region[p].depth + 1 <= c.plen
  BY <1>1, <1>3
<1>5. \A k \in DOMAIN region : /\ region'[k].parent = region[k].parent
                               /\ region'[k].depth = region[k].depth
  BY <1>0, <1>2
<1>6. region'[c] \in Entry
  BY <1>0, <1>1, <1>4 DEF Entry
<1>7. RegionType'
  BY <1>0, <1>1, <1>2, <1>6 DEF TreeInv, RegionType, AddRegion
<1>8. ParentsNarrower'
  <2> SUFFICES ASSUME NEW k \in DOMAIN region'
               PROVE IF k = Root THEN region'[k].parent = NoRegion
                     ELSE /\ region'[k].parent \in DOMAIN region'
                          /\ region'[k].parent.plen < k.plen
                          /\ region'[k].depth = region'[region'[k].parent].depth + 1
    BY DEF ParentsNarrower
  <2>1. CASE k = c
    BY <2>1, <1>0, <1>5
  <2>2. CASE k \in DOMAIN region
    BY <2>2, <1>0, <1>5 DEF TreeInv, ParentsNarrower
  <2> QED BY <2>1, <2>2, <1>0
<1>9. IdsAligned'
  BY <1>0 DEF TreeInv, IdsAligned, region_mask
<1>10. ChildInsideParent'
  BY <1>0, <1>5 DEF TreeInv, ChildInsideParent, Covers, region_mask
<1>11. DepthBounded'
  BY <1>0, <1>4, <1>5 DEF TreeInv, DepthBounded
<1>12. KidsMatchParents'
  <2>1. ASSUME NEW q \in DOMAIN region'
        PROVE  /\ ToSet(region'[q].kids) = {k \in DOMAIN region' : region'[k].parent = q}
               /\ \A i, j \in DOMAIN region'[q].kids :
                    region'[q].kids[i] = region'[q].kids[j] => i = j
    <3>1. CASE q = c
      <4>1. \A k \in DOMAIN region : region[k].parent # c
        BY <1>0 DEF TreeInv, ParentsNarrower
      <4>2. {k \in DOMAIN region' : region'[k].parent = c} = {}
        BY <4>1, <1>0, <1>5
      <4>3. region'[c].kids = <<>>
        BY <1>0
      <4> QED BY <4>2, <4>3, <3>1 DEF ToSet
    <3>2. CASE q = p
      <4> DEFINE s == region[p].kids
      <4>1. s \in Seq(Key) /\ region'[p].kids = <<c>> \o s
        BY <1>1, <1>2 DEF Entry
      <4>2. ToSet(<<c>> \o s) = {c} \cup ToSet(s)
        <5>1. /\ DOMAIN (<<c>> \o s) = 1 .. Len(s) + 1
              /\ (<<c>> \o s)[1] = c
              /\ \A i \in 1 .. Len(s) : (<<c>> \o s)[i + 1] = s[i]
              /\ DOMAIN s = 1 .. Len(s) /\ Len(s) \in Nat
          BY <4>1
        <5> HIDE DEF s
        <5>2. ASSUME NEW x \in {c} \cup ToSet(s)
              PROVE x \in ToSet(<<c>> \o s)
          <6>1. CASE x = c
            BY <6>1, <5>1 DEF ToSet
          <6>2. CASE x \in ToSet(s)
            <7>1. PICK i \in DOMAIN s : x = s[i]
              BY <6>2 DEF ToSet
            <7>2. i + 1 \in DOMAIN (<<c>> \o s) /\ x = (<<c>> \o s)[i + 1]
              BY <7>1, <5>1
            <7> QED BY <7>2 DEF ToSet
          <6> QED BY <6>1, <6>2
        <5>3. ASSUME NEW x \in ToSet(<<c>> \o s)
              PROVE x \in {c} \cup ToSet(s)
          <6>1. PICK i \in DOMAIN (<<c>> \o s) : x = (<<c>> \o s)[i]
            BY DEF ToSet
          <6>2. i = 1 \/ (i - 1 \in DOMAIN s /\ x = s[i - 1])
            BY <6>1, <5>1
          <6> QED BY <6>1, <6>2, <5>1 DEF ToSet
        <5> QED BY <5>2, <5>3
      <4>3. {k \in DOMAIN region' : region'[k].parent = p} =
              {c} \cup {k \in DOMAIN region : region[k].parent = p}
        BY <1>0, <1>5
      <4>4. c \notin ToSet(s)
        BY <1>0 DEF TreeInv, KidsMatchParents
      <4>5. \A i \in DOMAIN s : s[i] # c
        BY <4>4 DEF ToSet
      <4>6. \A i, j \in DOMAIN s : s[i] = s[j] => i = j
        BY DEF TreeInv, KidsMatchParents
      <4>7. \A i, j \in DOMAIN (<<c>> \o s) : (<<c>> \o s)[i] = (<<c>> \o s)[j] => i = j
        BY <4>1, <4>5, <4>6
      <4>8. ToSet(s) = {k \in DOMAIN region : region[k].parent = p}
        BY DEF TreeInv, KidsMatchParents
      <4>9. ToSet(region'[p].kids) = {k \in DOMAIN region' : region'[k].parent = p}
        BY <4>1, <4>2, <4>3, <4>8, Zenon
      <4>10. \A i, j \in DOMAIN region'[p].kids : region'[p].kids[i] = region'[p].kids[j] => i = j
        <5>1. region'[p].kids = <<c>> \o s
          BY <4>1
        <5> HIDE DEF s
        <5> QED BY <4>7, <5>1, Zenon
      <4> QED BY <4>9, <4>10, <3>2
    <3>3. CASE q # c /\ q # p
      <4>1. q \in DOMAIN region /\ region'[q] = region[q]
        BY <3>3, <1>0
      <4>2. {k \in DOMAIN region' : region'[k].parent = q} =
              {k \in DOMAIN region : region[k].parent = q}
        BY <3>3, <1>0, <1>5
      <4> QED BY <4>1, <4>2 DEF TreeInv, KidsMatchParents
    <3> QED BY <3>1, <3>2, <3>3
  <2> QED BY <2>1 DEF KidsMatchParents
<1> QED BY <1>7, <1>8, <1>9, <1>10, <1>11, <1>12 DEF TreeInv

\* Installing or clearing a claim handler or a gate changes no link of the tree.
LEMMA SetFlagsKeepsTree ==
  ASSUME TreeInv, inited' = inited,
         NEW e \in DOMAIN region, NEW h \in BOOLEAN, NEW g \in BOOLEAN,
         region' = [region EXCEPT ![e] = SetClaim(@, h, g)]
  PROVE  TreeInv' /\ DOMAIN region' = DOMAIN region
<1> DEFINE r == region[e]
<1>1. r.parent \in Key \cup {NoRegion} /\ r.depth \in 0 .. W /\ r.kids \in Seq(Key)
  BY DEF TreeInv, RegionType, Entry
<1>4. region'[e] = [parent |-> r.parent, depth |-> r.depth, handler |-> h, gate |-> g,
                    kids |-> r.kids]
  BY DEF TreeInv, RegionType, SetClaim
<1>5. region'[e] \in Entry
  BY <1>1, <1>4 DEF Entry
<1>6. /\ DOMAIN region' = DOMAIN region
      /\ region' = [k \in DOMAIN region' |-> region'[k]]
      /\ \A k \in DOMAIN region \ {e} : region'[k] = region[k]
  BY DEF TreeInv, RegionType
<1>7. \A k \in DOMAIN region : /\ region'[k].parent = region[k].parent
                               /\ region'[k].depth = region[k].depth
                               /\ region'[k].kids = region[k].kids
  BY <1>4, <1>6
<1>8. RegionType'
  BY <1>5, <1>6 DEF TreeInv, RegionType
<1>9. ParentsNarrower' /\ IdsAligned' /\ ChildInsideParent' /\ DepthBounded'
  BY <1>6, <1>7 DEF TreeInv, ParentsNarrower, IdsAligned, ChildInsideParent, DepthBounded,
                    region_mask, Covers
<1>10. KidsMatchParents'
  BY <1>6, <1>7 DEF TreeInv, KidsMatchParents
<1> QED BY <1>6, <1>8, <1>9, <1>10 DEF TreeInv

\* The initial state: the root alone, current in the main thread.
LEMMA InitInv == Init => IInv
<1> SUFFICES ASSUME Init PROVE IInv
  OBVIOUS
<1> USE WidthAssumption, PointerAssumption, RootKey
<1>1. /\ DOMAIN region = {Root}
      /\ region[Root] = [parent |-> NoRegion, depth |-> 0, handler |-> FALSE,
                         gate |-> FALSE, kids |-> <<>>]
  BY DEF Init
<1>2. region[Root] \in Entry
  BY <1>1 DEF Entry
<1>3. RegionType
  BY <1>1, <1>2 DEF Init, RegionType
<1>4. ParentsNarrower /\ IdsAligned /\ ChildInsideParent /\ DepthBounded
  BY <1>1 DEF ParentsNarrower, IdsAligned, ChildInsideParent, DepthBounded
<1>5. KidsMatchParents
  BY <1>1 DEF KidsMatchParents, ToSet
<1>6. CallType
  BY DEF Init, CallType, Current, Id, XY_REGION_ROOT
<1>7. SyncInv
  <2>1. \A t \in Thread : SyncedIn(DOMAIN region, current[t])
    BY <1>1 DEF Init, SyncedIn, XY_REGION_ROOT
  <2>2. \A t \in Thread : DOMAIN frames[t] = {}
    BY DEF Init
  <2> QED BY <2>1, <2>2 DEF SyncInv, SyncIn
<1> QED BY <1>3, <1>4, <1>5, <1>6, <1>7 DEF IInv, TreeInv

\* Facts about one thread: c is its current region and f its unfinished callbacks and
\* dispatches.  The table may grow.
LEMMA SyncGrows ==
  ASSUME NEW D, NEW E, D \subseteq E, NEW c, NEW f, SyncIn(D, c, f)
  PROVE  SyncIn(E, c, f)
<1>1. \A x : SyncedIn(D, x) => SyncedIn(E, x)
  BY DEF SyncedIn
<1> QED BY <1>1 DEF SyncIn

\* A callback or a dispatch begins: what is saved goes back to the current id.
LEMMA SyncPush ==
  ASSUME NEW D, NEW c, NEW f \in Seq(Frame), SyncIn(D, c, f),
         NEW x \in Frame, SyncedIn(D, x), x.id = c.id,
         NEW d, SyncedIn(D, d),
         x.loop => x.entry # NoRegion /\ x.entry # Freed /\ d.id = x.id
  PROVE  SyncIn(D, d, Append(f, x)) /\ Append(f, x) \in Seq(Frame)
<1> DEFINE n == Len(f)
           g == Append(f, x)
<1>1. /\ n \in Nat /\ DOMAIN f = 1 .. n /\ DOMAIN g = 1 .. n + 1 /\ Len(g) = n + 1
      /\ g[n + 1] = x /\ \A i \in 1 .. n : g[i] = f[i]
      /\ g \in Seq(Frame)
  OBVIOUS
<1> HIDE DEF g, n
<1>2. ASSUME NEW i \in DOMAIN g
      PROVE  SyncedIn(D, g[i]) /\ (g[i].loop => LoopKept(d, g, i))
  <2>1. CASE i = n + 1
    BY <2>1, <1>1 DEF LoopKept
  <2>2. CASE i \in 1 .. n - 1
    <3>1. g[i] = f[i] /\ g[i + 1] = f[i + 1] /\ i # Len(g) /\ i # n /\ i \in DOMAIN f
      BY <2>2, <1>1
    <3> QED BY <3>1 DEF SyncIn, LoopKept, n
  <2>3. CASE i = n /\ n # 0
    <3>1. g[i] = f[i] /\ g[i + 1] = x /\ i # Len(g) /\ i \in DOMAIN f
      BY <2>3, <1>1
    <3> QED BY <3>1, <2>3 DEF SyncIn, LoopKept, n
  <2> QED BY <2>1, <2>2, <2>3, <1>1
<1> QED BY <1>1, <1>2 DEF SyncIn, g

\* A claim, where no dispatch is the innermost frame.
LEMMA SyncSet ==
  ASSUME NEW D, NEW c, NEW f \in Seq(Frame), SyncIn(D, c, f),
         f = <<>> \/ ~f[Len(f)].loop, NEW d, SyncedIn(D, d)
  PROVE  SyncIn(D, d, f)
<1>1. ASSUME NEW i \in DOMAIN f, f[i].loop
      PROVE  LoopKept(d, f, i)
  <2>1. i # Len(f)
    BY <1>1
  <2> QED BY <2>1, <1>1 DEF SyncIn, LoopKept
<1> QED BY <1>1 DEF SyncIn

\* The innermost frame ends: a callback restores, a dispatch leaves the current region alone.
LEMMA SyncPop ==
  ASSUME NEW D, NEW c \in Current, NEW f \in Seq(Frame), f # <<>>, SyncIn(D, c, f),
         NEW d, IF f[Len(f)].loop THEN d = c
                ELSE d = [id |-> f[Len(f)].id, entry |-> f[Len(f)].entry]
  PROVE  SyncIn(D, d, SubSeq(f, 1, Len(f) - 1))
<1> DEFINE n == Len(f)
           g == SubSeq(f, 1, n - 1)
<1>1. /\ n \in Nat \ {0} /\ DOMAIN f = 1 .. n /\ DOMAIN g = 1 .. n - 1 /\ Len(g) = n - 1
      /\ \A i \in 1 .. n - 1 : g[i] = f[i]
  <2>1. n \in Nat /\ n # 0 /\ DOMAIN f = 1 .. n
    OBVIOUS
  <2> HIDE DEF n
  <2>2. 1 \in Int /\ n - 1 \in Nat /\ 1 .. n - 1 \subseteq DOMAIN f
    BY <2>1
  <2> QED BY <2>1, <2>2
<1>2. SyncedIn(D, d)
  BY <1>1 DEF SyncIn, SyncedIn
<1>3. ASSUME NEW i \in DOMAIN g
      PROVE  SyncedIn(D, g[i]) /\ (g[i].loop => LoopKept(d, g, i))
  <2>1. g[i] = f[i] /\ i \in DOMAIN f /\ i # n
    BY <1>1
  <2>2. CASE i # n - 1
    <3>1. g[i + 1] = f[i + 1] /\ i # Len(g)
      BY <2>2, <1>1
    <3> HIDE DEF g
    <3> QED BY <2>1, <3>1 DEF SyncIn, LoopKept
  <2>3. CASE i = n - 1
    <3>1. i = Len(g) /\ i + 1 = n /\ n \in DOMAIN f
      BY <2>3, <1>1
    <3>2. SyncedIn(D, g[i])
      BY <2>1 DEF SyncIn
    <3>3. ASSUME g[i].loop
          PROVE  LoopKept(d, g, i)
      <4>1. LoopKept(c, f, i) /\ (f[n].loop => LoopKept(c, f, n))
        BY <2>1, <3>1, <3>3 DEF SyncIn
      <4> HIDE DEF g
      <4>2. /\ f[i].entry # NoRegion
            /\ f[i].entry # Freed => f[n].id = f[i].id /\ (f[n].loop => f[n].entry # Freed)
        BY <4>1, <2>1, <3>1 DEF LoopKept
      <4>3. f[i].entry # Freed => d.id = f[i].id
        <5>1. CASE f[n].loop
          BY <5>1, <4>1, <4>2 DEF LoopKept
        <5>2. CASE ~f[n].loop
          BY <5>2, <4>2
        <5> QED BY <5>1, <5>2
      <4> QED BY <4>2, <4>3, <2>1, <3>1 DEF LoopKept
    <3> QED BY <3>2, <3>3
  <2> QED BY <2>2, <2>3
<1> HIDE DEF g, n
<1>4. SyncIn(D, d, g)
  BY <1>2, <1>3 DEF SyncIn
<1> QED BY <1>4 DEF g, n

\* A step of one thread keeps the types of all, and the others in sync.
LEMMA OneThread ==
  ASSUME CallType, NEW t \in Thread, NEW d \in Current, NEW f \in Seq(Frame),
         current' = [current EXCEPT ![t] = d], frames' = [frames EXCEPT ![t] = f],
         UNCHANGED shutdowns, DOMAIN region \subseteq DOMAIN region'
  PROVE  /\ CallType'
         /\ SyncInv /\ SyncIn(DOMAIN region', d, f) => SyncInv'
<1>1. CallType'
  BY DEF CallType
<1>2. ASSUME SyncInv, SyncIn(DOMAIN region', d, f), NEW u \in Thread
      PROVE  SyncIn(DOMAIN region', current'[u], frames'[u])
  <2>1. CASE u = t
    BY <2>1, <1>2 DEF CallType
  <2>2. CASE u # t
    <3>1. current'[u] = current[u] /\ frames'[u] = frames[u]
      BY <2>2 DEF CallType
    <3>2. SyncIn(DOMAIN region, current[u], frames[u])
      BY <1>2 DEF SyncInv
    <3> QED BY <3>1, <3>2, SyncGrows
  <2> QED BY <2>1, <2>2
<1> QED BY <1>1, <1>2 DEF SyncInv

\* Entering a callback, or claiming a region, keeps every current and saved region typed,
\* and in sync where the program is tidy.
LEMMA SetCurrentKeepsSync ==
  ASSUME CallType, Tidy => SyncInv, DOMAIN region \subseteq DOMAIN region',
         DOMAIN region' \subseteq Key,
         NEW t \in Thread, NEW k \in DOMAIN region',
         set_current_region(t, k.id, k),
         Save(t) \/ (MayClaim(t) /\ UNCHANGED frames), UNCHANGED shutdowns
  PROVE  CallType' /\ (Tidy => SyncInv')
<1> DEFINE d == [id |-> k.id, entry |-> k]
           x == [id |-> current[t].id, entry |-> current[t].entry, loop |-> FALSE]
           D == DOMAIN region'
<1>1. d \in Current /\ SyncedIn(D, d)
  BY DEF Current, Key, SyncedIn
<1>2. /\ current[t] \in Current /\ frames[t] \in Seq(Frame)
      /\ current' = [current EXCEPT ![t] = d]
  BY DEF CallType, set_current_region
<1>3. Tidy => SyncIn(D, current[t], frames[t])
  BY SyncGrows DEF SyncInv
<1>4. CASE Save(t)
  <2>1. /\ x \in Frame /\ x.id = current[t].id /\ ~x.loop
        /\ frames' = [frames EXCEPT ![t] = Append(frames[t], x)]
    BY <1>4, <1>2 DEF Save, Push, Current, Frame
  <2>2. Append(frames[t], x) \in Seq(Frame)
    BY <2>1, <1>2
  <2>3. Tidy => SyncedIn(D, x)
    BY <1>3 DEF SyncIn, SyncedIn
  <2> HIDE DEF d, x, D
  <2>4. Tidy => SyncIn(D, d, Append(frames[t], x))
    BY <1>1, <1>2, <1>3, <2>1, <2>3, SyncPush
  <2> QED BY <1>1, <1>2, <2>1, <2>2, <2>4, OneThread DEF D
<1>5. CASE MayClaim(t) /\ UNCHANGED frames
  <2>1. frames' = [frames EXCEPT ![t] = frames[t]]
    BY <1>5 DEF CallType
  <2>2. Tidy => frames[t] = <<>> \/ ~frames[t][Len(frames[t])].loop
    BY <1>5 DEF MayClaim, InLoop, TopFrame
  <2> HIDE DEF d, x, D
  <2>3. Tidy => SyncIn(D, d, frames[t])
    BY <1>1, <1>2, <1>3, <2>2, SyncSet
  <2> QED BY <1>1, <1>2, <2>1, <2>3, OneThread DEF D
<1> QED BY <1>4, <1>5

\* When every entry is freed, so is that of every dispatch, and nothing is said of it.
LEMMA SyncDangle ==
  ASSUME NEW D, D \subseteq Key, NEW c, NEW f \in Seq(Frame), SyncIn(D, c, f),
         NEW d, SyncedIn({}, d)
  PROVE  SyncIn({}, d, [i \in DOMAIN f |-> Dangle(f[i])])
<1> USE PointerAssumption
<1> DEFINE g == [i \in DOMAIN f |-> Dangle(f[i])]
<1>1. ASSUME NEW i \in DOMAIN f
      PROVE  SyncedIn({}, g[i]) /\ (g[i].loop => LoopKept(d, g, i))
  <2>1. f[i] \in Frame
    OBVIOUS
  <2>2. g[i] = [id |-> f[i].id, entry |-> IF f[i].entry = NoRegion THEN NoRegion ELSE Freed,
                loop |-> f[i].loop]
    BY <2>1 DEF Dangle, Frame
  <2>3. SyncedIn(D, f[i]) /\ (f[i].loop => f[i].entry # NoRegion)
    BY DEF SyncIn, LoopKept
  <2> HIDE DEF g
  <2> QED BY <2>2, <2>3 DEF SyncedIn, LoopKept
<1>2. DOMAIN g = DOMAIN f
  OBVIOUS
<1> HIDE DEF g
<1>3. SyncIn({}, d, g)
  BY <1>1, <1>2 DEF SyncIn
<1> QED BY <1>3 DEF g

\* What a load that claims a region does to the table: the slot region_alloc_slot
\* finds is a new identity, canonical and, short of W bits, inside the parent.
LEMMA ClaimForLoadAdds ==
  ASSUME TreeInv, NEW t \in Thread, NEW granted \in 1 .. W, _xy_claim_for_load(t, granted)
  PROVE  \E p \in DOMAIN region, c \in Key :
           /\ c \notin DOMAIN region /\ p.plen < c.plen
           /\ c.id \subseteq region_mask(c.plen)
           /\ c.plen < W => Covers(p, c.id)
           /\ AddRegion(c, p, FALSE)
           /\ set_current_region(t, c.id, c)
<1> USE WidthAssumption, PointerAssumption
<1> DEFINE p == Inherited(t)
           cplen == p.plen + granted
           c(s) == [id |-> p.id \cup s, plen |-> cplen]
<1>a. DOMAIN region \subseteq Key
  BY DEF TreeInv, RegionType
<1>1. p \in DOMAIN region /\ p \in Key /\ p.plen \in 0 .. W /\ p.id \subseteq region_mask(p.plen)
  BY <1>a DEF _xy_claim_for_load, Inherited, region_lookup, Key, TreeInv, IdsAligned
<1>2. PICK s \in Id : /\ region_alloc_slot(p, cplen, s)
                      /\ AddRegion(c(s), p, FALSE)
                      /\ set_current_region(t, c(s).id, c(s))
  BY DEF _xy_claim_for_load
<1>3. /\ cplen \in 0 .. W /\ p.plen < cplen /\ s \in SlotOffsets(p, cplen)
      /\ region_lookup(p.id \cup s, cplen) = NoRegion
  BY <1>1, <1>2 DEF region_alloc_slot
<1>4. c(s) \in Key /\ c(s) \notin DOMAIN region
  BY <1>1, <1>3, <1>a DEF Key, Id, region_lookup, region_mask
<1>5. c(s).id \subseteq region_mask(c(s).plen)
  BY <1>1, <1>3 DEF SlotOffsets, region_mask, Id
<1>6. c(s).plen < W => Covers(p, c(s).id)
  BY <1>1, <1>3 DEF SlotOffsets, Covers, region_mask
<1>7. p.plen < c(s).plen
  BY <1>3
<1> HIDE DEF c, cplen, p
<1> QED BY <1>1, <1>2, <1>4, <1>5, <1>6, <1>7

\* Every step of every thread preserves the invariant: one case per action.
LEMMA StepInv == IInv /\ [Next]_vars => IInv'
<1> SUFFICES ASSUME IInv, [Next]_vars PROVE IInv'
  OBVIOUS
<1> USE WidthAssumption, PointerAssumption, RootKey, FnsAssumption
<1>a. /\ TreeInv /\ CallType /\ (Tidy => SyncInv) /\ DOMAIN region \subseteq Key
      /\ inited \in BOOLEAN
  BY DEF IInv, TreeInv, RegionType
<1>b. ASSUME UNCHANGED <<inited, region>>
      PROVE  TreeInv'
  BY <1>a, <1>b DEF TreeInv, RegionType, ParentsNarrower, IdsAligned, ChildInsideParent,
                    DepthBounded, KidsMatchParents
<1>1. ASSUME NEW t \in Thread, xy_runtime_bootstrap(t)
      PROVE  IInv'
  <2>1. /\ DOMAIN region' = {Root}
        /\ region'[Root] = [parent |-> NoRegion, depth |-> 0, handler |-> FALSE,
                            gate |-> FALSE, kids |-> <<>>]
        /\ inited' = TRUE /\ DOMAIN region = {}
    BY <1>1, <1>a DEF xy_runtime_bootstrap, TreeInv, RegionType
  <2>2. region'[Root] \in Entry
    BY <2>1 DEF Entry
  <2>3. RegionType'
    BY <2>1, <2>2, <1>1 DEF xy_runtime_bootstrap, RegionType
  <2>4. ParentsNarrower' /\ IdsAligned' /\ ChildInsideParent' /\ DepthBounded'
    BY <2>1 DEF ParentsNarrower, IdsAligned, ChildInsideParent, DepthBounded
  <2>5. KidsMatchParents'
    BY <2>1 DEF KidsMatchParents, ToSet
  <2>6. PICK d \in Current : /\ current' = [current EXCEPT ![t] = d]
                             /\ Tidy => SyncedIn({Root}, d)
    <3>1. CASE set_current_region(t, XY_REGION_ROOT, Root)
      <4> DEFINE d == [id |-> XY_REGION_ROOT, entry |-> Root]
      <4>1. d \in Current /\ SyncedIn({Root}, d)
        BY DEF Current, Id, XY_REGION_ROOT, SyncedIn
      <4>2. current' = [current EXCEPT ![t] = d]
        BY <3>1 DEF set_current_region
      <4> QED BY <4>1, <4>2
    <3>2. CASE current[t].entry = Freed /\ UNCHANGED current
      <4>1. current[t] \in Current /\ current' = [current EXCEPT ![t] = current[t]]
        BY <3>2, <1>a DEF CallType
      <4>2. SyncedIn({Root}, current[t])
        BY <3>2 DEF SyncedIn
      <4> QED BY <4>1, <4>2
    <3> QED BY <3>1, <3>2, <1>1 DEF xy_runtime_bootstrap
  <2>7. Tidy => SyncIn({Root}, d, frames[t])
    <3> SUFFICES ASSUME Tidy PROVE SyncIn({Root}, d, frames[t])
      OBVIOUS
    <3>1. SyncIn({}, current[t], frames[t])
      BY <2>1, <1>a DEF SyncInv
    <3>2. ASSUME NEW i \in DOMAIN frames[t]
          PROVE  /\ SyncedIn({Root}, frames[t][i])
                 /\ frames[t][i].loop => LoopKept(d, frames[t], i)
      <4>1. SyncedIn({}, frames[t][i]) /\ (frames[t][i].loop => frames[t][i].entry # NoRegion)
        BY <3>1 DEF SyncIn, LoopKept
      <4>2. frames[t][i].loop => frames[t][i].entry = Freed
        BY <4>1 DEF SyncedIn
      <4>3. SyncedIn({Root}, frames[t][i])
        BY <4>1 DEF SyncedIn
      <4> QED BY <4>2, <4>3 DEF LoopKept
    <3> QED BY <3>2, <2>6 DEF SyncIn
  <2>8. /\ frames' = [frames EXCEPT ![t] = frames[t]] /\ frames[t] \in Seq(Frame)
        /\ UNCHANGED shutdowns /\ DOMAIN region \subseteq DOMAIN region'
    BY <1>1, <2>1, <1>a DEF xy_runtime_bootstrap, CallType
  <2>9. CallType' /\ (Tidy => SyncInv')
    BY <2>1, <2>6, <2>7, <2>8, <1>a, OneThread
  <2> QED BY <2>3, <2>4, <2>5, <2>9 DEF IInv, TreeInv
<1>2. ASSUME NEW t \in Thread, xy_shutdown(t)
      PROVE  IInv'
  <2>1. DOMAIN region' = {} /\ inited' = FALSE /\ region' = [k \in DOMAIN region' |-> region'[k]]
    BY <1>2 DEF xy_shutdown
  <2>2. TreeInv'
    <3>1. RegionType' /\ ParentsNarrower'
      BY <2>1 DEF RegionType, ParentsNarrower
    <3>2. IdsAligned' /\ ChildInsideParent'
      BY <2>1 DEF IdsAligned, ChildInsideParent
    <3>3. DepthBounded' /\ KidsMatchParents'
      BY <2>1 DEF DepthBounded, KidsMatchParents
    <3> QED BY <3>1, <3>2, <3>3 DEF TreeInv
  <2>3. shutdowns' \in Nat
    BY <1>2, <1>a DEF xy_shutdown, CallType
  <2>4. \A u \in Thread : current'[u] \in Current /\ (Tidy => SyncedIn({}, current'[u]))
    <3> TAKE u \in Thread
    <3>1. CASE u = t
      <4>1. current'[u] = [id |-> XY_REGION_ROOT, entry |-> NoRegion]
        BY <3>1, <1>2 DEF xy_shutdown
      <4> QED BY <4>1 DEF Current, Id, XY_REGION_ROOT, SyncedIn
    <3>2. CASE u # t
      <4> DEFINE c == current[u]
                 d == current'[u]
      <4>1. c \in Current /\ (Tidy => SyncedIn(DOMAIN region, c))
        BY <1>a DEF CallType, SyncInv, SyncIn
      <4>2. d = [id |-> c.id, entry |-> IF c.entry = NoRegion THEN NoRegion ELSE Freed]
        BY <3>2, <4>1, <1>2 DEF xy_shutdown, Dangle, Current
      <4>3. Tidy => d.entry = Freed \/ (d.entry = NoRegion /\ d.id = XY_REGION_ROOT)
        BY <4>1, <4>2, <1>a DEF SyncedIn
      <4> QED BY <4>1, <4>2, <4>3 DEF SyncedIn, Current
    <3> QED BY <3>1, <3>2
  <2>5. \A u \in Thread : /\ frames'[u] \in Seq(Frame)
                          /\ Tidy => SyncIn({}, current'[u], frames'[u])
    <3> TAKE u \in Thread
    <3>1. /\ frames[u] \in Seq(Frame)
          /\ frames'[u] = [i \in DOMAIN frames[u] |-> Dangle(frames[u][i])]
      BY <1>2, <1>a DEF xy_shutdown, CallType
    <3>2. \A i \in DOMAIN frames[u] : frames'[u][i] \in Frame
      <4> TAKE i \in DOMAIN frames[u]
      <4>1. frames[u][i] \in Frame
        BY <3>1
      <4>2. frames'[u][i] = Dangle(frames[u][i])
        BY <3>1
      <4> QED BY <4>1, <4>2 DEF Dangle, Frame
    <3>3. frames'[u] \in Seq(Frame)
      <4> DEFINE n == Len(frames[u])
      <4>1. n \in Nat /\ DOMAIN frames[u] = 1 .. n
        BY <3>1
      <4>2. frames'[u] \in [1 .. n -> Frame]
        BY <3>1, <3>2, <4>1
      <4> HIDE DEF n
      <4> QED BY <4>1, <4>2
    <3>4. Tidy => SyncIn({}, current'[u], frames'[u])
      <4> SUFFICES ASSUME Tidy PROVE SyncIn({}, current'[u], frames'[u])
        OBVIOUS
      <4>1. SyncIn(DOMAIN region, current[u], frames[u])
        BY <1>a DEF SyncInv
      <4> QED BY <4>1, <3>1, <2>4, <1>a, SyncDangle
    <3> QED BY <3>3, <3>4
  <2>6. CallType'
    BY <2>3, <2>4, <2>5, <1>2 DEF CallType, xy_shutdown
  <2> QED BY <2>1, <2>2, <2>5, <2>6 DEF IInv, SyncInv
<1>3. ASSUME NEW t \in Thread, NEW k \in Key, NEW fn \in Fns, xy_claim_at_existing(t, k, fn)
      PROVE  IInv'
  <2> DEFINE h == region[k].handler \/ fn
             g == region[k].gate
  <2>1. k \in DOMAIN region /\ region[k] \in Entry
    BY <1>3, <1>a DEF xy_claim_at_existing, TreeInv, RegionType
  <2>2. h \in BOOLEAN /\ g \in BOOLEAN
    BY <2>1 DEF Entry
  <2>3. region' = [region EXCEPT ![k] = SetClaim(@, h, g)] /\ inited' = inited
    BY <1>3 DEF xy_claim_at_existing
  <2>4. TreeInv' /\ DOMAIN region' = DOMAIN region
    <3> HIDE DEF h, g
    <3> QED BY <2>1, <2>2, <2>3, <1>a, SetFlagsKeepsTree
  <2>5. CallType' /\ (Tidy => SyncInv')
    BY <1>3, <1>a, <2>1, <2>4, SetCurrentKeepsSync DEF xy_claim_at_existing
  <2> QED BY <2>4, <2>5 DEF IInv
<1>4. ASSUME NEW t \in Thread, NEW k \in Key, NEW fn \in Fns, xy_claim_at_new(t, k, fn)
      PROVE  IInv'
  <2>1. PICK p \in DOMAIN region : IsNearestAncestor(p, k.id, k.plen) /\ AddRegion(k, p, fn)
    BY <1>4 DEF xy_claim_at_new
  <2>2. /\ inited /\ inited' = inited /\ k \notin DOMAIN region /\ p.plen < k.plen
        /\ k.id \subseteq region_mask(k.plen) /\ Covers(p, k.id) /\ fn \in BOOLEAN
    BY <1>4, <2>1 DEF xy_claim_at_new, IsNearestAncestor, IsCanonical
  <2>3. TreeInv'
    BY <2>1, <2>2, <1>a, AddRegionKeepsTree
  <2>4. DOMAIN region' = DOMAIN region \cup {k}
    BY <2>1 DEF AddRegion
  <2>5. CallType' /\ (Tidy => SyncInv')
    BY <1>4, <1>a, <2>4, SetCurrentKeepsSync DEF xy_claim_at_new
  <2> QED BY <2>3, <2>5 DEF IInv
<1>5. ASSUME NEW t \in Thread, NEW fn \in Fns, xy_require_claim(t, fn)
      PROVE  IInv'
  <2>1. /\ current[t].entry \in DOMAIN region /\ inited' = inited /\ fn \in BOOLEAN
        /\ region' = [region EXCEPT ![current[t].entry] = SetClaim(@, fn, fn)]
        /\ UNCHANGED <<current, frames, shutdowns>>
    BY <1>5 DEF xy_require_claim
  <2>2. TreeInv' /\ DOMAIN region' = DOMAIN region
    BY <2>1, <1>a, SetFlagsKeepsTree
  <2>3. CallType' /\ (Tidy => SyncInv')
    BY <2>1, <2>2, <1>a DEF CallType, SyncInv
  <2> QED BY <2>2, <2>3 DEF IInv
<1>6. ASSUME NEW t \in Thread, NEW k \in Key, xy_with_region(t, k)
      PROVE  IInv'
  <2>1. UNCHANGED <<inited, region, shutdowns>> /\ k \in DOMAIN region
    BY <1>6 DEF xy_with_region
  <2>2. CallType' /\ (Tidy => SyncInv')
    BY <1>6, <1>a, <2>1, SetCurrentKeepsSync DEF xy_with_region
  <2> QED BY <1>b, <2>1, <2>2 DEF IInv
<1>7. ASSUME NEW t \in Thread, mod_load_flat(t)
      PROVE  IInv'
  <2>1. UNCHANGED <<inited, region, shutdowns>>
    BY <1>7 DEF mod_load_flat
  <2>2. Inherited(t) \in DOMAIN region /\ Inherited(t).id = current[t].id
    BY <1>7 DEF mod_load_flat, Inherited, region_lookup
  <2>3. CallType' /\ (Tidy => SyncInv')
    <3>1. set_current_region(t, Inherited(t).id, Inherited(t)) /\ Save(t)
      BY <1>7, <2>2 DEF mod_load_flat
    <3> QED BY <3>1, <1>a, <2>1, <2>2, SetCurrentKeepsSync
  <2> QED BY <1>b, <2>1, <2>3 DEF IInv
<1>8. ASSUME NEW t \in Thread, NEW granted \in 1 .. W, _xy_claim_for_load(t, granted)
      PROVE  IInv'
  <2>1. PICK p \in DOMAIN region, c \in Key :
          /\ c \notin DOMAIN region /\ p.plen < c.plen
          /\ c.id \subseteq region_mask(c.plen)
          /\ c.plen < W => Covers(p, c.id)
          /\ AddRegion(c, p, FALSE)
          /\ set_current_region(t, c.id, c)
    BY <1>8, <1>a, ClaimForLoadAdds
  <2>2. inited /\ inited' = inited /\ UNCHANGED shutdowns /\ Save(t)
    BY <1>8 DEF _xy_claim_for_load
  <2>3. TreeInv'
    BY <2>1, <2>2, <1>a, AddRegionKeepsTree
  <2>4. DOMAIN region' = DOMAIN region \cup {c}
    BY <2>1 DEF AddRegion
  <2>5. CallType' /\ (Tidy => SyncInv')
    BY <2>1, <2>2, <2>4, <1>a, SetCurrentKeepsSync
  <2> QED BY <2>3, <2>5 DEF IInv
<1>9. ASSUME NEW t \in Thread, xy_dispatch(t)
      PROVE  IInv'
  <2> DEFINE x == [id |-> current[t].id, entry |-> Caller(t), loop |-> TRUE]
  <2>1. /\ UNCHANGED <<inited, region, shutdowns>>
        /\ current[t] \in Current /\ frames[t] \in Seq(Frame) /\ current[t].entry # Freed
        /\ current' = [current EXCEPT ![t] = current[t]]
        /\ frames' = [frames EXCEPT ![t] = Append(frames[t], x)]
    BY <1>9, <1>a DEF xy_dispatch, Push, CallType
  <2>2. \/ current[t].entry = NoRegion /\ Caller(t) \in DOMAIN region
                                       /\ Caller(t).id = current[t].id
        \/ current[t].entry # NoRegion /\ Caller(t) = current[t].entry
    BY <1>9 DEF xy_dispatch, Caller, region_lookup
  <2>3. x \in Frame /\ x.entry # NoRegion /\ x.entry # Freed
    BY <2>1, <2>2, <1>a DEF Current, Frame
  <2>4. Tidy => SyncIn(DOMAIN region, current[t], frames[t])
    BY <1>a DEF SyncInv
  <2>5. Tidy => SyncedIn(DOMAIN region, x) /\ SyncedIn(DOMAIN region, current[t])
    BY <2>1, <2>2, <2>4 DEF SyncIn, SyncedIn
  <2>6. x.id = current[t].id
    OBVIOUS
  <2> HIDE DEF x
  <2>7. Append(frames[t], x) \in Seq(Frame)
    BY <2>1, <2>3
  <2>8. Tidy => SyncIn(DOMAIN region, current[t], Append(frames[t], x))
    BY <2>1, <2>3, <2>4, <2>5, <2>6, SyncPush
  <2>9. CallType' /\ (Tidy => SyncInv')
    BY <2>1, <2>7, <2>8, <1>a, OneThread
  <2> QED BY <1>b, <2>1, <2>9 DEF IInv
<1>10. ASSUME NEW t \in Thread, NEW k \in DOMAIN region, NEW c \in DOMAIN region,
              EnterListener(t, k, c)
       PROVE  IInv'
  <2> DEFINE n == Len(frames[t])
             x == [id |-> frames[t][n].id, entry |-> current[t].entry, loop |-> FALSE]
             d == [id |-> c.id, entry |-> k]
  <2>1. /\ UNCHANGED <<inited, region, shutdowns>>
        /\ current[t] \in Current /\ frames[t] \in Seq(Frame)
        /\ n \in DOMAIN frames[t] /\ frames[t][n] \in Frame /\ frames[t][n].loop
        /\ frames[t][n].entry \in DOMAIN region
        /\ current' = [current EXCEPT ![t] = d]
        /\ frames' = [frames EXCEPT ![t] = Append(frames[t], x)]
        /\ Tidy => c = k
    BY <1>10, <1>a DEF EnterListener, InLoop, TopFrame, Push, set_current_region, CallType
  <2>2. x \in Frame /\ d \in Current
    BY <2>1, <1>a DEF Current, Frame, Key
  <2>3. Tidy => SyncIn(DOMAIN region, current[t], frames[t])
    BY <1>a DEF SyncInv
  <2>4. Tidy => frames[t][n].id = current[t].id
    BY <2>1, <2>3, <1>a DEF SyncIn, LoopKept
  <2>5. /\ Tidy => /\ SyncedIn(DOMAIN region, x) /\ SyncedIn(DOMAIN region, d)
                   /\ x.id = current[t].id
        /\ ~x.loop
    BY <2>1, <2>3, <2>4 DEF SyncIn, SyncedIn
  <2> HIDE DEF x, d
  <2>6. Append(frames[t], x) \in Seq(Frame)
    BY <2>1, <2>2
  <2>7. Tidy => SyncIn(DOMAIN region, d, Append(frames[t], x))
    BY <2>1, <2>2, <2>3, <2>5, SyncPush
  <2>8. CallType' /\ (Tidy => SyncInv')
    BY <2>1, <2>2, <2>6, <2>7, <1>a, OneThread
  <2> QED BY <1>b, <2>1, <2>8 DEF IInv
<1>11. ASSUME NEW t \in Thread, FinishDispatch(t) \/ Return(t)
       PROVE  IInv'
  <2> DEFINE n == Len(frames[t])
             d == IF frames[t][n].loop THEN current[t]
                  ELSE [id |-> frames[t][n].id, entry |-> frames[t][n].entry]
  <2>1. /\ UNCHANGED <<inited, region, shutdowns>>
        /\ current[t] \in Current /\ frames[t] \in Seq(Frame) /\ frames[t] # <<>>
        /\ n \in Nat \ {0} /\ frames[t][n] \in Frame
        /\ frames' = [frames EXCEPT ![t] = SubSeq(frames[t], 1, n - 1)]
        /\ current' = [current EXCEPT ![t] = d]
    <3>1. /\ UNCHANGED <<inited, region, shutdowns>> /\ frames[t] # <<>>
          /\ frames' = [frames EXCEPT ![t] = SubSeq(@, 1, n - 1)]
      BY <1>11 DEF FinishDispatch, Return, InLoop
    <3>2. current[t] \in Current /\ frames[t] \in Seq(Frame)
      BY <1>a DEF CallType
    <3>3. n \in Nat \ {0} /\ frames[t][n] \in Frame
      BY <3>1, <3>2
    <3>4. current' = [current EXCEPT ![t] = d]
      <4>1. CASE FinishDispatch(t)
        <5>1. frames[t][n].loop /\ current' = current
          BY <4>1 DEF FinishDispatch, InLoop, TopFrame
        <5> QED BY <5>1, <1>a DEF CallType
      <4>2. CASE Return(t)
        BY <4>2 DEF Return, InLoop, TopFrame, set_current_region
      <4> QED BY <4>1, <4>2, <1>11
    <3>5. frames' = [frames EXCEPT ![t] = SubSeq(frames[t], 1, n - 1)]
      BY <3>1
    <3> HIDE DEF d, n
    <3> QED BY <3>1, <3>2, <3>3, <3>4, <3>5
  <2>2. d \in Current /\ SubSeq(frames[t], 1, n - 1) \in Seq(Frame)
    <3>1. d \in Current
      <4> HIDE DEF n
      <4> QED BY <2>1 DEF Current, Frame
    <3>2. SubSeq(frames[t], 1, n - 1) \in Seq(Frame)
      BY <2>1
    <3> QED BY <3>1, <3>2
  <2>3. Tidy => SyncIn(DOMAIN region, current[t], frames[t])
    BY <1>a DEF SyncInv
  <2>4. Tidy => SyncIn(DOMAIN region, d, SubSeq(frames[t], 1, n - 1))
    BY <2>1, <2>2, <2>3, SyncPop
  <2> HIDE DEF d, n
  <2>5. CallType' /\ (Tidy => SyncInv')
    BY <2>1, <2>2, <2>4, <1>a, OneThread
  <2> QED BY <1>b, <2>1, <2>5 DEF IInv
<1>12. CASE UNCHANGED vars
  BY <1>12, <1>a, <1>b DEF vars, IInv, CallType, SyncInv
<1> QED
  BY <1>1, <1>2, <1>3, <1>4, <1>5, <1>6, <1>7, <1>8, <1>9, <1>10, <1>11, <1>12 DEF Next

\* The inductive invariant holds in every reachable state.
LEMMA SpecInv == Spec => []IInv
<1>1. Init => IInv
  BY InitInv
<1>2. IInv /\ [Next]_vars => IInv'
  BY StepInv
<1> QED BY <1>1, <1>2, PTL DEF Spec

\* Type correctness of the region tree and of every thread's current region.
THEOREM TypeCorrect == Spec => []TypeOK
<1>1. IInv => TypeOK
  BY DEF IInv, TreeInv, RegionType, CallType, TypeOK
<1> QED BY <1>1, SpecInv, PTL

\* Whatever the order of claims, of the engine and of loaded modules, and for any
\* width: the regions form a tree below the root in which every edge adds bits, on
\* which the pruning of the searches rests.
THEOREM ParentsCorrect == Spec => []ParentsNarrower
<1>1. IInv => ParentsNarrower
  BY DEF IInv, TreeInv
<1> QED BY <1>1, SpecInv, PTL

\* Ids are canonical, and a region that leaves a bit free lies inside its parent,
\* whether xy_claim_at or region_alloc_slot made it.
THEOREM PrefixCorrect == Spec => [](IdsAligned /\ ChildInsideParent)
<1>1. IInv => IdsAligned /\ ChildInsideParent
  BY DEF IInv, TreeInv
<1> QED BY <1>1, SpecInv, PTL

\* The children lists agree with the parent pointers.
THEOREM TreeCorrect == Spec => []KidsMatchParents
<1>1. IInv => KidsMatchParents
  BY DEF IInv, TreeInv
<1> QED BY <1>1, SpecInv, PTL

\* No region is deeper than its width, so an array of W + 1 entries holds every
\* ancestor chain.
THEOREM DepthCorrect == Spec => []DepthBounded
<1>1. IInv => DepthBounded
  BY DEF IInv, TreeInv
<1> QED BY <1>1, SpecInv, PTL

\* In a tidy program, in which no library is loaded in two regions and no listener claims,
\* the id half and the pointer half of the current region agree, and so do those of every
\* region that a callback, a load or a dispatch of any thread has still to restore.
THEOREM CurrentCorrect ==
  ASSUME Tidy
  PROVE  Spec => []CurrentSynced
<1>1. IInv => CurrentSynced
  BY DEF IInv, SyncInv, SyncIn, SyncedIn, CurrentSynced, Synced
<1> QED BY <1>1, SpecInv, PTL

\* Changing the claim settings of an entry changes nothing the abstract tree sees.
LEMMA SetFlagsStutters ==
  ASSUME IInv, NEW e \in DOMAIN region, NEW h, NEW g,
         region' = [region EXCEPT ![e] = SetClaim(@, h, g)]
  PROVE  UNCHANGED Tree!treeVars
<1>1. DOMAIN region' = DOMAIN region
  OBVIOUS
<1>2. region'[e] = SetClaim(region[e], h, g) /\ \A k \in DOMAIN region \ {e} : region'[k] = region[k]
  OBVIOUS
<1>3. \A k \in DOMAIN region : region'[k].parent = region[k].parent /\ region'[k].kids = region[k].kids
  BY <1>2 DEF SetClaim
<1>4. [k \in DOMAIN region' |-> region'[k].parent] = [k \in DOMAIN region |-> region[k].parent]
  BY <1>1, <1>3
<1>5. [k \in DOMAIN region' |-> region'[k].kids] = [k \in DOMAIN region |-> region[k].kids]
  BY <1>1, <1>3
<1> QED BY <1>4, <1>5 DEF Tree!treeVars

\* Creating an entry adds one leaf, in front of its parent's children.
LEMMA AddRegionGrows ==
  ASSUME IInv, NEW c \in Key, c \notin DOMAIN region,
         NEW p \in DOMAIN region, NEW h, AddRegion(c, p, h)
  PROVE  Tree!Grow(c, p)
<1> DEFINE par == [k \in DOMAIN region |-> region[k].parent]
           kid == [k \in DOMAIN region |-> region[k].kids]
           parN == [k \in DOMAIN region' |-> region'[k].parent]
           kidN == [k \in DOMAIN region' |-> region'[k].kids]
<1>1. region[p] \in Entry
  BY DEF IInv, TreeInv, RegionType
<1>2. /\ DOMAIN region' = DOMAIN region \cup {c} /\ p # c
      /\ region'[c].parent = p /\ region'[c].kids = <<>>
      /\ \A k \in DOMAIN region \ {p} : region'[k] = region[k]
      /\ region'[p] = [region[p] EXCEPT !.kids = <<c>> \o @]
  BY DEF AddRegion
<1>3. region'[p].parent = region[p].parent /\ region'[p].kids = <<c>> \o region[p].kids
  BY <1>1, <1>2 DEF Entry
<1>4. parN = [n \in DOMAIN par \cup {c} |-> IF n = c THEN p ELSE par[n]]
  BY <1>2, <1>3
<1>5. kidN = [n \in DOMAIN par \cup {c} |->
               IF n = c THEN <<>> ELSE IF n = p THEN <<c>> \o kid[p] ELSE kid[n]]
  <2>1. \A n \in DOMAIN region \cup {c} :
          region'[n].kids = IF n = c THEN <<>>
                            ELSE IF n = p THEN <<c>> \o region[p].kids ELSE region[n].kids
    BY <1>2, <1>3
  <2> QED BY <1>2, <2>1
<1>6. p \in DOMAIN par /\ c \in Key \ DOMAIN par
  OBVIOUS
<1> QED BY <1>4, <1>5, <1>6 DEF Tree!Grow

\* The region table, with its identities, handlers, gates, threads and callbacks,
\* implements the grow-only tree that dispatch relies on.
THEOREM RegionImplementsTree == Spec => ImplementsTree
<1> USE WidthAssumption, PointerAssumption, RootKey
<1>1. Init => Tree!TreeInit
  BY DEF Init, Tree!TreeInit
<1>2. IInv /\ [Next]_vars => [Tree!TreeNext]_(Tree!treeVars)
  <2> SUFFICES ASSUME IInv, [Next]_vars
               PROVE Tree!TreeNext \/ UNCHANGED Tree!treeVars
    OBVIOUS
  <2>a. DOMAIN region \subseteq Key /\ (Root \in DOMAIN region <=> inited)
    BY DEF IInv, TreeInv, RegionType
  <2>1. ASSUME NEW t \in Thread, xy_runtime_bootstrap(t)
        PROVE  Tree!TreeNext
    <3>1. /\ [k \in DOMAIN region' |-> region'[k].parent] = [n \in {Root} |-> NoRegion]
          /\ [k \in DOMAIN region' |-> region'[k].kids] = [n \in {Root} |-> <<>>]
          /\ Root \notin DOMAIN [k \in DOMAIN region |-> region[k].parent]
      BY <2>1, <2>a DEF xy_runtime_bootstrap
    <3> QED BY <3>1 DEF Tree!TreeNext, Tree!Plant, Tree!RootOnly
  <2>2. ASSUME NEW t \in Thread, xy_shutdown(t)
        PROVE  Tree!TreeNext
    <3>1. /\ [k \in DOMAIN region' |-> region'[k].parent] = [n \in {} |-> NoRegion]
          /\ [k \in DOMAIN region' |-> region'[k].kids] = [n \in {} |-> NoRegion]
          /\ Root \in DOMAIN [k \in DOMAIN region |-> region[k].parent]
      BY <2>2, <2>a DEF xy_shutdown
    <3> QED BY <3>1 DEF Tree!TreeNext, Tree!Clear
  <2>3. ASSUME NEW t \in Thread, NEW k \in Key, NEW fn \in Fns, xy_claim_at_existing(t, k, fn)
        PROVE  UNCHANGED Tree!treeVars
    BY <2>3, SetFlagsStutters DEF xy_claim_at_existing
  <2>4. ASSUME NEW t \in Thread, NEW fn \in Fns, xy_require_claim(t, fn)
        PROVE  UNCHANGED Tree!treeVars
    BY <2>4, SetFlagsStutters DEF xy_require_claim
  <2>5. ASSUME NEW t \in Thread, NEW k \in Key, NEW fn \in Fns, xy_claim_at_new(t, k, fn)
        PROVE  Tree!TreeNext
    <3>1. PICK p \in DOMAIN region : AddRegion(k, p, fn)
      BY <2>5 DEF xy_claim_at_new
    <3>2. Tree!Grow(k, p)
      BY <2>5, <3>1, AddRegionGrows DEF xy_claim_at_new
    <3>3. k \in DOMAIN region' \ DOMAIN region
      BY <2>5, <3>1 DEF xy_claim_at_new, AddRegion
    <3> QED BY <3>2, <3>3 DEF Tree!TreeNext
  <2>6. ASSUME NEW t \in Thread, NEW granted \in 1 .. W, _xy_claim_for_load(t, granted)
        PROVE  Tree!TreeNext
    <3>1. PICK p \in DOMAIN region, c \in Key :
            c \notin DOMAIN region /\ AddRegion(c, p, FALSE)
      <4>1. TreeInv
        BY DEF IInv
      <4> QED BY <2>6, <4>1, ClaimForLoadAdds
    <3>2. Tree!Grow(c, p)
      BY <3>1, AddRegionGrows
    <3>3. c \in DOMAIN region' \ DOMAIN region
      BY <3>1 DEF AddRegion
    <3> QED BY <3>2, <3>3 DEF Tree!TreeNext
  <2>7. ASSUME UNCHANGED region
        PROVE  UNCHANGED Tree!treeVars
    BY <2>7 DEF Tree!treeVars
  <2>8. ASSUME NEW t \in Thread,
               \/ (\E k \in Key : xy_with_region(t, k)) \/ mod_load_flat(t) \/ Return(t)
               \/ (\E k, c \in DOMAIN region : EnterListener(t, k, c))
               \/ xy_dispatch(t) \/ FinishDispatch(t)
        PROVE  UNCHANGED region
    BY <2>8 DEF xy_with_region, mod_load_flat, Return, EnterListener, xy_dispatch,
                FinishDispatch
  <2> QED
    BY <2>1, <2>2, <2>3, <2>4, <2>5, <2>6, <2>7, <2>8 DEF Next, vars
<1> QED BY <1>1, <1>2, SpecInv, PTL DEF Spec, ImplementsTree, Tree!TreeSpec

(***************************************************************************)
(* Walks of the tree                                                       *)
(***************************************************************************)

\* What the tree gives a walk: numbers to induct over, and where the steps lead.
LEMMA WalkFacts ==
  ASSUME TreeInv, NEW n \in DOMAIN region
  PROVE  /\ n \in Key /\ n.plen \in 0 .. W /\ region[n].depth \in 0 .. W
         /\ region[n].depth <= n.plen
         /\ region[n].kids \in Seq(DOMAIN region)
         /\ \A i \in DOMAIN region[n].kids : n.plen < region[n].kids[i].plen
         /\ region[n].parent = NoRegion <=> n = Root
         /\ n = Root => region[n].depth = 0
         /\ n # Root => /\ region[n].parent \in DOMAIN region
                        /\ region[n].parent.plen < n.plen
                        /\ region[n].depth = region[region[n].parent].depth + 1
                        /\ \E i \in DOMAIN region[region[n].parent].kids :
                             region[region[n].parent].kids[i] = n
<1> USE WidthAssumption, PointerAssumption, RootKey
<1>1. /\ n \in Key /\ n.plen \in 0 .. W /\ region[n].depth \in 0 .. W
      /\ region[n].depth <= n.plen /\ region[n].kids \in Seq(Key)
  BY DEF TreeInv, RegionType, Key, Entry, DepthBounded
<1>2. n # Root => /\ region[n].parent \in DOMAIN region /\ region[n].parent \in Key
                  /\ region[n].parent.plen < n.plen
                  /\ region[n].depth = region[region[n].parent].depth + 1
  BY DEF TreeInv, RegionType, ParentsNarrower
<1>3. n = Root => region[n].parent = NoRegion /\ region[n].depth = 0
  BY <1>1 DEF TreeInv, ParentsNarrower
<1>4. \A p \in DOMAIN region : \A k \in DOMAIN region :
        region[k].parent = p <=> \E i \in DOMAIN region[p].kids : region[p].kids[i] = k
  BY DEF TreeInv, KidsMatchParents, ToSet
<1>5. \A i \in DOMAIN region[n].kids :
        region[n].kids[i] \in DOMAIN region /\ region[region[n].kids[i]].parent = n
  BY DEF TreeInv, KidsMatchParents, ToSet
<1>6. \A i \in DOMAIN region[n].kids : n.plen < region[n].kids[i].plen
  <2> TAKE i \in DOMAIN region[n].kids
  <2> DEFINE k == region[n].kids[i]
  <2>1. k \in DOMAIN region /\ region[k].parent = n
    BY <1>5
  <2>2. n # NoRegion
    BY <1>1
  <2> HIDE DEF k
  <2>3. k # Root
    BY <2>1, <2>2 DEF TreeInv, ParentsNarrower
  <2>4. n.plen < k.plen
    BY <2>1, <2>3 DEF TreeInv, ParentsNarrower
  <2> QED BY <2>4 DEF k
<1>7. region[n].kids \in Seq(DOMAIN region)
  BY <1>1, <1>5
<1> QED BY <1>1, <1>2, <1>3, <1>4, <1>6, <1>7

\* The chain of ancestors begins with the root and is never cut.
LEMMA ChainFacts ==
  ASSUME TreeInv, NEW k \in DOMAIN region
  PROVE  region_ancestor_chain(k)[1] = Root /\ Len(region_ancestor_chain(k)) = region[k].depth + 1
<1> DEFINE S == DOMAIN region
           V == Seq(Key)
           rank == [n \in S |-> region[n].depth]
           st == [n \in S |-> [f \in [S -> V] |->
                    IF region[n].parent = NoRegion THEN <<n>> ELSE Append(f[region[n].parent], n)]]
           D(F) == [n \in S |->
                     IF region[n].parent = NoRegion THEN <<n>> ELSE Append(F[region[n].parent], n)]
           up == CHOOSE F : F = D(F)
           over == Len(up[k]) - anc_chain_cap
<1> USE WidthAssumption
<1>1. \A n \in S : /\ n \in Key /\ region[n].depth \in 0 .. W
                   /\ region[n].parent = NoRegion <=> n = Root
                   /\ n = Root => region[n].depth = 0
                   /\ n # Root => /\ region[n].parent \in S
                                  /\ region[n].depth = region[region[n].parent].depth + 1
  BY WalkFacts
<1>2. rank \in [S -> Nat] /\ \A n \in S : rank[n] < W + 1
  BY <1>1
<1>3. IsRanked(S, V, rank, st)
  <2>1. ASSUME NEW n \in S, NEW f \in [S -> V] PROVE st[n][f] \in V
    <3>1. CASE n = Root
      <4>1. st[n][f] = <<n>>
        BY <1>1, <3>1
      <4> QED BY <1>1, <4>1
    <3>2. CASE n # Root
      <4>1. st[n][f] = Append(f[region[n].parent], n) /\ f[region[n].parent] \in V
        BY <1>1, <3>2
      <4> QED BY <1>1, <4>1
    <3> QED BY <3>1, <3>2
  <2>2. st \in [S -> [[S -> V] -> V]]
    BY <2>1
  <2>3. ASSUME NEW n \in S, NEW f \in [S -> V], NEW g \in [S -> V],
               \A y \in S : rank[y] < rank[n] => f[y] = g[y]
        PROVE  st[n][f] = st[n][g]
    <3>1. n # Root => region[n].parent \in S /\ rank[region[n].parent] < rank[n]
      BY <1>1
    <3>2. n # Root => f[region[n].parent] = g[region[n].parent]
      BY <2>3, <3>1
    <3> QED BY <1>1, <3>2
  <2> HIDE DEF S, V, rank, st
  <2> QED BY <1>2, <2>2, <2>3 DEF IsRanked
<1>4. PICK f \in [S -> V] : \A n \in S : f[n] = st[n][f]
  <2>1. <<>> \in V /\ W + 1 \in Nat
    OBVIOUS
  <2> HIDE DEF S, V, rank, st
  <2> QED BY <1>2, <1>3, <2>1, RankedExists
<1>5. f = D(f)
  <2>1. ASSUME NEW n \in S
        PROVE  f[n] = IF region[n].parent = NoRegion THEN <<n>> ELSE Append(f[region[n].parent], n)
    <3>1. f[n] = st[n][f]
      <4> HIDE DEF S, V, st
      <4> QED BY <1>4
    <3> HIDE DEF S, V
    <3> QED BY <3>1
  <2> HIDE DEF S, V
  <2> QED BY <2>1
<1>6. up = D(up)
  <2> HIDE DEF D
  <2> QED BY <1>5
<1>7. \A n \in S : up[n] = IF region[n].parent = NoRegion THEN <<n>> ELSE Append(up[region[n].parent], n)
  <2> HIDE DEF up
  <2> QED BY <1>6
<1> HIDE DEF up
<1> DEFINE T == {d \in 0 .. W : \A n \in S : region[n].depth = d =>
                                  up[n] \in V /\ Len(up[n]) = d + 1 /\ up[n][1] = Root}
<1>8. 0 \in T
  <2> SUFFICES ASSUME NEW n \in S, region[n].depth = 0
               PROVE  up[n] \in V /\ Len(up[n]) = 1 /\ up[n][1] = Root
    OBVIOUS
  <2>1. n = Root
    BY <1>1
  <2>2. up[n] = <<n>>
    BY <1>1, <1>7, <2>1
  <2> QED BY <1>1, <2>1, <2>2
<1>9. ASSUME NEW d \in 1 .. W, d - 1 \in T PROVE d \in T
  <2> SUFFICES ASSUME NEW n \in S, region[n].depth = d
               PROVE  up[n] \in V /\ Len(up[n]) = d + 1 /\ up[n][1] = Root
    OBVIOUS
  <2> DEFINE p == region[n].parent
  <2>1. n # Root /\ p \in S /\ region[p].depth = d - 1 /\ n \in Key
    BY <1>1
  <2>2. up[n] = Append(up[p], n)
    BY <1>1, <1>7, <2>1
  <2>3. up[p] \in V /\ Len(up[p]) = d /\ up[p][1] = Root
    BY <1>9, <2>1
  <2> HIDE DEF p
  <2> QED BY <2>1, <2>2, <2>3
<1>10. \A d \in 0 .. W : d \in T
  <2> HIDE DEF T
  <2> QED BY <1>8, <1>9, IntervalInduction
<1>11. up[k] \in V /\ Len(up[k]) = region[k].depth + 1 /\ up[k][1] = Root /\ region[k].depth \in 0 .. W
  BY <1>1, <1>10
<1>12. region_ancestor_chain(k) = IF over > 0 THEN SubSeq(up[k], over + 1, Len(up[k])) ELSE up[k]
  BY DEF region_ancestor_chain, up
<1>13. ~(over > 0)
  BY <1>11 DEF anc_chain_cap
<1> HIDE DEF over
<1> QED BY <1>11, <1>12, <1>13

\* Deny flags are read in the root: the array that xy_dispatch fills with the ancestors of
\* the calling region never loses it, for any width of ids and any order of claims.
THEOREM ChainCorrect == Spec => []AncestorChainComplete
<1>1. IInv => AncestorChainComplete
  BY ChainFacts DEF IInv, AncestorChainComplete
<1> QED BY <1>1, SpecInv, PTL

\* The greatest element of a set of positions, and what is left without it.
LEMMA MaxFacts ==
  ASSUME NEW n \in Nat, NEW s \in SUBSET (1 .. n), s # {}
  PROVE  Max(s) \in s /\ \A y \in s : Max(s) >= y
<1> DEFINE T == {n - y : y \in s}
<1>1. T \subseteq Nat /\ T # {}
  <2>1. \A y \in s : n - y \in Nat
    OBVIOUS
  <2>2. PICK y \in s : TRUE
    OBVIOUS
  <2>3. n - y \in T
    OBVIOUS
  <2>4. ASSUME NEW m \in T PROVE m \in Nat
    BY <2>1, <2>4
  <2> QED BY <2>3, <2>4
<1>2. PICK m \in T : \A y \in T : m <= y
  <2> HIDE DEF T
  <2> QED BY <1>1, LeastNatural
<1>3. PICK x \in s : m = n - x
  OBVIOUS
<1>4. \A y \in s : x >= y
  <2> TAKE y \in s
  <2>1. n - x <= n - y /\ x \in Nat /\ y \in Nat
    BY <1>2, <1>3
  <2> QED BY <2>1
<1> QED BY <1>4 DEF Max

\* b is the widest region that covers the point among the first j nodes, if there is one.
IsBest(b, id, nodes, j) ==
  IF b = NoRegion THEN \A i \in 1 .. j : ~Covers(nodes[i], id)
  ELSE /\ \E i \in 1 .. j : nodes[i] = b
       /\ Covers(b, id)
       /\ \A i \in 1 .. j : Covers(nodes[i], id) => nodes[i].plen <= b.plen

\* The running best of a walk ends as the widest covering region that the walk visits.
LEMMA BestFacts ==
  ASSUME NEW id, NEW nodes \in Seq(Key)
  PROVE  IsBest(Best(id, nodes), id, nodes, Len(nodes))
<1> DEFINE n == Len(nodes)
           S == SUBSET (DOMAIN nodes)
           V == Key \cup {NoRegion}
           Wins(b, x) == Covers(nodes[x], id) /\ (b = NoRegion \/ nodes[x].plen > b.plen)
           D(F) == [s \in S |-> IF s = {} THEN NoRegion
                                ELSE IF Wins(F[s \ {Max(s)}], Max(s)) THEN nodes[Max(s)]
                                     ELSE F[s \ {Max(s)}]]
           iter == CHOOSE F : F = D(F)
           rank == [s \in S |-> IF s = {} THEN 0 ELSE Max(s)]
           st == [s \in S |-> [f \in [S -> V] |->
                    IF s = {} THEN NoRegion
                    ELSE IF Wins(f[s \ {Max(s)}], Max(s)) THEN nodes[Max(s)]
                         ELSE f[s \ {Max(s)}]]]
<1>1. Best(id, nodes) = iter[DOMAIN nodes]
  BY DEF Best, FoldLeft, MapThenFoldSet
<1>2. n \in Nat /\ DOMAIN nodes = 1 .. n /\ \A i \in 1 .. n : nodes[i] \in Key
  OBVIOUS
<1>3. ASSUME NEW s \in S, s # {}
      PROVE  /\ Max(s) \in s /\ Max(s) \in 1 .. n
             /\ s \ {Max(s)} \in S
             /\ rank[s] = Max(s) /\ rank[s \ {Max(s)}] < rank[s]
  <2>1. Max(s) \in s /\ Max(s) \in 1 .. n /\ \A y \in s : Max(s) >= y
    BY <1>2, <1>3, MaxFacts
  <2> DEFINE r == s \ {Max(s)}
  <2>2. r \in S
    OBVIOUS
  <2>3. r # {} => Max(r) \in r /\ Max(r) \in 1 .. n
    BY <1>2, MaxFacts
  <2>4. r # {} => Max(r) < Max(s)
    BY <2>1, <2>3
  <2>5. rank[s] = Max(s) /\ rank[r] = IF r = {} THEN 0 ELSE Max(r)
    BY <1>3, <2>2
  <2> HIDE DEF r, rank
  <2> QED BY <2>1, <2>2, <2>4, <2>5 DEF r
<1>4. rank \in [S -> Nat] /\ \A s \in S : rank[s] < n + 1
  <2>1. \A s \in S : s # {} => Max(s) \in 1 .. n
    BY <1>3
  <2> QED BY <1>2, <2>1
<1>5. IsRanked(S, V, rank, st)
  <2>1. ASSUME NEW s \in S, NEW f \in [S -> V] PROVE st[s][f] \in V
    <3>1. CASE s = {}
      BY <3>1
    <3>2. CASE s # {}
      <4>1. f[s \ {Max(s)}] \in V /\ nodes[Max(s)] \in Key
        BY <1>2, <1>3, <3>2
      <4> HIDE DEF S
      <4>2. st[s][f] = nodes[Max(s)] \/ st[s][f] = f[s \ {Max(s)}]
        BY <3>2
      <4> QED BY <4>1, <4>2
    <3> QED BY <3>1, <3>2
  <2>2. st \in [S -> [[S -> V] -> V]]
    <3> HIDE DEF S, V
    <3> QED BY <2>1
  <2>3. ASSUME NEW s \in S, NEW f \in [S -> V], NEW g \in [S -> V],
               \A y \in S : rank[y] < rank[s] => f[y] = g[y]
        PROVE  st[s][f] = st[s][g]
    <3>1. s # {} => f[s \ {Max(s)}] = g[s \ {Max(s)}]
      <4> HIDE DEF S, rank
      <4> QED BY <1>3, <2>3
    <3> HIDE DEF S, V
    <3> QED BY <3>1
  <2> HIDE DEF S, V, rank, st
  <2> QED BY <1>4, <2>2, <2>3 DEF IsRanked
<1>6. PICK f \in [S -> V] : \A s \in S : f[s] = st[s][f]
  <2>1. NoRegion \in V /\ n + 1 \in Nat
    BY <1>2
  <2> HIDE DEF S, V, rank, st, n
  <2> QED BY <1>4, <1>5, <2>1, RankedExists
<1>7. f = D(f)
  <2> HIDE DEF S, V
  <2> QED BY <1>6
<1>8. iter = D(iter)
  <2> HIDE DEF D
  <2> QED BY <1>7
<1>9. \A s \in S : iter[s] = IF s = {} THEN NoRegion
                             ELSE IF Wins(iter[s \ {Max(s)}], Max(s)) THEN nodes[Max(s)]
                                  ELSE iter[s \ {Max(s)}]
  <2> HIDE DEF iter, S
  <2> QED BY <1>8
<1> HIDE DEF iter
<1>10. iter[1 .. 0] = NoRegion
  <2>1. 1 .. 0 = {} /\ {} \in S
    OBVIOUS
  <2> QED BY <1>9, <2>1
<1>11. \A j \in 1 .. n : iter[1 .. j] = IF Wins(iter[1 .. j - 1], j) THEN nodes[j] ELSE iter[1 .. j - 1]
  <2> TAKE j \in 1 .. n
  <2>1. 1 .. j \in S /\ 1 .. j # {} /\ j \in 1 .. j
    <3>1. j \in 1 .. j /\ \A i \in 1 .. j : i \in DOMAIN nodes
      BY <1>2
    <3> QED BY <3>1
  <2>2. Max(1 .. j) \in 1 .. j /\ Max(1 .. j) >= j
    BY <1>2, <2>1, MaxFacts
  <2>3. Max(1 .. j) = j
    BY <1>2, <2>2
  <2>4. (1 .. j) \ {j} = 1 .. j - 1
    BY <1>2
  <2> HIDE DEF S
  <2> QED BY <1>9, <2>1, <2>3, <2>4
<1> DEFINE T == {j \in 0 .. n : iter[1 .. j] \in V /\ IsBest(iter[1 .. j], id, nodes, j)}
<1>12. 0 \in T
  BY <1>2, <1>10 DEF IsBest
<1>13. ASSUME NEW j \in 1 .. n, j - 1 \in T PROVE j \in T
  <2> DEFINE a == iter[1 .. j - 1]
             b == iter[1 .. j]
  <2>1. a \in V /\ IsBest(a, id, nodes, j - 1) /\ b = IF Wins(a, j) THEN nodes[j] ELSE a
    BY <1>11, <1>13
  <2>2. /\ nodes[j] \in Key /\ nodes[j] # NoRegion /\ nodes[j].plen \in Nat
        /\ \A i \in 1 .. j : i = j \/ i \in 1 .. j - 1
        /\ \A i \in 1 .. j - 1 : i \in 1 .. j /\ nodes[i].plen \in Nat
    BY <1>2, PointerAssumption, WidthAssumption DEF Key
  <2>3. a # NoRegion => a.plen \in Nat
    BY <2>1, WidthAssumption DEF Key
  <2> HIDE DEF a, b
  <2>4. IsBest(b, id, nodes, j)
    <3>1. CASE Wins(a, j)
      <4>1. b = nodes[j] /\ Covers(b, id)
        BY <2>1, <3>1
      <4>2. \A i \in 1 .. j - 1 : Covers(nodes[i], id) => nodes[i].plen <= b.plen
        BY <2>1, <2>2, <2>3, <3>1, <4>1 DEF IsBest
      <4> QED BY <2>2, <4>1, <4>2 DEF IsBest
    <3>2. CASE ~Wins(a, j)
      <4>1. b = a
        BY <2>1, <3>2
      <4>2. CASE a = NoRegion
        BY <2>1, <2>2, <3>2, <4>1, <4>2 DEF IsBest
      <4>3. CASE a # NoRegion
        BY <2>1, <2>2, <2>3, <3>2, <4>1, <4>3 DEF IsBest
      <4> QED BY <4>2, <4>3
    <3> QED BY <3>1, <3>2
  <2>5. b \in V
    BY <2>1, <2>2
  <2> QED BY <2>4, <2>5 DEF b
<1>14. \A j \in 0 .. n : j \in T
  <2> HIDE DEF T, n
  <2> QED BY <1>2, <1>12, <1>13, IntervalInduction
<1>15. IsBest(iter[1 .. n], id, nodes, n)
  BY <1>2, <1>14
<1> QED BY <1>1, <1>2, <1>15

\* A walk that does not descend past width limit visits exactly the regions that are no
\* wider, because a child is wider than its parent.
LEMMA VisitedFacts ==
  ASSUME TreeInv, inited, NEW limit \in Int
  PROVE  /\ Visited(limit) \in Seq(DOMAIN region)
         /\ \A n \in DOMAIN region :
              n.plen <= limit <=> \E j \in 1 .. Len(Visited(limit)) : Visited(limit)[j] = n
<1> DEFINE S == DOMAIN region
           V == Seq(S)
           Below(f, n) == [i \in DOMAIN region[n].kids |-> f[region[n].kids[i]]]
           rank == [n \in S |-> W - n.plen]
           st == [n \in S |-> [f \in [S -> V] |->
                    IF n.plen > limit THEN <<>> ELSE <<n>> \o FlattenSeq(Below(f, n))]]
           D(F) == [n \in S |-> IF n.plen > limit THEN <<>> ELSE <<n>> \o FlattenSeq(Below(F, n))]
           visit == CHOOSE F : F = D(F)
<1> USE WidthAssumption
<1>1. \A n \in S : /\ n.plen \in 0 .. W /\ region[n].kids \in V
                   /\ \A i \in DOMAIN region[n].kids : n.plen < region[n].kids[i].plen
                   /\ n # Root => /\ region[n].parent \in S
                                  /\ region[n].parent.plen < n.plen
                                  /\ \E i \in DOMAIN region[region[n].parent].kids :
                                       region[region[n].parent].kids[i] = n
  BY WalkFacts
<1>2. rank \in [S -> Nat] /\ \A n \in S : rank[n] < W + 1
  BY <1>1
<1>21. \A n \in S : \A i \in DOMAIN region[n].kids :
         region[n].kids[i] \in S /\ rank[region[n].kids[i]] < rank[n]
  <2> TAKE n \in S
  <2> TAKE i \in DOMAIN region[n].kids
  <2> DEFINE c == region[n].kids[i]
  <2>1. region[n].kids \in Seq(S) /\ n.plen < c.plen /\ n.plen \in 0 .. W
    BY <1>1
  <2>2. c \in S
    BY <2>1
  <2>3. c.plen \in 0 .. W
    BY <1>1, <2>2
  <2> HIDE DEF c
  <2>4. rank[c] < rank[n]
    BY <2>1, <2>2, <2>3
  <2> QED BY <2>2, <2>4 DEF c
<1>3. ASSUME NEW f \in [S -> V], NEW n \in S
      PROVE  /\ Below(f, n) \in [1 .. Len(region[n].kids) -> Seq(S)] /\ Len(region[n].kids) \in Nat
             /\ DOMAIN region[n].kids = 1 .. Len(region[n].kids)
             /\ FlatFacts(S, Len(region[n].kids), Below(f, n), FlattenSeq(Below(f, n)))
  <2>1. /\ Len(region[n].kids) \in Nat /\ DOMAIN region[n].kids = 1 .. Len(region[n].kids)
        /\ \A i \in DOMAIN region[n].kids : region[n].kids[i] \in S
    BY <1>1
  <2>2. Below(f, n) \in [1 .. Len(region[n].kids) -> Seq(S)]
    BY <2>1
  <2> HIDE DEF Below
  <2> QED BY <2>1, <2>2, FlattenFacts
<1>4. IsRanked(S, V, rank, st)
  <2>1. ASSUME NEW n \in S, NEW f \in [S -> V] PROVE st[n][f] \in V
    <3>1. FlattenSeq(Below(f, n)) \in Seq(S)
      BY <1>3 DEF FlatFacts
    <3> HIDE DEF Below
    <3>2. <<n>> \o FlattenSeq(Below(f, n)) \in V /\ <<>> \in V
      BY <3>1
    <3> HIDE DEF S, V
    <3> QED BY <3>2
  <2>2. st \in [S -> [[S -> V] -> V]]
    <3> HIDE DEF S, V, Below
    <3> QED BY <2>1
  <2>3. ASSUME NEW n \in S, NEW f \in [S -> V], NEW g \in [S -> V],
               \A y \in S : rank[y] < rank[n] => f[y] = g[y]
        PROVE  st[n][f] = st[n][g]
    <3>1. Below(f, n) = Below(g, n)
      <4> HIDE DEF S, V, rank
      <4> QED BY <1>21, <2>3
    <3> HIDE DEF S, V, Below
    <3> QED BY <3>1
  <2> HIDE DEF S, V, rank, st
  <2> QED BY <1>2, <2>2, <2>3 DEF IsRanked
<1>5. PICK f \in [S -> V] : \A n \in S : f[n] = st[n][f]
  <2>1. <<>> \in V /\ W + 1 \in Nat
    OBVIOUS
  <2> HIDE DEF S, V, rank, st
  <2> QED BY <1>2, <1>4, <2>1, RankedExists
<1>6. f = D(f)
  <2> HIDE DEF S, V, Below
  <2> QED BY <1>5
<1>7. visit = D(visit)
  <2> HIDE DEF D
  <2> QED BY <1>6
<1>8. \A n \in S : visit[n] = IF n.plen > limit THEN <<>> ELSE <<n>> \o FlattenSeq(Below(visit, n))
  <2> HIDE DEF visit, S, Below
  <2> QED BY <1>7
<1> HIDE DEF visit
<1>9. \A n \in S : visit[n] = f[n]
  <2> DEFINE bad == {n \in S : visit[n] # f[n]}
             ranks == {rank[n] : n \in bad}
  <2> SUFFICES ASSUME bad # {} PROVE FALSE
    OBVIOUS
  <2>1. ranks \subseteq Nat /\ ranks # {}
    <3>1. \A n \in bad : rank[n] \in Nat
      BY <1>2
    <3> QED BY <3>1
  <2>2. PICK m \in ranks : \A r \in ranks : m <= r
    <3> HIDE DEF ranks
    <3> QED BY <2>1, LeastNatural
  <2>3. PICK n \in bad : m = rank[n]
    OBVIOUS
  <2>4. \A y \in S : rank[y] < rank[n] => visit[y] = f[y]
    <3> SUFFICES ASSUME NEW y \in S, rank[y] < rank[n], y \in bad PROVE FALSE
      OBVIOUS
    <3>1. rank[n] <= rank[y] /\ rank[n] \in Nat /\ rank[y] \in Nat
      BY <1>2, <2>2, <2>3
    <3> HIDE DEF rank
    <3> QED BY <3>1
  <2>6. Below(visit, n) = Below(f, n)
    <3> HIDE DEF S, V, rank
    <3> QED BY <1>21, <2>4
  <2>7. n \in S /\ visit[n] # f[n]
    OBVIOUS
  <2>8. f[n] = IF n.plen > limit THEN <<>> ELSE <<n>> \o FlattenSeq(Below(f, n))
    <3> HIDE DEF S, V, Below
    <3> QED BY <1>5, <2>7
  <2> HIDE DEF S, V, Below, bad
  <2> QED BY <1>8, <2>6, <2>7, <2>8
<1> DEFINE In(x, n) == \E j \in 1 .. Len(f[n]) : f[n][j] = x
<1>10. \A n \in S : f[n] = IF n.plen > limit THEN <<>> ELSE <<n>> \o FlattenSeq(Below(f, n))
  <2> HIDE DEF S, V, Below
  <2> QED BY <1>5
<1>11. ASSUME NEW n \in S, n.plen <= limit
       PROVE  /\ In(n, n)
              /\ \A i \in DOMAIN region[n].kids, x \in S : In(x, region[n].kids[i]) => In(x, n)
              /\ \A x : In(x, n) => x = n \/ \E i \in DOMAIN region[n].kids : In(x, region[n].kids[i])
  <2> DEFINE kids == region[n].kids
             ss == Below(f, n)
  <2>1. PICK F : F = FlattenSeq(ss)
    OBVIOUS
  <2>2. /\ FlatFacts(S, Len(kids), ss, F) /\ DOMAIN kids = 1 .. Len(kids)
        /\ \A i \in DOMAIN kids : ss[i] = f[kids[i]]
    BY <1>3, <2>1
  <2>3. f[n] = <<n>> \o F
    <3>1. n.plen \in Int /\ ~(n.plen > limit)
      BY <1>1, <1>11
    <3> HIDE DEF S, V, Below
    <3> QED BY <1>10, <2>1, <3>1
  <2> HIDE DEF S, V, ss, Below
  <2>4. /\ F \in Seq(S) /\ n \in S
        /\ \A j \in 1 .. Len(F) : \E i \in DOMAIN kids : \E k \in 1 .. Len(f[kids[i]]) : F[j] = f[kids[i]][k]
        /\ \A i \in DOMAIN kids : \A k \in 1 .. Len(f[kids[i]]) :
             \E j \in 1 .. Len(F) : F[j] = f[kids[i]][k]
    <3> HIDE DEF kids
    <3>1. F \in Seq(S) /\ n \in S
      BY <2>2 DEF FlatFacts
    <3>2. ASSUME NEW j \in 1 .. Len(F)
          PROVE  \E i \in DOMAIN kids : \E k \in 1 .. Len(f[kids[i]]) : F[j] = f[kids[i]][k]
      <4>1. PICK i \in 1 .. Len(kids) : \E k \in 1 .. Len(ss[i]) : F[j] = ss[i][k]
        BY <2>2 DEF FlatFacts
      <4>2. i \in DOMAIN kids /\ ss[i] = f[kids[i]]
        BY <2>2
      <4> QED BY <4>1, <4>2
    <3>3. ASSUME NEW i \in DOMAIN kids, NEW k \in 1 .. Len(f[kids[i]])
          PROVE  \E j \in 1 .. Len(F) : F[j] = f[kids[i]][k]
      <4>1. i \in 1 .. Len(kids) /\ ss[i] = f[kids[i]]
        BY <2>2
      <4>2. \A h \in DOMAIN kids : \A m \in 1 .. Len(ss[h]) : \E j \in 1 .. Len(F) : F[j] = ss[h][m]
        BY <2>2 DEF FlatFacts
      <4>3. \A m \in 1 .. Len(ss[i]) : \E j \in 1 .. Len(F) : F[j] = ss[i][m]
        BY <4>2
      <4> QED BY <4>1, <4>3
    <3> QED BY <3>1, <3>2, <3>3
  <2>5. Len(F) \in Nat
    BY <2>4
  <2>6. /\ Len(f[n]) = 1 + Len(F) /\ f[n][1] = n
        /\ \A k \in 1 .. Len(F) : f[n][1 + k] = F[k]
    BY <2>3, <2>4
  <2>7. \A k \in 1 .. Len(F) : 1 + k \in 1 .. Len(f[n])
    BY <2>5, <2>6
  <2>8. \A j \in 1 .. Len(f[n]) : j = 1 \/ (j - 1 \in 1 .. Len(F) /\ j = 1 + (j - 1))
    BY <2>5, <2>6
  <2>9. 1 \in 1 .. Len(f[n])
    BY <2>5, <2>6
  <2> HIDE DEF kids
  <2>10. In(n, n)
    BY <2>6, <2>9
  <2>11. ASSUME NEW i \in DOMAIN kids, NEW x \in S, In(x, kids[i]) PROVE In(x, n)
    <3>1. PICK k \in 1 .. Len(f[kids[i]]) : f[kids[i]][k] = x
      BY <2>11
    <3>2. PICK j \in 1 .. Len(F) : F[j] = x
      BY <2>4, <3>1
    <3> QED BY <2>6, <2>7, <3>2
  <2>12. \A x : In(x, n) => x = n \/ \E i \in DOMAIN kids : In(x, kids[i])
    <3> SUFFICES ASSUME NEW x, NEW j \in 1 .. Len(f[n]), f[n][j] = x, x # n
                 PROVE  \E i \in DOMAIN kids : In(x, kids[i])
      OBVIOUS
    <3>1. j - 1 \in 1 .. Len(F) /\ F[j - 1] = x
      BY <2>6, <2>8
    <3>2. PICK i \in DOMAIN kids : \E k \in 1 .. Len(f[kids[i]]) : F[j - 1] = f[kids[i]][k]
      BY <2>4, <3>1
    <3> QED BY <3>1, <3>2
  <2> QED BY <2>10, <2>11, <2>12 DEF kids
<1>12. \A n \in S : n.plen <= limit => \A x \in S : In(x, n) => In(x, Root)
  <2> DEFINE T == {d \in 0 .. W : \A n \in S : n.plen <= d /\ n.plen <= limit =>
                                    \A x \in S : In(x, n) => In(x, Root)}
  <2> HIDE DEF In
  <2>1. ASSUME NEW d \in 0 .. W, \A m \in 0 .. W : m < d => m \in T PROVE d \in T
    <3> SUFFICES ASSUME NEW n \in S, n.plen <= d, n.plen <= limit, NEW x \in S, In(x, n), n # Root
                 PROVE  In(x, Root)
      OBVIOUS
    <3> DEFINE p == region[n].parent
    <3>1. p \in S /\ p.plen < n.plen /\ p.plen \in 0 .. W /\ n.plen \in 0 .. W
      BY <1>1
    <3>2. PICK i \in DOMAIN region[p].kids : region[p].kids[i] = n
      BY <1>1
    <3>3. p.plen <= limit /\ p.plen < d
      BY <3>1
    <3> HIDE DEF p, S
    <3>4. In(x, p)
      BY <1>11, <3>1, <3>2, <3>3
    <3>5. p.plen \in T
      BY <2>1, <3>1, <3>3
    <3> QED BY <3>1, <3>3, <3>4, <3>5
  <2>2. \A d \in 0 .. W : d \in T
    <3> DEFINE bad == {d \in 0 .. W : d \notin T}
    <3> HIDE DEF T
    <3> SUFFICES ASSUME bad # {} PROVE FALSE
      OBVIOUS
    <3>1. bad \subseteq Nat
      OBVIOUS
    <3>2. PICK d \in bad : \A m \in bad : d <= m
      <4> HIDE DEF bad
      <4> QED BY <3>1, LeastNatural
    <3>3. \A m \in 0 .. W : m < d => m \in T
      BY <3>2
    <3> QED BY <2>1, <3>3
  <2>3. \A n \in S : n.plen \in T /\ n.plen <= n.plen
    BY <1>1, <2>2
  <2> HIDE DEF S
  <2> QED BY <2>3
<1>13. \A n \in S : \A x : In(x, n) => x \in S /\ x.plen <= limit
  <2> DEFINE bad == {n \in S : \E x : In(x, n) /\ ~(x \in S /\ x.plen <= limit)}
             ranks == {rank[n] : n \in bad}
  <2> HIDE DEF In
  <2> SUFFICES ASSUME bad # {} PROVE FALSE
    OBVIOUS
  <2>1. ranks \subseteq Nat /\ ranks # {}
    <3>1. \A n \in bad : rank[n] \in Nat
      BY <1>2
    <3> QED BY <3>1
  <2>2. PICK m \in ranks : \A r \in ranks : m <= r
    <3> HIDE DEF ranks
    <3> QED BY <2>1, LeastNatural
  <2>3. PICK n \in bad : m = rank[n]
    OBVIOUS
  <2>4. \A y \in S : rank[y] < rank[n] => y \notin bad
    <3> SUFFICES ASSUME NEW y \in S, rank[y] < rank[n], y \in bad PROVE FALSE
      OBVIOUS
    <3>1. rank[n] <= rank[y] /\ rank[n] \in Nat /\ rank[y] \in Nat
      BY <1>2, <2>2, <2>3
    <3> HIDE DEF rank
    <3> QED BY <3>1
  <2>6. PICK x : In(x, n) /\ ~(x \in S /\ x.plen <= limit)
    OBVIOUS
  <2>7. n \in S /\ n.plen <= limit
    <3>1. f[n] # <<>>
      BY <2>6 DEF In
    <3>2. n \in S /\ n.plen \in Int
      BY <1>1
    <3>3. ~(n.plen > limit)
      <4> HIDE DEF S, V, Below, bad
      <4> QED BY <1>10, <3>1, <3>2
    <3> QED BY <3>2, <3>3
  <2>8. PICK i \in DOMAIN region[n].kids : In(x, region[n].kids[i])
    <3> HIDE DEF S
    <3> QED BY <1>11, <2>6, <2>7
  <2> HIDE DEF S, V, rank
  <2> QED BY <1>21, <2>4, <2>6, <2>8
<1>14. Root \in S /\ Visited(limit) = visit[Root] /\ visit[Root] = f[Root]
  <2>1. Root \in S
    BY DEF TreeInv, RegionType
  <2>2. Visited(limit) = visit[Root]
    BY DEF Visited, visit
  <2> QED BY <1>9, <2>1, <2>2
<1>15. ASSUME NEW n \in S PROVE n.plen <= limit <=> In(n, Root)
  <2> HIDE DEF In, S
  <2> QED BY <1>11, <1>12, <1>13, <1>14
<1> QED BY <1>14, <1>15

\* Both pruned searches find the deepest region that covers a point: no order of claims and
\* no overlap of regions of full width hides one from them.
THEOREM SearchCorrect == Spec => []SearchFindsDeepest
<1>1. ASSUME IInv, inited, NEW id, NEW limit \in Int, NEW b, b = Best(id, Visited(limit))
      PROVE  /\ b = NoRegion =>
                  \A n \in DOMAIN region : n.plen <= limit => ~Covers(n, id)
             /\ b # NoRegion =>
                  /\ b \in DOMAIN region /\ b.plen <= limit /\ Covers(b, id)
                  /\ \A n \in DOMAIN region : n.plen <= limit /\ Covers(n, id) => n.plen <= b.plen
  <2>1. PICK nodes : nodes = Visited(limit)
    OBVIOUS
  <2>2. TreeInv /\ DOMAIN region \subseteq Key
    BY <1>1 DEF IInv, TreeInv, RegionType
  <2>3. /\ nodes \in Seq(DOMAIN region)
        /\ \A n \in DOMAIN region : n.plen <= limit <=> \E j \in 1 .. Len(nodes) : nodes[j] = n
    BY <1>1, <2>1, <2>2, VisitedFacts
  <2>4. nodes \in Seq(Key)
    BY <2>2, <2>3
  <2>5. IsBest(b, id, nodes, Len(nodes))
    BY <1>1, <2>1, <2>4, BestFacts
  <2>6. \A j \in 1 .. Len(nodes) : nodes[j] \in DOMAIN region
    BY <2>3
  <2> QED BY <2>3, <2>5, <2>6 DEF IsBest
<1>2. ASSUME IInv, inited, NEW q \in Key
      PROVE  LET p == region_find_ancestor(q.id, q.plen)
             IN IF p = NoRegion THEN \A n \in DOMAIN region : ~IsNearestAncestor(n, q.id, q.plen)
                ELSE IsNearestAncestor(p, q.id, q.plen)
  <2>1. PICK b : b = Best(q.id, Visited(q.plen - 1))
    OBVIOUS
  <2>2. /\ q.plen \in Nat /\ q.plen - 1 \in Int
        /\ \A n \in DOMAIN region : n.plen \in Nat
    BY <1>2, WidthAssumption DEF IInv, TreeInv, RegionType, Key
  <2>3. \A n \in DOMAIN region : n.plen <= q.plen - 1 <=> n.plen < q.plen
    BY <2>2
  <2>4. /\ b = NoRegion =>
             \A n \in DOMAIN region : n.plen < q.plen => ~Covers(n, q.id)
        /\ b # NoRegion =>
             /\ b \in DOMAIN region /\ b.plen < q.plen /\ Covers(b, q.id)
             /\ \A n \in DOMAIN region : n.plen < q.plen /\ Covers(n, q.id) => n.plen <= b.plen
    BY <1>1, <1>2, <2>1, <2>2, <2>3
  <2> QED BY <2>1, <2>4 DEF region_find_ancestor, IsNearestAncestor
<1>3. ASSUME IInv, inited, NEW q \in Key
      PROVE  LET r == region_find_cover(q.id, q.plen)
             IN /\ r \in DOMAIN region /\ r.plen <= q.plen /\ Covers(r, q.id)
                /\ \A n \in DOMAIN region : n.plen <= q.plen /\ Covers(n, q.id) => n.plen <= r.plen
  <2>1. PICK b : b = Best(q.id, Visited(q.plen))
    OBVIOUS
  <2>2. q.plen \in Nat /\ q.plen \in Int
    BY WidthAssumption DEF Key
  <2>3. Root \in DOMAIN region /\ Root.plen <= q.plen /\ Covers(Root, q.id)
    <3>1. Root \in DOMAIN region
      BY <1>3 DEF IInv, TreeInv, RegionType
    <3>2. region_mask(0) = {}
      BY DEF region_mask
    <3>3. Covers(Root, q.id)
      BY <3>2, RootKey DEF Covers
    <3> QED BY <2>2, <3>1, <3>3, RootKey
  <2>4. b # NoRegion
    BY <1>1, <1>3, <2>1, <2>2, <2>3
  <2> QED BY <1>1, <1>3, <2>1, <2>2, <2>4 DEF region_find_cover
<1>4. IInv => SearchFindsDeepest
  BY <1>2, <1>3 DEF SearchFindsDeepest
<1> QED BY <1>4, SpecInv, PTL
===============================================================================
