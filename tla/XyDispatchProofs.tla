--------------------------- MODULE XyDispatchProofs ---------------------------
(***************************************************************************)
(* Proofs about the dispatch caches: for every tree of regions, every set  *)
(* of libraries and hooks and every history of loads, unloads, reloads,    *)
(* denies and calls.                                                       *)
(* IInv is inductive.  The order of the vectors needs more: Shape, that    *)
(* the children lists and the chains of ancestors describe one tree.       *)
(***************************************************************************)
EXTENDS XyDispatch, FiniteSetTheorems, XySeqProofs

(***************************************************************************)
(* The inductive invariant                                                 *)
(***************************************************************************)

\* The chain of a region has the region and the root in it, and only regions.
Chains ==
  /\ \A r \in Region : r \in above[r] /\ TreeRoot \in above[r]
  /\ \A n \in Node : above[n] \subseteq Region

\* A region that does not exist yet holds nothing.
Unborn ==
  \A n \in Node \ Region :
    mods[n] = <<>> /\ slots[n] = Nothing /\ ~subtree_dirty[n] /\ subtree_mods[n] = <<>>

\* There are finitely many loaded modules, so that a vector can list them.
LinkedEntries == {m \in Entry : Linked(m)}
FinitelyMany == IsFiniteSet(LinkedEntries)

\* A subtree vector that is not dirty lists the modules below the region.
Lists(r) ==
  \A m \in Entry : m \in Below(r) <=> \E i \in DOMAIN subtree_mods[r] : subtree_mods[r][i] = m
SubtreeLists ==
  /\ slots = [n \in Node |-> slots[n]]
  /\ \A r \in Region : IF subtree_dirty[r] THEN slots[r] = Nothing ELSE Lists(r)

\* Only registered hooks have vectors.
RegisteredOnly == \A r \in Region : DOMAIN slots[r] \subseteq hooks

\* What the caches of a module know of a hook: nothing, unless the module is loaded and
\* the hook registered; then the truth, where a pointer that was cleared is still
\* known by its bit.
Known(m, h) ==
  IF Linked(m) /\ h \in hooks
  THEN /\ h \in hook_impl[m] <=> <<m[1], h>> \in Exports
       /\ fn_cache[m][h] = Resolve(m, h) \/ (fn_cache[m][h] = "null" /\ h \in hook_impl[m])
  ELSE fn_cache[m][h] = "null" /\ h \notin hook_impl[m]
AllKnown == \A m \in Entry, h \in Hook : Known(m, h)

\* Wherever something is denied, the flag of the root is set.
FlagsCover ==
  \A n \in Node : denied_modules[n] # {} \/ denied_hooks[n] # {} => subtree_flags[TreeRoot]

IInv ==
  /\ TypeOK
  /\ Chains
  /\ Unborn
  /\ FinitelyMany
  /\ SubtreeLists
  /\ RegisteredOnly
  /\ AllKnown
  /\ FlagsCover
  /\ NoDeadModule
  /\ CacheComplete

(***************************************************************************)
(* What a step does to the lists, and to the vectors that name it          *)
(***************************************************************************)

\* No list changes: the loaded modules are the same.
LEMMA SameLinked ==
  ASSUME mods' = mods
  PROVE  \A e \in Entry : Linked(e)' <=> Linked(e)
  BY DEF Linked

\* An appended entry is loaded, the others are as before.
LEMMA AppendLinks ==
  ASSUME TypeOK, NEW m \in Entry, ~Linked(m),
         mods' = [mods EXCEPT ![m[2]] = Append(@, m)]
  PROVE  /\ \A e \in Entry : Linked(e)' <=> Linked(e) \/ e = m
         /\ mods' \in [Node -> Seq(Entry)]
         /\ \A r \in Node : \A i \in DOMAIN mods'[r] :
              /\ mods'[r][i][2] = r
              /\ \A j \in DOMAIN mods'[r] : mods'[r][i] = mods'[r][j] => i = j
<1>1. m[2] \in Node /\ mods[m[2]] \in Seq(Entry)
  BY DEF TypeOK, Entry
<1>2. mods' \in [Node -> Seq(Entry)]
  BY <1>1 DEF TypeOK
<1> DEFINE old == mods[m[2]]
           new == mods'[m[2]]
<1>3. /\ new = Append(old, m)
      /\ DOMAIN new = 1 .. Len(old) + 1
      /\ DOMAIN old = 1 .. Len(old)
      /\ Len(old) \in Nat
      /\ \A i \in 1 .. Len(old) : new[i] = old[i]
      /\ new[Len(old) + 1] = m
  BY <1>1 DEF TypeOK
<1>4. \A n \in Node : n # m[2] => mods'[n] = mods[n]
  BY <1>1 DEF TypeOK
<1>5. \A e \in Entry : Linked(e)' <=> Linked(e) \/ e = m
  <2> SUFFICES ASSUME NEW e \in Entry PROVE Linked(e)' <=> Linked(e) \/ e = m
    OBVIOUS
  <2>0. e[2] \in Node
    BY DEF Entry
  <2>1. CASE e[2] = m[2]
    <3>1. Linked(e)' <=> \E i \in 1 .. Len(old) + 1 : new[i] = e
      BY <1>3, <2>1 DEF Linked
    <3>2. Linked(e) <=> \E i \in 1 .. Len(old) : old[i] = e
      BY <1>3, <2>1 DEF Linked
    <3> QED BY <1>3, <3>1, <3>2
  <2>2. CASE e[2] # m[2]
    BY <1>4, <2>0, <2>2 DEF Linked
  <2> QED BY <2>1, <2>2
<1>6. ASSUME NEW r \in Node, NEW i \in DOMAIN mods'[r]
      PROVE  /\ mods'[r][i][2] = r
             /\ \A j \in DOMAIN mods'[r] : mods'[r][i] = mods'[r][j] => i = j
  <2>1. CASE r = m[2]
    <3>1. \A k \in 1 .. Len(old) : old[k] # m
      BY <1>3 DEF Linked
    <3>2. \A k \in 1 .. Len(old) : old[k][2] = r /\ \A j \in 1 .. Len(old) : old[k] = old[j] => k = j
      BY <1>3, <2>1 DEF TypeOK
    <3>3. \A j \in 1 .. Len(old) + 1 : j \in 1 .. Len(old) \/ j = Len(old) + 1
      BY <1>3
    <3> QED BY <1>3, <1>6, <2>1, <3>1, <3>2, <3>3
  <2>2. CASE r # m[2]
    BY <1>4, <1>6, <2>2 DEF TypeOK
  <2> QED BY <2>1, <2>2
<1> QED BY <1>2, <1>5, <1>6

\* An entry that is taken out is not loaded any more, the others are as before.
LEMMA RemoveUnlinks ==
  ASSUME TypeOK, NEW m \in Entry, NEW p \in DOMAIN mods[m[2]], mods[m[2]][p] = m,
         mods' = [mods EXCEPT ![m[2]] = [j \in 1 .. Len(@) - 1 |->
                                           IF j < p THEN @[j] ELSE @[j + 1]]]
  PROVE  /\ \A e \in Entry : Linked(e)' <=> Linked(e) /\ e # m
         /\ mods' \in [Node -> Seq(Entry)]
         /\ \A r \in Node : \A i \in DOMAIN mods'[r] :
              /\ mods'[r][i][2] = r
              /\ \A j \in DOMAIN mods'[r] : mods'[r][i] = mods'[r][j] => i = j
<1>1. m[2] \in Node /\ mods[m[2]] \in Seq(Entry)
  BY DEF TypeOK, Entry
<1> DEFINE old == mods[m[2]]
           n == Len(old)
           new == mods'[m[2]]
<1>2. /\ n \in Nat
      /\ DOMAIN old = 1 .. n
      /\ p \in 1 .. n
      /\ old[p] = m
      /\ \A i \in 1 .. n : old[i] \in Entry
  BY <1>1
<1>3. /\ new = [j \in 1 .. n - 1 |-> IF j < p THEN old[j] ELSE old[j + 1]]
      /\ \A r \in Node : r # m[2] => mods'[r] = mods[r]
  BY <1>1 DEF TypeOK
<1>4. /\ DOMAIN new = 1 .. n - 1
      /\ \A j \in 1 .. n - 1 : new[j] = IF j < p THEN old[j] ELSE old[j + 1]
  BY <1>3
<1> DEFINE at == [j \in 1 .. n - 1 |-> IF j < p THEN j ELSE j + 1]
<1>a. \A j \in 1 .. n - 1 : new[j] = old[at[j]]
  BY <1>2, <1>4
<1> HIDE DEF new, n, old
<1>b. \A j \in 1 .. n - 1 : at[j] \in 1 .. n /\ \A k \in 1 .. n - 1 : at[j] = at[k] => j = k
  BY <1>2
<1>c. \A i \in 1 .. n : i # p <=> \E j \in 1 .. n - 1 : at[j] = i
  <2> SUFFICES ASSUME NEW i \in 1 .. n PROVE i # p <=> \E j \in 1 .. n - 1 : at[j] = i
    OBVIOUS
  <2>1. CASE i < p
    BY <1>2, <2>1
  <2>2. CASE i > p
    <3>1. i - 1 \in 1 .. n - 1 /\ at[i - 1] = i
      BY <1>2, <2>2
    <3> QED BY <1>2, <2>2, <3>1
  <2>3. CASE i = p
    BY <1>2, <2>3
  <2> QED BY <1>2, <2>1, <2>2, <2>3
<1> HIDE DEF at
<1>5. \A j \in 1 .. n - 1 : new[j] \in Entry
  BY <1>2, <1>a, <1>b
<1>6. new \in Seq(Entry)
  <2>1. n - 1 \in Nat
    BY <1>2
  <2>2. new \in [1 .. n - 1 -> Entry]
    BY <1>3, <1>4, <1>5
  <2> QED BY <2>1, <2>2
<1>7. mods' \in [Node -> Seq(Entry)]
  BY <1>1, <1>3, <1>6 DEF TypeOK, new, n, old
<1>8. \A i, j \in 1 .. n : old[i][2] = m[2] /\ (old[i] = old[j] => i = j)
  BY <1>1, <1>2 DEF TypeOK, old
<1>9. ASSUME NEW e \in Entry, e[2] = m[2]
      PROVE  Linked(e)' <=> Linked(e) /\ e # m
  <2>1. Linked(e)' <=> \E i \in 1 .. n - 1 : new[i] = e
    BY <1>4, <1>9 DEF Linked, new
  <2>2. Linked(e) <=> \E i \in 1 .. n : old[i] = e
    BY <1>2, <1>9 DEF Linked, old
  <2>3. Linked(e)' <=> \E i \in 1 .. n : i # p /\ old[i] = e
    BY <1>a, <1>b, <1>c, <2>1
  <2> QED BY <1>2, <1>8, <2>2, <2>3
<1>10. ASSUME NEW e \in Entry, e[2] # m[2]
       PROVE  Linked(e)' <=> Linked(e) /\ e # m
  <2>1. e[2] \in Node
    BY DEF Entry
  <2> QED BY <1>3, <1>10, <2>1 DEF Linked
<1>11. ASSUME NEW r \in Node, NEW i \in DOMAIN mods'[r]
       PROVE  /\ mods'[r][i][2] = r
              /\ \A j \in DOMAIN mods'[r] : mods'[r][i] = mods'[r][j] => i = j
  <2>1. CASE r = m[2]
    <3>1. i \in 1 .. n - 1
      BY <1>4, <1>11, <2>1 DEF new
    <3>2. new[i][2] = m[2]
      BY <1>8, <1>a, <1>b, <3>1
    <3>3. \A j \in 1 .. n - 1 : new[i] = new[j] => i = j
      BY <1>8, <1>a, <1>b, <3>1
    <3> QED BY <1>4, <2>1, <3>2, <3>3 DEF new
  <2>2. CASE r # m[2]
    BY <1>3, <1>11, <2>2 DEF TypeOK
  <2> QED BY <2>1, <2>2
<1> QED BY <1>7, <1>9, <1>10, <1>11

\* The new and removed entry is one entry: the loaded modules stay finitely many.
LEMMA StillFinite ==
  ASSUME FinitelyMany, NEW m \in Entry,
         \A e \in Entry : e # m => (Linked(e)' => Linked(e))
  PROVE  FinitelyMany'
<1>1. LinkedEntries' \subseteq LinkedEntries \cup {m}
  BY DEF LinkedEntries
<1>2. IsFiniteSet(LinkedEntries \cup {m})
  BY FS_AddElement DEF FinitelyMany
<1> QED BY <1>1, <1>2, FS_Subset DEF FinitelyMany

\* The invariant for the caches of one region, which is all that the steps below change.
Caches(r) ==
  /\ IF subtree_dirty[r] THEN slots[r] = Nothing ELSE Lists(r)
  /\ DOMAIN slots[r] \subseteq hooks
  /\ \A h \in DOMAIN slots[r] :
       /\ Kept(r, h) \subseteq Below(r)
       /\ ~subtree_flags[TreeRoot] => Kept(r, h) = Listeners(r, h)

CacheTypes ==
  /\ slots = [n \in Node |-> slots[n]]
  /\ subtree_dirty \in [Node -> BOOLEAN]
  /\ subtree_mods \in [Node -> Seq(Entry)]

\* Region by region, the caches are as the invariant says: before a step,
LEMMA CachesBefore ==
  IInv => CacheTypes /\ \A r \in Region : Caches(r)
  BY DEF IInv, TypeOK, CacheTypes, Caches, SubtreeLists, RegisteredOnly, NoDeadModule,
         CacheComplete

\* and after it.
LEMMA CachesAfter ==
  ASSUME CacheTypes', \A r \in Region' : Caches(r)'
  PROVE  /\ SubtreeLists' /\ RegisteredOnly' /\ NoDeadModule' /\ CacheComplete'
  BY DEF CacheTypes, Caches, SubtreeLists, RegisteredOnly, NoDeadModule, CacheComplete

\* region_mark_subtree_dirty: the marked regions have empty caches, and in the others,
\* whose modules are the same, nothing is different.  A new region has nothing.
LEMMA MarkKeeps ==
  ASSUME IInv, NEW q \in Region, region_mark_subtree_dirty(q),
         TreeRoot \in Node, Region' \subseteq Node, hooks' = hooks, subtree_flags' = subtree_flags,
         \A r \in Region \ above[q] : Below(r)' = Below(r),
         \A r \in Region' \ Region : Below(r)' = {}
  PROVE  CacheTypes' /\ \A r \in Region' : Caches(r)'
<1> USE DEF IInv
<1>1. CacheTypes'
  <2>1. <<>> \in Seq(Entry)
    OBVIOUS
  <2>2. /\ DOMAIN slots' = Node /\ slots' = [n \in Node |-> slots'[n]]
        /\ subtree_dirty' \in [Node -> BOOLEAN]
    BY DEF region_mark_subtree_dirty, region_dispatch_gen_bump, TypeOK
  <2>3. subtree_mods' \in [Node -> Seq(Entry)]
    BY <2>1 DEF region_mark_subtree_dirty, TypeOK
  <2> QED BY <2>2, <2>3 DEF CacheTypes
<1>2. ASSUME NEW r \in Region', r \in above[q]
      PROVE  Caches(r)'
  <2>1. r \in Node /\ slots'[r] = Nothing /\ subtree_dirty'[r] = TRUE
    BY <1>2 DEF region_mark_subtree_dirty, region_dispatch_gen_bump
  <2>2. DOMAIN slots'[r] = {}
    BY <2>1 DEF Nothing
  <2> QED BY <2>1, <2>2 DEF Caches, Nothing
<1>3. ASSUME NEW r \in Region', r \notin above[q], r \in Region
      PROVE  Caches(r)'
  <2>1. /\ r \in Node
        /\ slots'[r] = slots[r]
        /\ subtree_dirty'[r] = subtree_dirty[r]
        /\ subtree_mods'[r] = subtree_mods[r]
    BY <1>3 DEF region_mark_subtree_dirty, region_dispatch_gen_bump, TypeOK
  <2>2. Below(r)' = Below(r)
    BY <1>3
  <2>3. \A h \in DOMAIN slots[r] : Kept(r, h)' = Kept(r, h) /\ Listeners(r, h)' = Listeners(r, h)
    BY <2>1, <2>2 DEF Kept, Listeners
  <2>4. Caches(r)
    BY <1>3, CachesBefore
  <2>5. Lists(r) => Lists(r)'
    BY <2>1, <2>2 DEF Lists
  <2> QED BY <2>1, <2>2, <2>3, <2>4, <2>5 DEF Caches
<1>4. ASSUME NEW r \in Region', r \notin above[q], r \notin Region
      PROVE  Caches(r)'
  <2>1. /\ r \in Node \ Region
        /\ slots'[r] = Nothing
        /\ subtree_dirty'[r] = FALSE
        /\ subtree_mods'[r] = <<>>
    BY <1>4 DEF region_mark_subtree_dirty, region_dispatch_gen_bump, TypeOK, Unborn
  <2>2. DOMAIN slots'[r] = {} /\ DOMAIN subtree_mods'[r] = {}
    BY <2>1 DEF Nothing
  <2>3. Below(r)' = {}
    BY <1>4
  <2> QED BY <2>1, <2>2, <2>3 DEF Caches, Lists
<1> QED BY <1>1, <1>2, <1>3, <1>4

\* An entry is seen by the regions of its chain only.
LEMMA BelowOthers ==
  ASSUME NEW m \in Entry, above' = above,
         \A e \in Entry : e # m => (Linked(e)' <=> Linked(e))
  PROVE  \A r \in Node : r \notin above[m[2]] => Below(r)' = Below(r)
  BY DEF Below

(***************************************************************************)
(* The steps                                                               *)
(***************************************************************************)

\* The step of a load: the new entry is resolved for every registered hook.
LEMMA LoadKeeps ==
  ASSUME IInv, NEW m \in Entry, mod_load(m)
  PROVE  IInv'
<1> USE DEF IInv
<1>1. /\ m[2] \in Region /\ m[2] \in Node /\ ~Linked(m)
      /\ mods' = [mods EXCEPT ![m[2]] = Append(@, m)]
      /\ region_mark_subtree_dirty(m[2])
      /\ Region' = Region /\ above' = above /\ hooks' = hooks /\ private' = private
      /\ UNCHANGED <<denied_modules, denied_hooks, subtree_flags>>
      /\ fn_cache_prewarm({m}, hooks, fn_cache, hook_impl)
  BY DEF mod_load, Entry, Region, denyVars
<1>2. /\ \A e \in Entry : Linked(e)' <=> Linked(e) \/ e = m
      /\ mods' \in [Node -> Seq(Entry)]
      /\ \A r \in Node : \A i \in DOMAIN mods'[r] :
           /\ mods'[r][i][2] = r
           /\ \A j \in DOMAIN mods'[r] : mods'[r][i] = mods'[r][j] => i = j
  BY <1>1, AppendLinks
<1>3. CacheTypes' /\ \A r \in Region' : Caches(r)'
  <2>1. \A r \in Region \ above[m[2]] : Below(r)' = Below(r)
    BY <1>1, <1>2, BelowOthers DEF TypeOK
  <2> QED BY <1>1, <2>1, MarkKeeps DEF TypeOK
<1>4. FinitelyMany'
  BY <1>2, StillFinite
<1>5. fn_cache' \in [Entry -> [Hook -> {"null", "no", "yes"}]] /\ hook_impl' \in [Entry -> SUBSET Hook]
  BY <1>1 DEF fn_cache_prewarm, Warm, Resolve, TypeOK
<1>6. AllKnown'
  <2> SUFFICES ASSUME NEW e \in Entry, NEW h \in Hook PROVE Known(e, h)'
    BY DEF AllKnown
  <2>0. Known(e, h)
    BY DEF AllKnown
  <2>1. CASE e # m
    <3>1. /\ fn_cache'[e][h] = fn_cache[e][h]
          /\ h \in hook_impl'[e] <=> h \in hook_impl[e]
          /\ Linked(e)' <=> Linked(e)
          /\ hooks' = hooks
      BY <1>1, <1>2, <2>1 DEF fn_cache_prewarm, Warm
    <3> QED BY <2>0, <3>1 DEF Known, Resolve
  <2>2. CASE e = m
    <3>1. fn_cache[e][h] = "null" /\ h \notin hook_impl[e] /\ Linked(e)' /\ hooks' = hooks
      BY <1>1, <1>2, <2>0, <2>2 DEF Known
    <3>2. /\ fn_cache'[e][h] = IF h \in hooks THEN Resolve(e, h) ELSE "null"
          /\ h \in hook_impl'[e] <=> h \in hooks /\ Resolve(e, h) = "yes"
      BY <1>1, <2>2, <3>1 DEF fn_cache_prewarm, Warm
    <3> QED BY <3>1, <3>2 DEF Known, Resolve
  <2> QED BY <2>1, <2>2
<1>7. Unborn'
  <2> SUFFICES ASSUME NEW n \in Node, n \notin Region'
               PROVE (mods[n] = <<>> /\ slots[n] = Nothing /\ ~subtree_dirty[n] /\ subtree_mods[n] = <<>>)'
    BY DEF Unborn
  <2>1. n \notin Region /\ n # m[2] /\ n \notin above[m[2]]
    BY <1>1 DEF Chains
  <2> QED BY <1>1, <2>1 DEF Unborn, region_mark_subtree_dirty, region_dispatch_gen_bump, TypeOK
<1>8. Chains' /\ FlagsCover'
  BY <1>1 DEF Chains, FlagsCover
<1>9. TypeOK'
  <2>1. \A r \in Node : DOMAIN slots'[r] \subseteq Hook
    BY <1>1 DEF TypeOK, region_mark_subtree_dirty, region_dispatch_gen_bump, Nothing
  <2> QED BY <1>1, <1>2, <1>3, <1>5, <2>1 DEF TypeOK, CacheTypes
<1> QED BY <1>3, <1>4, <1>6, <1>7, <1>8, <1>9, CachesAfter

\* What unload and reload have in common: m is forgotten, and other entries of the same
\* image lose pointers, but not what is known of them.
LEMMA ClearKeepsKnown ==
  ASSUME IInv, NEW m \in Entry, NEW e \in Entry, NEW h \in Hook, e # m
  PROVE  LET c == module_clear_fn_cache_for_handle(m)[e][h]
         IN /\ c \in {"null", "no", "yes"}
            /\ IF Linked(e) /\ h \in hooks
               THEN /\ h \in hook_impl[e] <=> <<e[1], h>> \in Exports
                    /\ c = Resolve(e, h) \/ (c = "null" /\ h \in hook_impl[e])
               ELSE c = "null" /\ h \notin hook_impl[e]
<1> DEFINE c == module_clear_fn_cache_for_handle(m)[e][h]
<1>1. Known(e, h) /\ fn_cache[e][h] \in {"null", "no", "yes"}
  BY DEF IInv, AllKnown, TypeOK
<1>2. c = IF /\ e # m /\ Linked(e) /\ e[1] = m[1] /\ ~private[m] /\ ~private[e]
             /\ fn_cache[e][h] = "yes"
          THEN "null" ELSE fn_cache[e][h]
  BY DEF module_clear_fn_cache_for_handle
<1> HIDE DEF c
<1>3. CASE c = fn_cache[e][h]
  BY <1>1, <1>3 DEF Known, c
<1>4. CASE c # fn_cache[e][h]
  <2>1. c = "null" /\ fn_cache[e][h] = "yes" /\ Linked(e)
    BY <1>2, <1>4
  <2>2. h \in hooks /\ h \in hook_impl[e] /\ <<e[1], h>> \in Exports
    BY <1>1, <2>1 DEF Known, Resolve
  <2> QED BY <2>1, <2>2 DEF c
<1> QED BY <1>3, <1>4

\* The step of an unload: every vector that may name the entry is dropped.
LEMMA UnloadKeeps ==
  ASSUME IInv, NEW m \in Entry, mod_unload(m)
  PROVE  IInv'
<1> USE DEF IInv
<1> PICK p \in DOMAIN mods[m[2]] :
      /\ mods[m[2]][p] = m
      /\ mods' = [mods EXCEPT ![m[2]] = [j \in 1 .. Len(@) - 1 |->
                                           IF j < p THEN @[j] ELSE @[j + 1]]]
  BY DEF mod_unload
<1>1. /\ fn_cache' = [module_clear_fn_cache_for_handle(m) EXCEPT ![m] = NoCallbacks]
      /\ hook_impl' = [hook_impl EXCEPT ![m] = {}]
      /\ private' = [private EXCEPT ![m] = FALSE]
      /\ denied_modules' = [denied_modules EXCEPT ![m[2]] = @ \ {m[1]}]
      /\ region_mark_subtree_dirty(m[2])
      /\ Region' = Region /\ above' = above /\ hooks' = hooks
      /\ UNCHANGED <<denied_hooks, subtree_flags>>
  BY DEF mod_unload, module_remove_denies, Region
<1>2. /\ \A e \in Entry : Linked(e)' <=> Linked(e) /\ e # m
      /\ mods' \in [Node -> Seq(Entry)]
      /\ \A r \in Node : \A i \in DOMAIN mods'[r] :
           /\ mods'[r][i][2] = r
           /\ \A j \in DOMAIN mods'[r] : mods'[r][i] = mods'[r][j] => i = j
  BY RemoveUnlinks
<1>3. m[2] \in Region /\ m[2] \in Node
  <2>1. mods[m[2]] # <<>> /\ m[2] \in Node
    BY DEF TypeOK, Entry
  <2> QED BY <2>1 DEF Unborn
<1>4. denied_modules' \in [Node -> SUBSET So] /\ \A n \in Node : denied_modules'[n] \subseteq denied_modules[n]
  BY <1>1, <1>3 DEF TypeOK
<1>5. CacheTypes' /\ \A r \in Region' : Caches(r)'
  <2>1. \A r \in Region \ above[m[2]] : Below(r)' = Below(r)
    BY <1>1, <1>2, BelowOthers DEF TypeOK
  <2> QED BY <1>1, <1>3, <2>1, MarkKeeps DEF TypeOK
<1>6. FinitelyMany'
  BY <1>2, StillFinite
<1>7. /\ fn_cache' \in [Entry -> [Hook -> {"null", "no", "yes"}]]
      /\ hook_impl' \in [Entry -> SUBSET Hook]
      /\ private' \in [Entry -> BOOLEAN]
  BY <1>1 DEF module_clear_fn_cache_for_handle, NoCallbacks, TypeOK
<1>8. AllKnown'
  <2> SUFFICES ASSUME NEW e \in Entry, NEW h \in Hook PROVE Known(e, h)'
    BY DEF AllKnown
  <2>1. CASE e # m
    <3>1. fn_cache'[e][h] = module_clear_fn_cache_for_handle(m)[e][h] /\ hook_impl'[e] = hook_impl[e]
      BY <1>1, <2>1 DEF module_clear_fn_cache_for_handle, TypeOK
    <3> QED BY <1>1, <1>2, <2>1, <3>1, ClearKeepsKnown DEF Known, Resolve
  <2>2. CASE e = m
    <3>1. fn_cache'[e][h] = "null" /\ hook_impl'[e] = {}
      BY <1>1, <2>2 DEF module_clear_fn_cache_for_handle, NoCallbacks, TypeOK
    <3> QED BY <1>2, <2>2, <3>1 DEF Known
  <2> QED BY <2>1, <2>2
<1>9. Unborn'
  <2> SUFFICES ASSUME NEW n \in Node, n \notin Region'
               PROVE (mods[n] = <<>> /\ slots[n] = Nothing /\ ~subtree_dirty[n] /\ subtree_mods[n] = <<>>)'
    BY DEF Unborn
  <2>1. n \notin Region /\ n # m[2] /\ n \notin above[m[2]]
    BY <1>1, <1>3 DEF Chains
  <2> QED BY <1>1, <1>3, <2>1 DEF Unborn, region_mark_subtree_dirty, region_dispatch_gen_bump, TypeOK
<1>10. Chains' /\ FlagsCover'
  BY <1>1, <1>4 DEF Chains, FlagsCover
<1>11. TypeOK'
  <2>1. \A r \in Node : DOMAIN slots'[r] \subseteq Hook
    BY <1>1 DEF TypeOK, region_mark_subtree_dirty, region_dispatch_gen_bump, Nothing
  <2> QED BY <1>1, <1>2, <1>4, <1>5, <1>7, <2>1 DEF TypeOK, CacheTypes
<1> QED BY <1>5, <1>6, <1>8, <1>9, <1>10, <1>11, CachesAfter

\* The step of a reload: the entry is resolved anew.
LEMMA ReloadKeeps ==
  ASSUME IInv, NEW m \in Entry, xy_reload(m)
  PROVE  IInv'
<1> USE DEF IInv
<1> DEFINE fn == [module_clear_fn_cache_for_handle(m) EXCEPT ![m] = NoCallbacks]
           impl == [hook_impl EXCEPT ![m] = {}]
<1>1. /\ Linked(m)
      /\ fn_cache_prewarm({m}, hooks, fn, impl)
      /\ private' = [private EXCEPT ![m] = TRUE]
      /\ denied_modules' = [denied_modules EXCEPT ![m[2]] = @ \ {m[1]}]
      /\ region_mark_subtree_dirty(m[2])
      /\ Region' = Region /\ above' = above /\ hooks' = hooks /\ mods' = mods
      /\ UNCHANGED <<denied_hooks, subtree_flags>>
  BY DEF xy_reload, module_remove_denies, Region
<1>2. \A e \in Entry : Linked(e)' <=> Linked(e)
  BY <1>1, SameLinked
<1>3. m[2] \in Region /\ m[2] \in Node
  <2>1. mods[m[2]] # <<>> /\ m[2] \in Node
    BY <1>1 DEF TypeOK, Entry, Linked
  <2> QED BY <2>1 DEF Unborn
<1>4. denied_modules' \in [Node -> SUBSET So] /\ \A n \in Node : denied_modules'[n] \subseteq denied_modules[n]
  BY <1>1, <1>3 DEF TypeOK
<1>5. CacheTypes' /\ \A r \in Region' : Caches(r)'
  <2>1. \A r \in Region \ above[m[2]] : Below(r)' = Below(r)
    BY <1>1, <1>2, BelowOthers DEF TypeOK
  <2> QED BY <1>1, <1>3, <2>1, MarkKeeps DEF TypeOK
<1>6. FinitelyMany'
  BY <1>2, StillFinite
<1>7. fn \in [Entry -> [Hook -> {"null", "no", "yes"}]] /\ impl \in [Entry -> SUBSET Hook]
  BY DEF module_clear_fn_cache_for_handle, NoCallbacks, TypeOK
<1>8. \A h \in Hook : fn[m][h] = "null" /\ impl[m] = {}
  BY DEF module_clear_fn_cache_for_handle, NoCallbacks, TypeOK
<1>9. \A e \in Entry : e # m => fn[e] = module_clear_fn_cache_for_handle(m)[e] /\ impl[e] = hook_impl[e]
  BY DEF module_clear_fn_cache_for_handle, TypeOK
<1> HIDE DEF fn, impl
<1>10. /\ fn_cache' \in [Entry -> [Hook -> {"null", "no", "yes"}]]
       /\ hook_impl' \in [Entry -> SUBSET Hook]
       /\ private' \in [Entry -> BOOLEAN]
  <2>1. fn_cache' \in [Entry -> [Hook -> {"null", "no", "yes"}]]
    BY <1>1, <1>7 DEF fn_cache_prewarm, Warm, Resolve
  <2>2. hook_impl' \in [Entry -> SUBSET Hook]
    BY <1>1, <1>7 DEF fn_cache_prewarm, TypeOK
  <2>3. private' \in [Entry -> BOOLEAN]
    BY <1>1 DEF TypeOK
  <2> QED BY <2>1, <2>2, <2>3
<1>11. AllKnown'
  <2> SUFFICES ASSUME NEW e \in Entry, NEW h \in Hook PROVE Known(e, h)'
    BY DEF AllKnown
  <2>1. CASE e # m
    <3>1. fn_cache'[e][h] = fn[e][h] /\ (h \in hook_impl'[e] <=> h \in impl[e])
      BY <1>1, <2>1 DEF fn_cache_prewarm, Warm
    <3> QED BY <1>1, <1>2, <1>9, <2>1, <3>1, ClearKeepsKnown DEF Known, Resolve
  <2>2. CASE e = m
    <3>1. /\ fn_cache'[e][h] = IF h \in hooks THEN Resolve(e, h) ELSE "null"
          /\ h \in hook_impl'[e] <=> h \in hooks /\ Resolve(e, h) = "yes"
      BY <1>1, <1>8, <2>2 DEF fn_cache_prewarm, Warm
    <3> QED BY <1>1, <1>2, <2>2, <3>1 DEF Known, Resolve
  <2> QED BY <2>1, <2>2
<1>12. Unborn'
  <2> SUFFICES ASSUME NEW n \in Node, n \notin Region'
               PROVE (mods[n] = <<>> /\ slots[n] = Nothing /\ ~subtree_dirty[n] /\ subtree_mods[n] = <<>>)'
    BY DEF Unborn
  <2>1. n \notin Region /\ n \notin above[m[2]]
    BY <1>1, <1>3 DEF Chains
  <2> QED BY <1>1, <2>1 DEF Unborn, region_mark_subtree_dirty, region_dispatch_gen_bump, TypeOK
<1>13. Chains' /\ FlagsCover'
  BY <1>1, <1>4 DEF Chains, FlagsCover
<1>14. TypeOK'
  <2>1. \A r \in Node : DOMAIN slots'[r] \subseteq Hook
    BY <1>1 DEF TypeOK, region_mark_subtree_dirty, region_dispatch_gen_bump, Nothing
  <2> QED BY <1>1, <1>4, <1>5, <1>10, <2>1 DEF TypeOK, CacheTypes
<1> QED BY <1>5, <1>6, <1>11, <1>12, <1>13, <1>14, CachesAfter

\* The step of a registration: no vector changes, and every loaded module is asked.
LEMMA AregKeeps ==
  ASSUME IInv, NEW k \in Hook, xy_areg(k)
  PROVE  IInv'
<1> USE DEF IInv
<1>1. /\ k \notin hooks /\ hooks' = hooks \cup {k}
      /\ fn_cache_prewarm(LinkedEntries, hooks \cup {k}, fn_cache, hook_impl)
      /\ Region' = Region /\ above' = above /\ mods' = mods /\ private' = private
      /\ UNCHANGED <<denied_modules, denied_hooks, subtree_flags>>
      /\ UNCHANGED <<subtree_dirty, subtree_mods, slots>>
  BY DEF xy_areg, LinkedEntries, Region, cacheVars, denyVars
<1>2. \A e \in Entry : Linked(e)' <=> Linked(e)
  BY <1>1, SameLinked
<1>3. \A r \in Region : Below(r)' = Below(r)
  BY <1>1, <1>2 DEF Below
<1>4. CacheTypes' /\ \A r \in Region' : Caches(r)'
  <2>1. CacheTypes'
    BY <1>1, CachesBefore DEF CacheTypes
  <2>2. ASSUME NEW r \in Region PROVE Caches(r)'
    <3>1. Lists(r) => Lists(r)'
      BY <1>1, <1>3 DEF Lists
    <3>2. \A h \in DOMAIN slots[r] : Kept(r, h)' = Kept(r, h) /\ Listeners(r, h)' = Listeners(r, h)
      BY <1>1, <1>3 DEF Kept, Listeners
    <3> QED BY <1>1, <1>3, <3>1, <3>2, CachesBefore DEF Caches
  <2> QED BY <1>1, <2>1, <2>2
<1>5. fn_cache' \in [Entry -> [Hook -> {"null", "no", "yes"}]] /\ hook_impl' \in [Entry -> SUBSET Hook]
  <2>1. fn_cache' \in [Entry -> [Hook -> {"null", "no", "yes"}]]
    BY <1>1 DEF fn_cache_prewarm, Warm, Resolve, TypeOK
  <2>2. hook_impl' \in [Entry -> SUBSET Hook]
    BY <1>1 DEF fn_cache_prewarm, TypeOK
  <2> QED BY <2>1, <2>2
<1>6. AllKnown'
  <2> SUFFICES ASSUME NEW e \in Entry, NEW h \in Hook PROVE Known(e, h)'
    BY DEF AllKnown
  <2>0. Known(e, h) /\ fn_cache[e][h] \in {"null", "no", "yes"}
    BY DEF AllKnown, TypeOK
  <2>1. /\ fn_cache'[e][h] = IF Linked(e) /\ h \in hooks \cup {k} /\ fn_cache[e][h] = "null"
                             THEN Resolve(e, h) ELSE fn_cache[e][h]
        /\ h \in hook_impl'[e] <=> \/ h \in hook_impl[e]
                                   \/ /\ Linked(e) /\ h \in hooks \cup {k}
                                      /\ fn_cache[e][h] = "null" /\ Resolve(e, h) = "yes"
    BY <1>1 DEF fn_cache_prewarm, Warm, LinkedEntries
  <2>2. CASE Linked(e) /\ h \in hooks \cup {k}
    BY <1>1, <1>2, <2>0, <2>1, <2>2 DEF Known, Resolve
  <2>3. CASE ~(Linked(e) /\ h \in hooks \cup {k})
    BY <1>1, <1>2, <2>0, <2>1, <2>3 DEF Known
  <2> QED BY <2>2, <2>3
<1>7. Unborn' /\ Chains' /\ FlagsCover'
  BY <1>1 DEF Unborn, Chains, FlagsCover
<1>8. FinitelyMany'
  BY <1>2 DEF FinitelyMany, LinkedEntries
<1>9. TypeOK'
  BY <1>1, <1>5 DEF TypeOK
<1> QED BY <1>4, <1>6, <1>7, <1>8, <1>9, CachesAfter

\* The step of a deny: the vectors of the region and above go, the subtree vectors stay.
LEMMA DenyKeeps ==
  ASSUME IInv, NEW q \in Node, NEW type \in DenyTypes,
         NEW what \in IF type = "hook" THEN Hook ELSE So, xy_deny(q, type, what)
  PROVE  IInv'
<1> USE DEF IInv
<1>1. /\ q \in Region
      /\ denied_modules' = [denied_modules EXCEPT ![q] = IF type = "module" THEN @ \cup {what} ELSE @]
      /\ denied_hooks' = [denied_hooks EXCEPT ![q] = IF type = "hook" THEN @ \cup {what} ELSE @]
      /\ subtree_flags' = [n \in Node |-> n \in above[q] \/ subtree_flags[n]]
      /\ slots' = [n \in Node |-> IF n \in above[q] THEN Nothing ELSE slots[n]]
      /\ Region' = Region /\ above' = above /\ mods' = mods /\ hooks' = hooks
      /\ UNCHANGED <<subtree_dirty, subtree_mods, fn_cache, hook_impl, private>>
  BY DEF xy_deny, region_dispatch_gen_bump, Region, fnVars
<1>2. \A e \in Entry : Linked(e)' <=> Linked(e)
  BY <1>1, SameLinked
<1>3. \A r \in Region : Below(r)' = Below(r)
  BY <1>1, <1>2 DEF Below
<1>4. /\ denied_modules' \in [Node -> SUBSET So]
      /\ denied_hooks' \in [Node -> SUBSET Hook]
  <2>1. type \in {"hook", "module"}
    BY DenyAssumption
  <2>2. (type = "hook" => what \in Hook) /\ (type = "module" => what \in So)
    BY <2>1
  <2> QED BY <1>1, <2>1, <2>2 DEF TypeOK
<1>5. subtree_flags' \in [Node -> BOOLEAN] /\ subtree_flags'[TreeRoot]
  BY <1>1, TreeAssumption DEF TypeOK, Chains
<1>6. CacheTypes' /\ \A r \in Region' : Caches(r)'
  <2>1. CacheTypes'
    <3>1. slots' = [n \in Node |-> slots'[n]]
      BY <1>1
    <3> QED BY <1>1, <3>1, CachesBefore DEF CacheTypes
  <2>2. ASSUME NEW r \in Region PROVE Caches(r)'
    <3>0. r \in Node
      BY DEF TypeOK
    <3>1. Lists(r) => Lists(r)'
      BY <1>1, <1>3 DEF Lists
    <3>2. CASE r \in above[q]
      <4>1. slots'[r] = Nothing /\ DOMAIN slots'[r] = {}
        BY <1>1, <3>0, <3>2 DEF Nothing
      <4> QED BY <1>1, <3>1, <4>1, CachesBefore DEF Caches
    <3>3. CASE r \notin above[q]
      <4>1. slots'[r] = slots[r]
        BY <1>1, <3>0, <3>3
      <4>2. \A h \in DOMAIN slots[r] : Kept(r, h)' = Kept(r, h)
        BY <4>1 DEF Kept
      <4> QED BY <1>1, <1>3, <1>5, <3>1, <4>1, <4>2, CachesBefore DEF Caches
    <3> QED BY <3>2, <3>3
  <2> QED BY <1>1, <2>1, <2>2
<1>7. AllKnown'
  <2> SUFFICES ASSUME NEW e \in Entry, NEW h \in Hook PROVE Known(e, h)'
    BY DEF AllKnown
  <2> QED BY <1>1, <1>2 DEF AllKnown, Known, Resolve
<1>8. Unborn' /\ Chains' /\ FlagsCover'
  <2>1. Chains' /\ FlagsCover'
    BY <1>1, <1>5 DEF Chains, FlagsCover
  <2>2. Unborn'
    BY <1>1 DEF Unborn, Chains
  <2> QED BY <2>1, <2>2
<1>9. FinitelyMany'
  BY <1>2 DEF FinitelyMany, LinkedEntries
<1>10. TypeOK'
  <2>1. \A r \in Node : DOMAIN slots'[r] \subseteq Hook
    BY <1>1 DEF TypeOK, Nothing
  <2> QED BY <1>1, <1>4, <1>5, <2>1 DEF TypeOK
<1> QED BY <1>6, <1>7, <1>8, <1>9, <1>10, CachesAfter

\* The step that creates a region: it has no modules, and nobody above sees a new one.
LEMMA NewRegionKeeps ==
  ASSUME IInv, NEW c \in Node, NEW p \in Node, NewRegion(c, p)
  PROVE  IInv'
<1> USE DEF IInv
<1>1. /\ p \in Region /\ c \in Node \ Region
      /\ Region' = Region \cup {c}
      /\ above' = [above EXCEPT ![c] = above[p] \cup {c}]
      /\ region_mark_subtree_dirty(p)
      /\ mods' = mods /\ hooks' = hooks
      /\ UNCHANGED <<denied_modules, denied_hooks, subtree_flags, fn_cache, hook_impl, private>>
  BY DEF NewRegion, Grow, Region, denyVars, fnVars
<1>2. \A e \in Entry : Linked(e)' <=> Linked(e)
  BY <1>1, SameLinked
<1>3. \A e \in Entry : Linked(e) => e[2] \in Region
  BY DEF Linked, Unborn, Entry
<1>4. \A r \in Region : Below(r)' = Below(r)
  BY <1>1, <1>2, <1>3 DEF Below, TypeOK, Entry
<1>5. Below(c)' = {}
  BY <1>1, <1>2, <1>3 DEF Below, TypeOK, Entry, Chains
<1>6. CacheTypes' /\ \A r \in Region' : Caches(r)'
  <2>1. Region \subseteq Node /\ Region' \subseteq Node
    BY <1>1 DEF TypeOK
  <2>2. \A r \in Region' \ Region : Below(r)' = {}
    BY <1>1, <1>5
  <2> QED BY <1>1, <1>4, <2>1, <2>2, MarkKeeps, TreeAssumption
<1>7. AllKnown'
  <2> SUFFICES ASSUME NEW e \in Entry, NEW h \in Hook PROVE Known(e, h)'
    BY DEF AllKnown
  <2> QED BY <1>1, <1>2 DEF AllKnown, Known, Resolve
<1>8. Chains'
  BY <1>1 DEF Chains, TypeOK
<1>9. Unborn'
  <2> SUFFICES ASSUME NEW n \in Node, n \notin Region'
               PROVE (mods[n] = <<>> /\ slots[n] = Nothing /\ ~subtree_dirty[n] /\ subtree_mods[n] = <<>>)'
    BY DEF Unborn
  <2>1. n \notin Region /\ n \notin above[p]
    BY <1>1 DEF Chains
  <2> QED BY <1>1, <2>1 DEF Unborn, region_mark_subtree_dirty, region_dispatch_gen_bump, TypeOK
<1>10. FlagsCover'
  BY <1>1 DEF FlagsCover
<1>11. FinitelyMany'
  BY <1>2 DEF FinitelyMany, LinkedEntries
<1>12. TypeOK'
  <2>1. \A r \in Node : DOMAIN slots'[r] \subseteq Hook
    BY <1>1 DEF TypeOK, region_mark_subtree_dirty, region_dispatch_gen_bump, Nothing
  <2>2. above' \in [Node -> SUBSET Node]
    BY <1>1 DEF TypeOK
  <2> QED BY <1>1, <1>6, <2>1, <2>2 DEF TypeOK, CacheTypes
<1> QED BY <1>6, <1>7, <1>8, <1>9, <1>10, <1>11, <1>12, CachesAfter

\* What a rebuild of the subtree vector yields, or the vector that is there: the modules
\* below the region.
LEMMA VectorLists ==
  ASSUME IInv, NEW r \in Region,
         NEW s \in IF subtree_dirty[r] THEN region_rebuild_subtree_mods(r) ELSE {subtree_mods[r]}
  PROVE  /\ s \in Seq(Entry)
         /\ \A m \in Entry : m \in Below(r) <=> \E i \in DOMAIN s : s[i] = m
<1>0. r \in Node
  BY DEF IInv, TypeOK
<1>1. CASE subtree_dirty[r]
  <2> DEFINE n == Cardinality(Below(r))
  <2>1. n \in Nat
    <3>1. Below(r) \subseteq LinkedEntries
      BY DEF Below, LinkedEntries
    <3> QED BY <3>1, FS_Subset, FS_CardinalityType DEF IInv, FinitelyMany
  <2>2. s \in [1 .. n -> Below(r)] /\ \A m \in Below(r) : \E i \in 1 .. n : s[i] = m
    BY <1>1 DEF region_rebuild_subtree_mods
  <2>3. Below(r) \subseteq Entry
    BY DEF Below
  <2> HIDE DEF n
  <2>4. s \in [1 .. n -> Entry]
    BY <2>2, <2>3
  <2>5. s \in Seq(Entry)
    BY <2>1, <2>4
  <2>6. DOMAIN s = 1 .. n /\ \A i \in 1 .. n : s[i] \in Below(r)
    BY <2>2
  <2> QED BY <2>2, <2>5, <2>6
<1>2. CASE ~subtree_dirty[r]
  <2>1. s = subtree_mods[r]
    BY <1>2
  <2>2. subtree_mods[r] \in Seq(Entry)
    BY <1>0 DEF IInv, TypeOK
  <2>3. Lists(r)
    BY <1>2 DEF IInv, SubtreeLists
  <2> QED BY <2>1, <2>2, <2>3 DEF Lists
<1> QED BY <1>1, <1>2

\* The step of a call: the new vector is built from the modules below and their bits.
LEMMA CallKeeps ==
  ASSUME IInv, NEW r \in Node, NEW h \in Hook, xy_call(r, h)
  PROVE  IInv'
<1> USE DEF IInv
<1> PICK s \in IF subtree_dirty[r] THEN region_rebuild_subtree_mods(r) ELSE {subtree_mods[r]} :
      /\ subtree_mods' = [subtree_mods EXCEPT ![r] = s]
      /\ slots' = [slots EXCEPT ![r] =
                     [k \in DOMAIN @ \cup {h} |-> IF k \in DOMAIN @ THEN @[k]
                                                  ELSE region_rebuild_hook_dispatch(r, h, s)]]
  BY DEF xy_call
<1>1. /\ r \in Region /\ h \in hooks
      /\ subtree_dirty' = [subtree_dirty EXCEPT ![r] = FALSE]
      /\ Region' = Region /\ above' = above /\ mods' = mods /\ hooks' = hooks
      /\ UNCHANGED <<denied_modules, denied_hooks, subtree_flags, fn_cache, hook_impl, private>>
  BY DEF xy_call, Region, denyVars, fnVars
<1>2. \A e \in Entry : Linked(e)' <=> Linked(e)
  BY <1>1, SameLinked
<1>3. \A q \in Region : Below(q)' = Below(q)
  BY <1>1, <1>2 DEF Below
<1>4. /\ s \in Seq(Entry)
      /\ \A m \in Entry : m \in Below(r) <=> \E i \in DOMAIN s : s[i] = m
  BY <1>1, VectorLists
<1> DEFINE new == region_rebuild_hook_dispatch(r, h, s)
<1>5. DOMAIN new = {m \in Below(r) : ~module_denied_by_ancestors(r, m) /\ h \in hook_impl[m]}
  BY <1>4 DEF region_rebuild_hook_dispatch, Below
<1>6. /\ DOMAIN new \subseteq Below(r)
      /\ ~subtree_flags[TreeRoot] => DOMAIN new = Listeners(r, h)
  <2>1. \A m \in Below(r) : h \in hook_impl[m] <=> <<m[1], h>> \in Exports
    BY <1>1 DEF Below, AllKnown, Known
  <2>2. ~subtree_flags[TreeRoot] => \A m \in Below(r) : ~module_denied_by_ancestors(r, m)
    BY <1>1 DEF FlagsCover, module_denied_by_ancestors, Chains, TypeOK
  <2> QED BY <1>5, <2>1, <2>2 DEF Listeners
<1> HIDE DEF new
<1>7. /\ DOMAIN slots'[r] = DOMAIN slots[r] \cup {h}
      /\ \A k \in DOMAIN slots[r] : slots'[r][k] = slots[r][k]
      /\ h \notin DOMAIN slots[r] => slots'[r][h] = new
      /\ \A q \in Node : q # r => slots'[q] = slots[q]
      /\ slots' = [n \in Node |-> slots'[n]]
  BY CachesBefore DEF CacheTypes, new
<1>8. CacheTypes' /\ \A q \in Region' : Caches(q)'
  <2>1. CacheTypes'
    BY <1>1, <1>4, <1>7 DEF CacheTypes, TypeOK
  <2>2. Caches(r)'
    <3>1. /\ subtree_dirty'[r] = FALSE /\ subtree_mods'[r] = s
      BY <1>1 DEF TypeOK
    <3>2. Lists(r)'
      BY <1>1, <1>3, <1>4, <3>1 DEF Lists
    <3>3. Caches(r)
      BY <1>1, CachesBefore
    <3>4. \A k \in Hook : Listeners(r, k)' = Listeners(r, k)
      BY <1>1, <1>3 DEF Listeners
    <3>5. ASSUME NEW k \in DOMAIN slots'[r]
          PROVE  /\ Kept(r, k)' \subseteq Below(r)
                 /\ ~subtree_flags[TreeRoot] => Kept(r, k)' = Listeners(r, k)
      BY <1>6, <1>7, <3>3, <3>5 DEF Kept, Caches
    <3>6. DOMAIN slots'[r] \subseteq hooks /\ hooks \subseteq Hook
      BY <1>1, <1>7, <3>3 DEF Caches, TypeOK
    <3> QED BY <1>1, <1>3, <3>1, <3>2, <3>4, <3>5, <3>6 DEF Caches
  <2>3. ASSUME NEW q \in Region, q # r PROVE Caches(q)'
    <3>1. /\ q \in Node /\ slots'[q] = slots[q]
          /\ subtree_dirty'[q] = subtree_dirty[q] /\ subtree_mods'[q] = subtree_mods[q]
      BY <1>1, <1>7, <2>3 DEF TypeOK
    <3>2. Lists(q) => Lists(q)'
      BY <1>1, <1>3, <3>1 DEF Lists
    <3>3. \A k \in DOMAIN slots[q] : Kept(q, k)' = Kept(q, k) /\ Listeners(q, k)' = Listeners(q, k)
      BY <1>3, <3>1 DEF Kept, Listeners
    <3>4. Caches(q) /\ Below(q)' = Below(q)
      BY <1>3, CachesBefore
    <3>5. subtree_flags' = subtree_flags /\ hooks' = hooks
      BY <1>1
    <3> QED BY <3>1, <3>2, <3>3, <3>4, <3>5 DEF Caches
  <2> QED BY <1>1, <2>1, <2>2, <2>3
<1>9. AllKnown'
  <2> SUFFICES ASSUME NEW e \in Entry, NEW k \in Hook PROVE Known(e, k)'
    BY DEF AllKnown
  <2> QED BY <1>1, <1>2 DEF AllKnown, Known, Resolve
<1>10. Chains' /\ FlagsCover'
  BY <1>1 DEF Chains, FlagsCover
<1>11. Unborn'
  BY <1>1, <1>7 DEF Unborn, TypeOK
<1>12. FinitelyMany'
  BY <1>2 DEF FinitelyMany, LinkedEntries
<1>13. TypeOK'
  <2>1. \A q \in Node : DOMAIN slots'[q] \subseteq Hook
    BY <1>7 DEF TypeOK
  <2> QED BY <1>1, <1>8, <2>1 DEF TypeOK, CacheTypes
<1> QED BY <1>8, <1>9, <1>10, <1>11, <1>12, <1>13, CachesAfter

\* In the beginning there is the root, with nothing in it.
LEMMA Start == Init => IInv
<1> SUFFICES ASSUME Init PROVE IInv
  OBVIOUS
<1> USE DEF Init, TreeInit
<1>1. Region = {TreeRoot} /\ TreeRoot \in Node
  BY TreeAssumption DEF Region
<1>2. \A m \in Entry : ~Linked(m)
  BY DEF Linked, Entry
<1>3. TypeOK
  <2>1. <<>> \in Seq(Entry)
    OBVIOUS
  <2>2. fn_cache \in [Entry -> [Hook -> {"null", "no", "yes"}]]
    BY DEF NoCallbacks
  <2> QED BY <1>1, <2>1, <2>2 DEF TypeOK, Nothing
<1>4. FinitelyMany
  <2>1. LinkedEntries = {}
    BY <1>2 DEF LinkedEntries
  <2> QED BY <2>1, FS_EmptySet DEF FinitelyMany
<1>5. Chains /\ Unborn
  BY <1>1 DEF Chains, Unborn
<1>6. AllKnown
  BY <1>2 DEF AllKnown, Known, NoCallbacks
<1>7. FlagsCover
  BY DEF FlagsCover
<1>8. \A r \in Region : Below(r) = {} /\ DOMAIN slots[r] = {} /\ DOMAIN subtree_mods[r] = {}
  <2>1. \A r \in Region : Below(r) = {}
    BY <1>2 DEF Below
  <2>2. slots[TreeRoot] = Nothing /\ subtree_mods[TreeRoot] = <<>>
    BY <1>1
  <2>3. DOMAIN Nothing = {}
    BY DEF Nothing
  <2> QED BY <1>1, <2>1, <2>2, <2>3
<1>9. SubtreeLists
  BY <1>1, <1>8 DEF SubtreeLists, Lists
<1> QED BY <1>3, <1>4, <1>5, <1>6, <1>7, <1>8, <1>9
        DEF IInv, RegisteredOnly, NoDeadModule, CacheComplete

\* Every step keeps the invariant.
LEMMA Step == IInv /\ [Next]_vars => IInv'
<1> SUFFICES ASSUME IInv, [Next]_vars PROVE IInv'
  OBVIOUS
<1>1. CASE \E c, p \in Node : NewRegion(c, p)
  BY <1>1, NewRegionKeeps
<1>2. CASE \E m \in Entry : mod_load(m)
  BY <1>2, LoadKeeps
<1>3. CASE \E m \in Entry : mod_unload(m)
  BY <1>3, UnloadKeeps
<1>4. CASE \E m \in Entry : xy_reload(m)
  BY <1>4, ReloadKeeps
<1>5. CASE \E r \in Node, type \in DenyTypes :
             \E what \in IF type = "hook" THEN Hook ELSE So : xy_deny(r, type, what)
  BY <1>5, DenyKeeps
<1>6. CASE \E h \in Hook : xy_areg(h)
  BY <1>6, AregKeeps
<1>7. CASE \E r \in Node, h \in Hook : xy_call(r, h)
  BY <1>7, CallKeeps
<1>8. CASE UNCHANGED vars
  <2>1. /\ Region' = Region /\ above' = above /\ mods' = mods /\ hooks' = hooks
        /\ subtree_dirty' = subtree_dirty /\ subtree_mods' = subtree_mods /\ slots' = slots
        /\ denied_modules' = denied_modules /\ denied_hooks' = denied_hooks
        /\ subtree_flags' = subtree_flags
        /\ fn_cache' = fn_cache /\ hook_impl' = hook_impl /\ private' = private
    BY <1>8 DEF vars, cacheVars, denyVars, fnVars, Region
  <2>2. \A e \in Entry : Linked(e)' <=> Linked(e)
    BY <2>1, SameLinked
  <2>3. \A r \in Region : Below(r)' = Below(r)
    BY <2>1, <2>2 DEF Below
  <2>4. TypeOK' /\ Chains' /\ Unborn' /\ FlagsCover' /\ RegisteredOnly'
    <3>1. TypeOK'
      BY <2>1 DEF IInv, TypeOK
    <3>2. Chains' /\ Unborn'
      BY <2>1 DEF IInv, Chains, Unborn
    <3>3. FlagsCover' /\ RegisteredOnly'
      BY <2>1 DEF IInv, FlagsCover, RegisteredOnly
    <3> QED BY <3>1, <3>2, <3>3
  <2>5. FinitelyMany' /\ SubtreeLists'
    <3>1. FinitelyMany'
      BY <2>1, <2>2 DEF IInv, FinitelyMany, LinkedEntries
    <3>2. SubtreeLists'
      BY <2>1, <2>3 DEF IInv, SubtreeLists, Lists
    <3> QED BY <3>1, <3>2
  <2>6. AllKnown'
    BY <2>1, <2>2 DEF IInv, AllKnown, Known, Resolve
  <2>7. NoDeadModule' /\ CacheComplete'
    <3>1. \A r \in Region, h \in Hook : Listeners(r, h)' = Listeners(r, h)
      BY <2>3 DEF Listeners
    <3>2. \A r \in Region : DOMAIN slots[r] \subseteq Hook
      BY DEF IInv, TypeOK
    <3>3. NoDeadModule'
      BY <2>1, <2>3 DEF IInv, NoDeadModule, Kept
    <3>4. CacheComplete'
      BY <2>1, <3>1, <3>2 DEF IInv, CacheComplete, Kept
    <3> QED BY <3>3, <3>4
  <2> QED BY <2>4, <2>5, <2>6, <2>7 DEF IInv
<1> QED BY <1>1, <1>2, <1>3, <1>4, <1>5, <1>6, <1>7, <1>8 DEF Next

\* The invariant holds throughout.
LEMMA Invariance == Spec => []IInv
<1> QED BY Start, Step, PTL DEF Spec

(***************************************************************************)
(* The order of the walk                                                   *)
(***************************************************************************)

\* The tree of regions: the children lists and the chains belong together.
ChildOK(p, i) ==
  LET c == kids[p][i]
  IN /\ c \in Region /\ parent[c] = p
     /\ c \notin above[p] /\ above[c] = above[p] \cup {c}
     /\ \A j \in DOMAIN kids[p] : kids[p][j] = c => j = i
ChainOK(z) ==
  /\ \A u \in above[z] : above[u] \subseteq above[z]
  /\ \A u, v \in above[z] : u \in above[v] \/ v \in above[u]
  /\ \A u \in above[z] : z \in above[u] => u = z
  /\ \A u \in above[z] : u # z => \E i \in DOMAIN kids[u] : kids[u][i] \in above[z]
Shape ==
  /\ IsFiniteSet(Region)
  /\ \A p \in Region : kids[p] \in Seq(Node) /\ \A i \in DOMAIN kids[p] : ChildOK(p, i)
  /\ \A z \in Region : ChainOK(z)

\* A vector that is not dirty is in the order of the walk.
InOrder(s) == \A i, j \in DOMAIN s : i < j => Before(s[i], s[j])
Orders == \A r \in Region : ~subtree_dirty[r] => InOrder(subtree_mods[r])

\* What the invariant says of the loaded modules and of the chains.
LEMMA DispatchFacts ==
  ASSUME IInv
  PROVE  /\ Region \subseteq Node /\ TreeRoot \in Region
         /\ \A r \in Region : r \in above[r] /\ above[r] \subseteq Region
         /\ \A e \in Entry : Linked(e) => e[2] \in Region
         /\ \A r \in Region : \A i \in DOMAIN subtree_mods[r] :
              ~subtree_dirty[r] => subtree_mods[r][i] \in Below(r)
<1>1. Region \subseteq Node /\ TreeRoot \in Region
  BY DEF IInv, TypeOK
<1>2. \A r \in Region : r \in above[r] /\ above[r] \subseteq Region
  BY <1>1 DEF IInv, Chains
<1>3. \A e \in Entry : Linked(e) => e[2] \in Region
  BY DEF IInv, Linked, Unborn, Entry
<1>4. ASSUME NEW r \in Region, NEW i \in DOMAIN subtree_mods[r], ~subtree_dirty[r]
      PROVE  subtree_mods[r][i] \in Below(r)
  <2>1. subtree_mods[r] \in Seq(Entry)
    BY <1>1 DEF IInv, TypeOK
  <2>2. subtree_mods[r][i] \in Entry
    BY <2>1
  <2> QED BY <1>4, <2>2 DEF IInv, SubtreeLists, Lists
<1> QED BY <1>1, <1>2, <1>3, <1>4

\* What a new region changes in the tree.
LEMMA GrowFacts ==
  ASSUME IInv, Shape, NEW c \in Node, NEW p \in Node, NewRegion(c, p)
  PROVE  /\ p \in Region /\ c \notin Region /\ Region' = Region \cup {c}
         /\ above'[c] = above[p] \cup {c}
         /\ \A n \in Region : above'[n] = above[n] /\ c \notin above[n]
         /\ parent'[c] = p /\ \A n \in Region : parent'[n] = parent[n]
         /\ kids'[c] = <<>> /\ kids'[p] = <<c>> \o kids[p]
         /\ \A n \in Region : n # p => kids'[n] = kids[n]
         /\ \A n \in Region : kids[n] \in Seq(Node)
<1>1. /\ p \in Region /\ c \notin Region /\ Region' = Region \cup {c}
      /\ above' = [above EXCEPT ![c] = above[p] \cup {c}]
      /\ parent' = [n \in Region \cup {c} |-> IF n = c THEN p ELSE parent[n]]
      /\ kids' = [n \in Region \cup {c} |->
                   IF n = c THEN <<>> ELSE IF n = p THEN <<c>> \o kids[p] ELSE kids[n]]
  BY DEF NewRegion, Grow, Region
<1>2. /\ above \in [Node -> SUBSET Node] /\ Region \subseteq Node
      /\ \A n \in Region : above[n] \subseteq Region
  BY DispatchFacts DEF IInv, TypeOK
<1> QED BY <1>1, <1>2 DEF Shape

\* A region in front of its siblings leaves the shape of the tree as it must be.
LEMMA GrowKeepsShape ==
  ASSUME IInv, Shape, NEW c \in Node, NEW p \in Node, NewRegion(c, p)
  PROVE  Shape'
<1>1. /\ p \in Region /\ c \notin Region /\ Region' = Region \cup {c}
      /\ above'[c] = above[p] \cup {c}
      /\ \A n \in Region : above'[n] = above[n] /\ c \notin above[n]
      /\ parent'[c] = p /\ \A n \in Region : parent'[n] = parent[n]
      /\ kids'[c] = <<>> /\ kids'[p] = <<c>> \o kids[p]
      /\ \A n \in Region : n # p => kids'[n] = kids[n]
      /\ \A n \in Region : kids[n] \in Seq(Node)
  BY GrowFacts
<1>2. \A r \in Region : r \in above[r] /\ above[r] \subseteq Region
  BY DispatchFacts
<1>3. IsFiniteSet(Region)'
  BY <1>1, FS_AddElement DEF Shape
<1>4. /\ kids'[p] \in Seq(Node) /\ DOMAIN kids'[p] = 1 .. Len(kids[p]) + 1
      /\ DOMAIN kids[p] = 1 .. Len(kids[p]) /\ Len(kids[p]) \in Nat
      /\ kids'[p][1] = c
      /\ \A i \in DOMAIN kids[p] : kids'[p][i + 1] = kids[p][i]
  BY <1>1
<1>5. \A i \in DOMAIN kids'[p] : i = 1 \/ (i - 1 \in DOMAIN kids[p] /\ kids'[p][i] = kids[p][i - 1])
  BY <1>4
<1>6. \A q \in Region : \A i \in DOMAIN kids[q] : ChildOK(q, i)
  BY DEF Shape
<1>7. ASSUME NEW q \in Region', NEW i \in DOMAIN kids'[q] PROVE ChildOK(q, i)'
  <2>1. q # c
    <3>1. kids'[c] = <<>> /\ DOMAIN <<>> = {}
      BY <1>1
    <3> QED BY <1>7, <3>1
  <2>2. q \in Region
    BY <1>1, <2>1
  <2>3. CASE q # p
    <3>1. kids'[q] = kids[q] /\ ChildOK(q, i)
      BY <1>1, <1>6, <1>7, <2>2, <2>3
    <3>2. PICK k : k = kids[q][i]
      OBVIOUS
    <3>3. /\ k \in Region /\ parent[k] = q /\ k \notin above[q] /\ above[k] = above[q] \cup {k}
          /\ \A j \in DOMAIN kids[q] : kids[q][j] = k => j = i
      BY <3>1, <3>2 DEF ChildOK
    <3>4. k \in Region' /\ parent'[k] = q /\ k \notin above'[q] /\ above'[k] = above'[q] \cup {k}
      BY <1>1, <2>2, <3>3
    <3> QED BY <3>1, <3>2, <3>3, <3>4 DEF ChildOK
  <2>4. CASE q = p /\ i = 1
    <3>1. \A j \in DOMAIN kids'[p] : kids'[p][j] = c => j = 1
      BY <1>1, <1>5, <1>6 DEF ChildOK
    <3>2. c \in Region' /\ parent'[c] = p /\ c \notin above'[p] /\ above'[c] = above'[p] \cup {c}
      BY <1>1
    <3>3. kids'[q][i] = c
      BY <1>4, <2>4
    <3> QED BY <2>4, <3>1, <3>2, <3>3 DEF ChildOK
  <2>5. CASE q = p /\ i # 1
    <3>1. i - 1 \in DOMAIN kids[p] /\ kids'[p][i] = kids[p][i - 1] /\ ChildOK(p, i - 1)
      BY <1>1, <1>5, <1>6, <1>7, <2>5
    <3>2. \A j \in DOMAIN kids'[p] : kids'[p][j] = kids'[p][i] => j = i
      <4> SUFFICES ASSUME NEW j \in DOMAIN kids'[p], kids'[p][j] = kids'[p][i] PROVE j = i
        OBVIOUS
      <4>1. kids'[p][j] \in Region
        BY <3>1 DEF ChildOK
      <4>2. j # 1
        <5>1. kids'[p][1] \notin Region
          BY <1>1, <1>4
        <5> QED BY <4>1, <5>1
      <4>3. j - 1 \in DOMAIN kids[p] /\ kids[p][j - 1] = kids[p][i - 1]
        BY <1>5, <3>1, <4>2
      <4>4. j - 1 = i - 1
        BY <3>1, <4>3 DEF ChildOK
      <4> QED BY <1>4, <1>7, <2>5, <4>4
    <3>3. PICK k : k = kids'[p][i]
      OBVIOUS
    <3>4. k \in Region /\ parent[k] = p /\ k \notin above[p] /\ above[k] = above[p] \cup {k}
      BY <3>1, <3>3 DEF ChildOK
    <3>5. k \in Region' /\ parent'[k] = p /\ k \notin above'[p] /\ above'[k] = above'[p] \cup {k}
      BY <1>1, <3>4
    <3> QED BY <2>5, <3>2, <3>3, <3>5 DEF ChildOK
  <2> QED BY <2>2, <2>3, <2>4, <2>5
<1>8. \A u \in Region : \A i \in DOMAIN kids[u] : \E j \in DOMAIN kids'[u] : kids'[u][j] = kids[u][i]
  <2> SUFFICES ASSUME NEW u \in Region, NEW i \in DOMAIN kids[u]
               PROVE  \E j \in DOMAIN kids'[u] : kids'[u][j] = kids[u][i]
    OBVIOUS
  <2>1. CASE u # p
    BY <1>1, <2>1
  <2>2. CASE u = p
    <3>1. i + 1 \in DOMAIN kids'[p]
      BY <1>4, <2>2
    <3> QED BY <1>4, <2>2, <3>1
  <2> QED BY <2>1, <2>2
<1>9. ASSUME NEW z \in Region' PROVE ChainOK(z)'
  <2>1. CASE z \in Region
    <3>1. ChainOK(z) /\ above'[z] = above[z] /\ above[z] \subseteq Region
      BY <1>1, <1>2, <2>1 DEF Shape
    <3>2. \A u \in above[z] : u \in Region /\ above'[u] = above[u]
      BY <1>1, <3>1
    <3>3. \A u \in above[z] : u # z => \E i \in DOMAIN kids'[u] : kids'[u][i] \in above[z]
      BY <1>8, <3>1, <3>2 DEF ChainOK
    <3> QED BY <3>1, <3>2, <3>3 DEF ChainOK
  <2>2. CASE z = c
    <3>1. ChainOK(p) /\ above'[c] = above[p] \cup {c} /\ above[p] \subseteq Region /\ p \in above[p]
      BY <1>1, <1>2 DEF Shape
    <3>2. \A u \in above[p] : u \in Region /\ above'[u] = above[u] /\ c \notin above[u]
      BY <1>1, <3>1
    <3>3. \A u \in above'[c] : above'[u] \subseteq above'[c]
      BY <3>1, <3>2 DEF ChainOK
    <3>4. \A u, v \in above'[c] : u \in above'[v] \/ v \in above'[u]
      BY <3>1, <3>2 DEF ChainOK
    <3>5. \A u \in above'[c] : c \in above'[u] => u = c
      BY <3>1, <3>2
    <3>6. ASSUME NEW u \in above'[c], u # c PROVE \E i \in DOMAIN kids'[u] : kids'[u][i] \in above'[c]
      <4>1. u \in above[p]
        BY <3>1, <3>6
      <4>2. CASE u = p
        <5>1. 1 \in DOMAIN kids'[p]
          BY <1>4
        <5> QED BY <1>4, <3>1, <4>2, <5>1
      <4>3. CASE u # p
        <5>1. PICK i \in DOMAIN kids[u] : kids[u][i] \in above[p]
          BY <3>1, <4>1, <4>3 DEF ChainOK
        <5>2. kids'[u] = kids[u]
          BY <1>1, <3>2, <4>1, <4>3
        <5> QED BY <3>1, <5>1, <5>2
      <4> QED BY <4>2, <4>3
    <3> QED BY <2>2, <3>3, <3>4, <3>5, <3>6 DEF ChainOK
  <2> QED BY <1>1, <2>1, <2>2
<1>10. ASSUME NEW q \in Region' PROVE kids'[q] \in Seq(Node)
  <2>1. <<>> \in Seq(Node)
    OBVIOUS
  <2> QED BY <1>1, <1>4, <2>1
<1> QED BY <1>3, <1>7, <1>9, <1>10 DEF Shape

\* Somewhere in the tree x and y are below two children of the same region, x on the left.
Left(x, y) ==
  \E p \in Region : \E i, j \in DOMAIN kids[p] :
    i < j /\ kids[p][i] \in above[x] /\ kids[p][j] \in above[y]

\* A vector that no step has touched stays in order, if the lists of the regions below and
\* the places of these regions have stayed the same.
LEMMA OrderKept ==
  ASSUME IInv, Orders, NEW r \in Region, ~subtree_dirty[r], subtree_mods'[r] = subtree_mods[r],
         \A n \in Region : r \in above[n] => mods'[n] = mods[n],
         \A x, y \in Region : (x \in above[y] => x \in above'[y]) /\ (Left(x, y) => Left(x, y)')
  PROVE  InOrder(subtree_mods[r])'
<1> DEFINE s == subtree_mods[r]
<1>1. InOrder(s)
  BY DEF Orders
<1>2. \A i \in DOMAIN s : s[i] \in Entry /\ s[i][2] \in Region /\ r \in above[s[i][2]]
  BY DispatchFacts DEF Below
<1> SUFFICES ASSUME NEW i \in DOMAIN s, NEW j \in DOMAIN s, i < j PROVE Before(s[i], s[j])'
  BY DEF InOrder
<1>3. PICK a, b : a = s[i] /\ b = s[j]
  OBVIOUS
<1>4. Before(a, b) /\ a[2] \in Region /\ b[2] \in Region /\ mods'[a[2]] = mods[a[2]]
  BY <1>1, <1>2, <1>3 DEF InOrder
<1>5. CASE a[2] = b[2] /\ \E k, m \in DOMAIN mods[a[2]] :
                            k < m /\ mods[a[2]][k] = a /\ mods[a[2]][m] = b
  <2>1. Before(a, b)'
    BY <1>4, <1>5 DEF Before
  <2> QED BY <1>3, <2>1
<1>6. CASE a[2] # b[2] /\ a[2] \in above[b[2]]
  <2>1. Before(a, b)'
    BY <1>4, <1>6 DEF Before
  <2> QED BY <1>3, <2>1
<1>7. CASE Left(a[2], b[2])
  <2>1. Left(a[2], b[2])'
    BY <1>4, <1>7
  <2>2. Before(a, b)'
    BY <2>1 DEF Before, Left
  <2> QED BY <1>3, <2>2
<1> QED BY <1>4, <1>5, <1>6, <1>7 DEF Before, Left

\* Loads, unloads and reloads: the vectors that are not marked have nothing of the region.
LEMMA MarkKeepsOrder ==
  ASSUME IInv, Orders, NEW q \in Region, region_mark_subtree_dirty(q),
         UNCHANGED <<parent, kids, above>>,
         \A n \in Region : n # q => mods'[n] = mods[n]
  PROVE  Orders'
<1>1. Region' = Region
  BY DEF Region
<1> SUFFICES ASSUME NEW r \in Region, ~subtree_dirty'[r] PROVE InOrder(subtree_mods[r])'
  BY <1>1 DEF Orders
<1>2. r \in Node /\ r \notin above[q] /\ ~subtree_dirty[r] /\ subtree_mods'[r] = subtree_mods[r]
  BY DispatchFacts DEF region_mark_subtree_dirty
<1>3. \A n \in Region : r \in above[n] => mods'[n] = mods[n]
  BY <1>2
<1>4. \A x, y \in Region : (x \in above[y] => x \in above'[y]) /\ (Left(x, y) => Left(x, y)')
  BY DEF Left, Region
<1> QED BY <1>2, <1>3, <1>4, OrderKept

\* A new region: what is to the left of something stays there.
LEMMA GrowKeepsOrder ==
  ASSUME IInv, Shape, Orders, NEW c \in Node, NEW p \in Node, NewRegion(c, p)
  PROVE  Orders'
<1>1. /\ p \in Region /\ c \notin Region /\ Region' = Region \cup {c}
      /\ \A n \in Region : above'[n] = above[n]
      /\ kids'[p] = <<c>> \o kids[p] /\ \A n \in Region : n # p => kids'[n] = kids[n]
      /\ \A n \in Region : kids[n] \in Seq(Node)
  BY GrowFacts
<1>2. mods' = mods /\ region_mark_subtree_dirty(p)
  BY DEF NewRegion
<1>3. ASSUME NEW x \in Region, NEW y \in Region, Left(x, y) PROVE Left(x, y)'
  <2>1. PICK n \in Region : \E i, j \in DOMAIN kids[n] :
                              i < j /\ kids[n][i] \in above[x] /\ kids[n][j] \in above[y]
    BY <1>3 DEF Left
  <2>2. PICK i, j \in DOMAIN kids[n] : i < j /\ kids[n][i] \in above[x] /\ kids[n][j] \in above[y]
    BY <2>1
  <2>3. n \in Region' /\ above'[x] = above[x] /\ above'[y] = above[y]
    BY <1>1
  <2>4. CASE n # p
    <3>1. kids'[n] = kids[n]
      BY <1>1, <2>4
    <3> QED BY <2>2, <2>3, <3>1 DEF Left
  <2>5. CASE n = p
    <3>1. /\ DOMAIN kids'[p] = 1 .. Len(kids[p]) + 1 /\ DOMAIN kids[p] = 1 .. Len(kids[p])
          /\ Len(kids[p]) \in Nat
          /\ \A k \in DOMAIN kids[p] : kids'[p][k + 1] = kids[p][k]
      BY <1>1
    <3>2. i + 1 \in DOMAIN kids'[p] /\ j + 1 \in DOMAIN kids'[p] /\ i + 1 < j + 1
      BY <2>2, <2>5, <3>1
    <3>3. kids'[p][i + 1] \in above'[x] /\ kids'[p][j + 1] \in above'[y]
      BY <2>2, <2>3, <2>5, <3>1
    <3> QED BY <2>3, <2>5, <3>2, <3>3 DEF Left
  <2> QED BY <2>4, <2>5
<1>4. ASSUME NEW r \in Region, ~subtree_dirty'[r] PROVE InOrder(subtree_mods[r])'
  <2>1. r \in Node /\ r \notin above[p] /\ ~subtree_dirty[r] /\ subtree_mods'[r] = subtree_mods[r]
    BY <1>2, <1>4, DispatchFacts DEF region_mark_subtree_dirty
  <2>2. \A x, y \in Region : x \in above[y] => x \in above'[y]
    BY <1>1
  <2> QED BY <1>2, <1>3, <2>1, <2>2, OrderKept
<1>5. InOrder(subtree_mods[c])'
  <2>1. c \notin above[p] /\ subtree_mods[c] = <<>>
    BY <1>1, DispatchFacts DEF IInv, Unborn
  <2>2. subtree_mods'[c] = <<>>
    BY <1>2, <2>1 DEF region_mark_subtree_dirty
  <2>3. DOMAIN subtree_mods'[c] = {}
    BY <2>2
  <2> QED BY <2>3 DEF InOrder
<1> QED BY <1>1, <1>4, <1>5 DEF Orders

\* A call puts the rebuilt vector in order and leaves the others alone.
LEMMA CallKeepsOrder ==
  ASSUME IInv, Orders, NEW q \in Node, NEW h \in Hook, xy_call(q, h)
  PROVE  Orders'
<1>1. PICK s \in IF subtree_dirty[q] THEN region_rebuild_subtree_mods(q) ELSE {subtree_mods[q]} :
        subtree_mods' = [subtree_mods EXCEPT ![q] = s]
  BY DEF xy_call
<1>2. /\ q \in Region /\ subtree_dirty' = [subtree_dirty EXCEPT ![q] = FALSE]
      /\ UNCHANGED <<parent, kids, above, mods>> /\ Region' = Region
  BY DEF xy_call, Region
<1>3. \A a, b : Before(a, b)' <=> Before(a, b)
  BY <1>2 DEF Before
<1>4. InOrder(s)
  <2>1. CASE subtree_dirty[q]
    <3>1. s \in region_rebuild_subtree_mods(q)
      BY <1>1, <2>1
    <3> QED BY <3>1 DEF region_rebuild_subtree_mods, InOrder
  <2>2. CASE ~subtree_dirty[q]
    BY <1>1, <1>2, <2>2 DEF Orders
  <2> QED BY <2>1, <2>2
<1>5. \A r \in Region : r \in Node
  BY DispatchFacts
<1>6. ASSUME NEW r \in Region, ~subtree_dirty'[r] PROVE InOrder(subtree_mods[r])'
  <2>1. CASE r = q
    <3>1. subtree_mods'[r] = s
      BY <1>1, <1>5, <2>1 DEF IInv, TypeOK
    <3> QED BY <1>3, <1>4, <3>1 DEF InOrder
  <2>2. CASE r # q
    <3>1. subtree_mods'[r] = subtree_mods[r] /\ ~subtree_dirty[r]
      BY <1>1, <1>2, <1>5, <1>6, <2>2 DEF IInv, TypeOK
    <3> QED BY <1>3, <3>1 DEF InOrder, Orders
  <2> QED BY <2>1, <2>2
<1> QED BY <1>2, <1>6 DEF Orders

\* Nothing that the order speaks of changes.
LEMMA SameOrder ==
  ASSUME UNCHANGED <<parent, kids, above, mods, subtree_dirty, subtree_mods>>
  PROVE  (Shape => Shape') /\ (Orders => Orders')
<1>1. Region' = Region
  BY DEF Region
<1>2. Orders => Orders'
  BY <1>1 DEF Orders, InOrder, Before
<1>3. Shape => Shape'
  BY <1>1 DEF Shape, ChildOK, ChainOK
<1> QED BY <1>2, <1>3

\* The shape of the tree is a matter of the tree.
LEMMA SameShape ==
  ASSUME UNCHANGED <<parent, kids, above>>
  PROVE  Shape => Shape'
  BY DEF Region, Shape, ChildOK, ChainOK

\* One case per operation.
LEMMA OrderStep == IInv /\ Shape /\ Orders /\ [Next]_vars => Shape' /\ Orders'
<1> SUFFICES ASSUME IInv, Shape, Orders, [Next]_vars PROVE Shape' /\ Orders'
  OBVIOUS
<1>0. /\ mods \in [Node -> Seq(Entry)] /\ Region \subseteq Node
      /\ \A m \in Entry : Linked(m) => m[2] \in Region
  BY DispatchFacts DEF IInv, TypeOK
<1>1. CASE \E c, p \in Node : NewRegion(c, p)
  BY <1>1, GrowKeepsShape, GrowKeepsOrder
<1>2. CASE \E m \in Entry : mod_load(m)
  <2>1. PICK m \in Entry : mod_load(m)
    BY <1>2
  <2>2. /\ m[2] \in Region /\ region_mark_subtree_dirty(m[2]) /\ UNCHANGED <<parent, kids, above>>
        /\ mods' = [mods EXCEPT ![m[2]] = Append(@, m)]
    BY <2>1 DEF mod_load
  <2>3. \A n \in Region : n # m[2] => mods'[n] = mods[n]
    BY <1>0, <2>2
  <2> QED BY <2>2, <2>3, SameShape, MarkKeepsOrder
<1>3. CASE \E m \in Entry : mod_unload(m)
  <2>1. PICK m \in Entry : mod_unload(m)
    BY <1>3
  <2>2. PICK i \in DOMAIN mods[m[2]] :
          /\ mods[m[2]][i] = m
          /\ mods' = [mods EXCEPT ![m[2]] = [j \in 1 .. Len(@) - 1 |->
                                               IF j < i THEN @[j] ELSE @[j + 1]]]
    BY <2>1 DEF mod_unload
  <2>3. region_mark_subtree_dirty(m[2]) /\ UNCHANGED <<parent, kids, above>>
    BY <2>1 DEF mod_unload
  <2>4. m[2] \in Region
    BY <1>0, <2>2 DEF Linked
  <2>5. \A n \in Region : n # m[2] => mods'[n] = mods[n]
    BY <1>0, <2>2
  <2> QED BY <2>3, <2>4, <2>5, SameShape, MarkKeepsOrder
<1>4. CASE \E m \in Entry : xy_reload(m)
  <2>1. PICK m \in Entry : xy_reload(m)
    BY <1>4
  <2>2. /\ Linked(m) /\ region_mark_subtree_dirty(m[2])
        /\ UNCHANGED <<parent, kids, above>> /\ mods' = mods
    BY <2>1 DEF xy_reload
  <2>3. m[2] \in Region
    BY <1>0, <2>2
  <2> QED BY <2>2, <2>3, SameShape, MarkKeepsOrder
<1>5. CASE \E r \in Node, type \in DenyTypes :
             \E what \in IF type = "hook" THEN Hook ELSE So : xy_deny(r, type, what)
  BY <1>5, SameOrder DEF xy_deny
<1>6. CASE \E h \in Hook : xy_areg(h)
  BY <1>6, SameOrder DEF xy_areg, cacheVars
<1>7. CASE \E r \in Node, h \in Hook : xy_call(r, h)
  <2>1. PICK r \in Node, h \in Hook : xy_call(r, h)
    BY <1>7
  <2>2. UNCHANGED <<parent, kids, above>>
    BY <2>1 DEF xy_call
  <2> QED BY <2>1, <2>2, SameShape, CallKeepsOrder
<1>8. CASE UNCHANGED vars
  BY <1>8, SameOrder DEF vars, cacheVars
<1> QED BY <1>1, <1>2, <1>3, <1>4, <1>5, <1>6, <1>7, <1>8 DEF Next

\* One region, and no module.
LEMMA OrderStart == Init => Shape /\ Orders
<1> SUFFICES ASSUME Init PROVE Shape /\ Orders
  OBVIOUS
<1>1. /\ Region = {TreeRoot} /\ above[TreeRoot] = {TreeRoot} /\ kids[TreeRoot] = <<>>
      /\ subtree_mods[TreeRoot] = <<>>
  BY TreeAssumption DEF Init, TreeInit, Region
<1>2. DOMAIN kids[TreeRoot] = {} /\ DOMAIN subtree_mods[TreeRoot] = {} /\ kids[TreeRoot] \in Seq(Node)
  BY <1>1
<1>3. IsFiniteSet(Region)
  BY <1>1, FS_Singleton
<1>4. ChainOK(TreeRoot)
  BY <1>1 DEF ChainOK
<1> QED BY <1>1, <1>2, <1>3, <1>4 DEF Shape, Orders, InOrder

\* The tree has its shape and the vectors are in order in every reachable state.
LEMMA OrderInvariance == Spec => [](IInv /\ Shape /\ Orders)
<1>1. Init => IInv /\ Shape /\ Orders
  BY Start, OrderStart
<1>2. IInv /\ Shape /\ Orders /\ [Next]_vars => IInv' /\ Shape' /\ Orders'
  BY Step, OrderStep
<1> QED BY <1>1, <1>2, PTL DEF Spec

\* Two children of the same region have nothing below them in common.
LEMMA SiblingsApart ==
  ASSUME IInv, Shape, NEW p \in Region, NEW i \in DOMAIN kids[p], NEW j \in DOMAIN kids[p],
         NEW z \in Region, kids[p][i] \in above[z], kids[p][j] \in above[z]
  PROVE  i = j
<1>1. PICK u, v : u = kids[p][i] /\ v = kids[p][j]
  OBVIOUS
<1>2. /\ u \in Region /\ u \notin above[p] /\ above[u] = above[p] \cup {u}
      /\ v \in Region /\ v \notin above[p] /\ above[v] = above[p] \cup {v}
      /\ u = v => i = j
  <2>1. ChildOK(p, i) /\ ChildOK(p, j)
    BY DEF Shape
  <2> QED BY <1>1, <2>1 DEF ChildOK
<1>3. u \in above[v] \/ v \in above[u]
  BY <1>1 DEF Shape, ChainOK
<1> QED BY <1>2, <1>3

\* What is on the left of something is neither above nor below it, nor on the right.
LEMMA LeftFacts ==
  ASSUME IInv, Shape, NEW x \in Region, NEW y \in Region, Left(x, y)
  PROVE  x \notin above[y] /\ y \notin above[x] /\ ~Left(y, x)
<1>0. \A r \in Region : r \in above[r] /\ above[r] \subseteq Region
  BY DispatchFacts
<1>1. PICK p \in Region : \E i, j \in DOMAIN kids[p] :
                            i < j /\ kids[p][i] \in above[x] /\ kids[p][j] \in above[y]
  BY DEF Left
<1>2. PICK i, j \in DOMAIN kids[p] : i < j /\ kids[p][i] \in above[x] /\ kids[p][j] \in above[y]
  BY <1>1
<1>3. DOMAIN kids[p] \subseteq Int
  <2>1. kids[p] \in Seq(Node)
    BY DEF Shape
  <2> QED BY <2>1
<1>4. i # j
  BY <1>2, <1>3
<1>5. \A z \in Region : ~(kids[p][i] \in above[z] /\ kids[p][j] \in above[z])
  BY <1>4, SiblingsApart
<1>6. x \notin above[y]
  <2> SUFFICES ASSUME x \in above[y] PROVE FALSE
    OBVIOUS
  <2>1. above[x] \subseteq above[y]
    BY DEF Shape, ChainOK
  <2> QED BY <1>2, <1>5, <2>1
<1>7. y \notin above[x]
  <2> SUFFICES ASSUME y \in above[x] PROVE FALSE
    OBVIOUS
  <2>1. above[y] \subseteq above[x]
    BY DEF Shape, ChainOK
  <2> QED BY <1>2, <1>5, <2>1
<1>8. ~Left(y, x)
  <2> SUFFICES ASSUME Left(y, x) PROVE FALSE
    OBVIOUS
  <2>1. PICK q \in Region : \E k, m \in DOMAIN kids[q] :
                              k < m /\ kids[q][k] \in above[y] /\ kids[q][m] \in above[x]
    BY DEF Left
  <2>2. PICK k, m \in DOMAIN kids[q] : k < m /\ kids[q][k] \in above[y] /\ kids[q][m] \in above[x]
    BY <2>1
  <2>3. k # m
    <3>1. kids[q] \in Seq(Node)
      BY DEF Shape
    <3>2. k \in Int /\ m \in Int
      BY <3>1
    <3> QED BY <2>2, <3>2
  <2>4. \A z \in Region : ~(kids[q][k] \in above[z] /\ kids[q][m] \in above[z])
    BY <2>3, SiblingsApart
  <2>5. PICK u, v, w, t : u = kids[p][i] /\ v = kids[p][j] /\ w = kids[q][k] /\ t = kids[q][m]
    OBVIOUS
  <2>6. /\ above[u] = above[p] \cup {u} /\ above[v] = above[p] \cup {v}
        /\ above[w] = above[q] \cup {w} /\ above[t] = above[q] \cup {t}
        /\ parent[u] = p /\ parent[t] = q
    <3>1. ChildOK(p, i) /\ ChildOK(p, j) /\ ChildOK(q, k) /\ ChildOK(q, m)
      BY DEF Shape
    <3> QED BY <2>5, <3>1 DEF ChildOK
  <2>7. /\ u \in above[x] /\ v \in above[y] /\ w \in above[y] /\ t \in above[x]
        /\ above[v] \subseteq above[y] /\ above[w] \subseteq above[y]
        /\ u \in above[t] \/ t \in above[u]
    BY <1>2, <2>2, <2>5 DEF Shape, ChainOK
  <2>8. u \notin above[y] /\ t \notin above[y]
    BY <1>5, <2>4, <2>5, <2>7
  <2>9. u = t
    BY <2>6, <2>7, <2>8
  <2>10. p = q
    BY <2>6, <2>9
  <2>11. i = m
    BY <2>5, <2>7, <2>9, <2>10, SiblingsApart
  <2>12. j = k
    BY <2>5, <2>7, <2>10, SiblingsApart
  <2>13. i \in Int /\ j \in Int
    BY <1>3
  <2> QED BY <1>2, <2>2, <2>11, <2>12, <2>13
<1> QED BY <1>6, <1>7, <1>8

\* The order of the walk never goes both ways.
LEMMA BeforeAsymmetric ==
  ASSUME IInv, Shape, NEW a \in Entry, NEW b \in Entry, a[2] \in Region, b[2] \in Region,
         Before(a, b)
  PROVE  ~Before(b, a)
<1>0. \A r \in Region : r \in above[r]
  BY DispatchFacts
<1>1. CASE a[2] = b[2] /\ \E i, j \in DOMAIN mods[a[2]] :
                            i < j /\ mods[a[2]][i] = a /\ mods[a[2]][j] = b
  <2>1. PICK i, j \in DOMAIN mods[a[2]] : i < j /\ mods[a[2]][i] = a /\ mods[a[2]][j] = b
    BY <1>1
  <2>2. a[2] \in Node
    BY DEF Entry
  <2>3. mods[a[2]] \in Seq(Entry)
    BY <2>2 DEF IInv, TypeOK
  <2>4. \A g, h \in DOMAIN mods[a[2]] : mods[a[2]][g] = mods[a[2]][h] => g = h
    BY <2>2 DEF IInv, TypeOK
  <2>5. DOMAIN mods[a[2]] \subseteq Int
    BY <2>3
  <2>6. \A g, h \in DOMAIN mods[a[2]] : mods[a[2]][g] = b /\ mods[a[2]][h] = a => g = j /\ h = i
    BY <2>1, <2>4
  <2>7. ~ \E g, h \in DOMAIN mods[b[2]] : g < h /\ mods[b[2]][g] = b /\ mods[b[2]][h] = a
    BY <1>1, <2>1, <2>5, <2>6
  <2>8. ~Left(b[2], a[2])
    BY <1>0, <1>1, LeftFacts
  <2> QED BY <1>1, <2>7, <2>8 DEF Before, Left
<1>2. CASE a[2] # b[2] /\ a[2] \in above[b[2]]
  <2>1. b[2] \notin above[a[2]]
    BY <1>2 DEF Shape, ChainOK
  <2>2. ~Left(b[2], a[2])
    BY <1>2, LeftFacts
  <2> QED BY <1>2, <2>1, <2>2 DEF Before, Left
<1>3. CASE Left(a[2], b[2])
  <2>1. a[2] \notin above[b[2]] /\ b[2] \notin above[a[2]] /\ ~Left(b[2], a[2])
    BY <1>3, LeftFacts
  <2>2. a[2] # b[2]
    BY <1>0, <2>1
  <2> QED BY <2>1, <2>2 DEF Before, Left
<1> QED BY <1>1, <1>2, <1>3 DEF Before, Left

\* The number of regions that are not above a region,
Room(n) == Cardinality(Region) - Cardinality(above[n])

\* which goes down from parent to child.
LEMMA RoomFacts ==
  ASSUME IInv, Shape
  PROVE  /\ Cardinality(Region) \in Nat
         /\ \A n \in Region : Room(n) \in Nat /\ Room(n) < Cardinality(Region) + 1
         /\ \A n \in Region : \A i \in DOMAIN kids[n] :
              kids[n][i] \in Region /\ Room(kids[n][i]) < Room(n)
<1>1. IsFiniteSet(Region) /\ Cardinality(Region) \in Nat
  BY FS_CardinalityType DEF Shape
<1>2. ASSUME NEW n \in Region
      PROVE  /\ IsFiniteSet(above[n]) /\ Cardinality(above[n]) \in Nat
             /\ Cardinality(above[n]) <= Cardinality(Region)
  <2>1. above[n] \in SUBSET Region
    BY DispatchFacts
  <2>2. IsFiniteSet(above[n]) /\ Cardinality(above[n]) <= Cardinality(Region)
    BY <1>1, <2>1, FS_Subset
  <2> QED BY <2>2, FS_CardinalityType
<1>3. \A n \in Region : Room(n) \in Nat /\ Room(n) < Cardinality(Region) + 1
  BY <1>1, <1>2 DEF Room
<1>4. ASSUME NEW n \in Region, NEW i \in DOMAIN kids[n]
      PROVE  kids[n][i] \in Region /\ Room(kids[n][i]) < Room(n)
  <2>1. PICK c : c = kids[n][i]
    OBVIOUS
  <2>2. c \in Region /\ c \notin above[n] /\ above[c] = above[n] \cup {c}
    <3>1. ChildOK(n, i)
      BY DEF Shape
    <3> QED BY <2>1, <3>1 DEF ChildOK
  <2>3. Cardinality(above[c]) = Cardinality(above[n]) + 1
    BY <1>2, <2>2, FS_AddElement
  <2>4. Room(c) < Room(n)
    BY <1>1, <1>2, <2>2, <2>3 DEF Room
  <2> QED BY <2>1, <2>2, <2>4
<1> QED BY <1>1, <1>3, <1>4

\* The recursion of the walk: what it collects in a region comes from its children.
Gathered(f, n) == [i \in DOMAIN kids[n] |-> f[kids[n][i]]]
IsCollect(f) ==
  /\ f \in [Region -> Seq(Entry)]
  /\ \A n \in Region : f[n] = mods[n] \o FlattenSeq(Gathered(f, n))

\* There is a function like that, and it is what the walk computes.
LEMMA CollectIs ==
  ASSUME IInv, Shape
  PROVE  \E f : IsCollect(f) /\ \A r \in Region : region_collect_subtree_mods(r) = f[r]
<1> DEFINE S == Region
           V == Seq(Entry)
           N == Cardinality(Region)
           rank == [n \in S |-> Room(n)]
           st == [n \in S |-> [f \in [S -> V] |-> mods[n] \o FlattenSeq(Gathered(f, n))]]
           D(F) == [n \in S |-> mods[n] \o FlattenSeq(Gathered(F, n))]
           collect == CHOOSE F : F = D(F)
<1>1. /\ N \in Nat /\ rank \in [S -> Nat] /\ \A n \in S : rank[n] < N + 1
      /\ \A n \in S : \A i \in DOMAIN kids[n] : kids[n][i] \in S /\ rank[kids[n][i]] < rank[n]
  BY RoomFacts
<1>2. \A n \in S : /\ mods[n] \in V /\ kids[n] \in Seq(Node) /\ Len(kids[n]) \in Nat
                   /\ DOMAIN kids[n] = 1 .. Len(kids[n])
  BY DispatchFacts DEF IInv, TypeOK, Shape
<1>3. ASSUME NEW f \in [S -> V], NEW n \in S PROVE mods[n] \o FlattenSeq(Gathered(f, n)) \in V
  <2>1. Gathered(f, n) \in [1 .. Len(kids[n]) -> Seq(Entry)]
    <3> HIDE DEF S, V
    <3>1. \A i \in DOMAIN kids[n] : f[kids[n][i]] \in V
      BY <1>1
    <3>2. Gathered(f, n) \in [DOMAIN kids[n] -> V]
      BY <3>1 DEF Gathered
    <3> QED BY <1>2, <3>2 DEF V
  <2>2. FlattenSeq(Gathered(f, n)) \in Seq(Entry)
    BY <1>2, <2>1, FlattenIs
  <2> QED BY <1>2, <2>2
<1> HIDE DEF S, V, N, rank
<1>4. IsRanked(S, V, rank, st)
  <2>1. st \in [S -> [[S -> V] -> V]]
    BY <1>3
  <2>2. ASSUME NEW n \in S, NEW f \in [S -> V], NEW g \in [S -> V],
               \A y \in S : rank[y] < rank[n] => f[y] = g[y]
        PROVE  st[n][f] = st[n][g]
    <3>1. Gathered(f, n) = Gathered(g, n)
      BY <1>1, <2>2 DEF Gathered
    <3> QED BY <3>1
  <2> HIDE DEF st
  <2> QED BY <1>1, <2>1, <2>2 DEF IsRanked
<1>5. PICK f \in [S -> V] : \A n \in S : f[n] = st[n][f]
  <2>1. <<>> \in V /\ N + 1 \in Nat
    BY <1>1 DEF V
  <2> HIDE DEF st
  <2> QED BY <1>1, <1>4, <2>1, RankedExists
<1>6. \A n \in S : f[n] = mods[n] \o FlattenSeq(Gathered(f, n))
  BY <1>5
<1>7. f = D(f)
  BY <1>6
<1>8. collect = D(collect)
  <2> HIDE DEF D
  <2> QED BY <1>7
<1>9. \A n \in S : collect[n] = mods[n] \o FlattenSeq(Gathered(collect, n))
  <2> HIDE DEF collect
  <2> QED BY <1>8
<1>10. ASSUME NEW r \in S PROVE region_collect_subtree_mods(r) = collect[r]
  BY DEF region_collect_subtree_mods, Gathered, S
<1> HIDE DEF collect
<1>11. \A n \in S : collect[n] = f[n]
  <2> DEFINE bad == {n \in S : collect[n] # f[n]}
             ranks == {rank[n] : n \in bad}
  <2> SUFFICES ASSUME bad # {} PROVE FALSE
    OBVIOUS
  <2>1. ranks \subseteq Nat /\ ranks # {}
    <3>1. \A n \in bad : rank[n] \in Nat
      BY <1>1
    <3> QED BY <3>1
  <2>2. PICK m \in ranks : \A r \in ranks : m <= r
    <3> HIDE DEF ranks
    <3> QED BY <2>1, LeastNatural
  <2>3. PICK n \in bad : m = rank[n]
    OBVIOUS
  <2>4. \A y \in S : rank[y] < rank[n] => collect[y] = f[y]
    <3> SUFFICES ASSUME NEW y \in S, rank[y] < rank[n], y \in bad PROVE FALSE
      OBVIOUS
    <3>1. rank[n] <= rank[y] /\ rank[n] \in Nat /\ rank[y] \in Nat
      BY <1>1, <2>2, <2>3
    <3> QED BY <3>1
  <2>5. n \in S /\ collect[n] # f[n]
    OBVIOUS
  <2>6. Gathered(collect, n) = Gathered(f, n)
    BY <1>1, <2>4, <2>5 DEF Gathered
  <2> HIDE DEF bad
  <2> QED BY <1>6, <1>9, <2>5, <2>6
<1>12. IsCollect(f)
  BY <1>5, <1>6 DEF IsCollect, S, V
<1>13. \A r \in Region : region_collect_subtree_mods(r) = f[r]
  BY <1>10, <1>11 DEF S
<1> QED BY <1>12, <1>13

\* The walk has collected what is below n, in order.
WalkOrder == {e \in Entry \X Entry : Before(e[1], e[2])}
Collected(f, n) ==
  /\ \A m \in Entry : m \in Below(n) <=> \E j \in 1 .. Len(f[n]) : f[n][j] = m
  /\ Sorted(f[n], WalkOrder)

\* The modules of the region come first, then those of each child in turn.
LEMMA CollectStep ==
  ASSUME IInv, Shape, NEW f, IsCollect(f), NEW n \in Region,
         \A i \in DOMAIN kids[n] : Collected(f, kids[n][i])
  PROVE  Collected(f, n)
<1> DEFINE N == Len(kids[n])
<1>1. PICK ss : ss = Gathered(f, n)
  OBVIOUS
<1>2. PICK F : F = FlattenSeq(ss)
  OBVIOUS
<1>3. PICK own : own = mods[n]
  OBVIOUS
<1>4. /\ N \in Nat /\ DOMAIN kids[n] = 1 .. N /\ own \in Seq(Entry) /\ n \in Node
      /\ \A r \in Region : r \in above[r] /\ above[r] \subseteq Region
      /\ \A e \in Entry : Linked(e) => e[2] \in Region
  BY <1>3, DispatchFacts DEF IInv, TypeOK, Shape
<1>5. \A i \in 1 .. N : kids[n][i] \in Region /\ ss[i] = f[kids[n][i]] /\ ss[i] \in Seq(Entry)
  BY <1>1, <1>4, RoomFacts DEF Gathered, IsCollect
<1>6. ss \in [1 .. N -> Seq(Entry)]
  <2>1. ss = [i \in 1 .. N |-> f[kids[n][i]]]
    BY <1>1, <1>4 DEF Gathered
  <2> HIDE DEF N
  <2> QED BY <1>5, <2>1
<1>7. FlatFacts(Entry, N, ss, F)
  <2> HIDE DEF N
  <2> QED BY <1>2, <1>4, <1>6, FlattenFacts
<1>8. F \in Seq(Entry)
  BY <1>7 DEF FlatFacts
<1>9. f[n] = own \o F
  BY <1>1, <1>2, <1>3 DEF IsCollect
<1>10. /\ f[n] \in Seq(Entry) /\ Len(f[n]) = Len(own) + Len(F)
       /\ \A j \in 1 .. Len(own) : f[n][j] = own[j]
       /\ \A k \in 1 .. Len(F) : f[n][Len(own) + k] = F[k]
  BY <1>4, <1>8, <1>9, ConcatFacts
<1>11. Len(own) \in Nat /\ Len(F) \in Nat
  BY <1>4, <1>8
<1>12. \A j \in 1 .. Len(f[n]) :
         j \in 1 .. Len(own) \/ (j - Len(own) \in 1 .. Len(F) /\ f[n][j] = F[j - Len(own)])
  <2> TAKE j \in 1 .. Len(f[n])
  <2>1. j \in 1 .. Len(own) \/ (j - Len(own) \in 1 .. Len(F) /\ j = Len(own) + (j - Len(own)))
    BY <1>10, <1>11
  <2> QED BY <1>10, <2>1
<1>13. \A j \in 1 .. Len(own) : own[j] \in Entry /\ own[j][2] = n /\ Linked(own[j])
  <2>1. \A j \in DOMAIN mods[n] : mods[n][j][2] = n
    BY <1>4 DEF IInv, TypeOK
  <2>2. DOMAIN own = 1 .. Len(own) /\ \A j \in 1 .. Len(own) : own[j] \in Entry
    BY <1>4
  <2> QED BY <1>3, <2>1, <2>2 DEF Linked
<1>14. ASSUME NEW i \in 1 .. N, NEW k \in 1 .. Len(ss[i])
       PROVE  /\ ss[i][k] \in Entry /\ Linked(ss[i][k]) /\ ss[i][k][2] \in Region
              /\ kids[n][i] \in above[ss[i][k][2]]
              /\ n \in above[ss[i][k][2]] /\ ss[i][k][2] # n
  <2>1. PICK c, e : c = kids[n][i] /\ e = ss[i][k]
    OBVIOUS
  <2>2. Collected(f, c) /\ c \in Region /\ ss[i] = f[c] /\ ss[i] \in Seq(Entry)
    BY <1>4, <1>5, <2>1
  <2>3. e \in Entry
    BY <2>1, <2>2
  <2>4. e \in Below(c)
    BY <2>1, <2>2, <2>3 DEF Collected
  <2>5. Linked(e) /\ c \in above[e[2]] /\ e[2] \in Region
    BY <1>4, <2>4 DEF Below
  <2>6. n \in above[c] /\ c \notin above[n]
    <3>1. ChildOK(n, i)
      BY <1>4 DEF Shape
    <3>2. above[c] = above[n] \cup {c} /\ c \notin above[n]
      BY <2>1, <3>1 DEF ChildOK
    <3> QED BY <1>4, <3>2
  <2>7. above[c] \subseteq above[e[2]]
    BY <2>5 DEF Shape, ChainOK
  <2>8. n \in above[e[2]] /\ e[2] # n
    BY <2>5, <2>6, <2>7
  <2> QED BY <2>1, <2>3, <2>5, <2>8
<1>15. \A j \in 1 .. Len(F) : \E i \in 1 .. N : \E k \in 1 .. Len(ss[i]) : F[j] = ss[i][k]
  BY <1>7 DEF FlatFacts
<1>16. \A i \in 1 .. N : \A k \in 1 .. Len(ss[i]) : \E j \in 1 .. Len(F) : F[j] = ss[i][k]
  BY <1>7 DEF FlatFacts
<1> HIDE DEF N
<1>17. ASSUME NEW m \in Entry PROVE m \in Below(n) <=> \E j \in 1 .. Len(f[n]) : f[n][j] = m
  <2>1. ASSUME NEW j \in 1 .. Len(f[n]), f[n][j] = m PROVE m \in Below(n)
    <3>1. CASE j \in 1 .. Len(own)
      <4>1. own[j] = m
        BY <1>10, <2>1, <3>1
      <4> QED BY <1>4, <1>13, <3>1, <4>1 DEF Below
    <3>2. CASE j - Len(own) \in 1 .. Len(F) /\ f[n][j] = F[j - Len(own)]
      <4>1. PICK i \in 1 .. N : \E k \in 1 .. Len(ss[i]) : F[j - Len(own)] = ss[i][k]
        BY <1>15, <3>2
      <4>2. PICK k \in 1 .. Len(ss[i]) : F[j - Len(own)] = ss[i][k]
        BY <4>1
      <4>3. m = ss[i][k]
        BY <2>1, <3>2, <4>2
      <4> QED BY <1>14, <4>3 DEF Below
    <3> QED BY <1>12, <3>1, <3>2
  <2>2. ASSUME m \in Below(n) PROVE \E j \in 1 .. Len(f[n]) : f[n][j] = m
    <3>0. Linked(m) /\ n \in above[m[2]] /\ m[2] \in Region
      BY <1>4, <2>2 DEF Below
    <3>1. CASE m[2] = n
      <4>1. DOMAIN own = 1 .. Len(own)
        BY <1>4
      <4>2. PICK j \in 1 .. Len(own) : own[j] = m
        BY <1>3, <3>0, <3>1, <4>1 DEF Linked
      <4>3. j \in 1 .. Len(f[n])
        BY <1>10, <1>11
      <4> QED BY <1>10, <4>2, <4>3
    <3>2. CASE m[2] # n
      <4>1. PICK i \in DOMAIN kids[n] : kids[n][i] \in above[m[2]]
        BY <3>0, <3>2 DEF Shape, ChainOK
      <4>2. i \in 1 .. N /\ Collected(f, kids[n][i]) /\ m \in Below(kids[n][i])
        BY <1>4, <3>0, <4>1 DEF Below
      <4>3. PICK k \in 1 .. Len(f[kids[n][i]]) : f[kids[n][i]][k] = m
        BY <4>2 DEF Collected
      <4>4. ss[i] = f[kids[n][i]]
        BY <1>5, <4>2
      <4>5. PICK j \in 1 .. Len(F) : F[j] = m
        BY <1>16, <4>2, <4>3, <4>4
      <4>6. Len(own) + j \in 1 .. Len(f[n])
        BY <1>10, <1>11
      <4> QED BY <1>10, <4>5, <4>6
    <3> QED BY <3>1, <3>2
  <2> QED BY <2>1, <2>2
<1>18. \A i \in 1 .. N : Sorted(ss[i], WalkOrder)
  BY <1>4, <1>5 DEF Collected
<1>19. ASSUME NEW i \in 1 .. N, NEW j \in 1 .. N, i < j,
              NEW k \in 1 .. Len(ss[i]), NEW m \in 1 .. Len(ss[j])
       PROVE  <<ss[i][k], ss[j][m]>> \in WalkOrder
  <2>1. PICK a, b : a = ss[i][k] /\ b = ss[j][m]
    OBVIOUS
  <2>2. /\ a \in Entry /\ kids[n][i] \in above[a[2]]
        /\ b \in Entry /\ kids[n][j] \in above[b[2]]
    BY <1>14, <2>1
  <2>3. Before(a, b)
    BY <1>4, <1>19, <2>2 DEF Before
  <2> QED BY <2>1, <2>2, <2>3 DEF WalkOrder
<1>20. Sorted(F, WalkOrder)
  BY <1>2, <1>4, <1>6, <1>18, <1>19, FlattenSorted
<1>21. Sorted(f[n], WalkOrder)
  <2> SUFFICES ASSUME NEW g \in 1 .. Len(f[n]), NEW h \in 1 .. Len(f[n]), g < h
               PROVE  <<f[n][g], f[n][h]>> \in WalkOrder
    BY DEF Sorted
  <2>1. CASE h \in 1 .. Len(own)
    <3>1. g \in 1 .. Len(own)
      BY <1>11, <2>1
    <3>2. PICK a, b : a = own[g] /\ b = own[h]
      OBVIOUS
    <3>3. a \in Entry /\ b \in Entry /\ a[2] = n /\ b[2] = n
      BY <1>13, <2>1, <3>1, <3>2
    <3>4. DOMAIN own = 1 .. Len(own)
      BY <1>4
    <3>5. Before(a, b)
      BY <1>3, <2>1, <3>1, <3>2, <3>3, <3>4 DEF Before
    <3> QED BY <1>10, <2>1, <3>1, <3>2, <3>3, <3>5 DEF WalkOrder
  <2>2. CASE g \in 1 .. Len(own) /\ h - Len(own) \in 1 .. Len(F) /\ f[n][h] = F[h - Len(own)]
    <3>1. PICK i \in 1 .. N : \E k \in 1 .. Len(ss[i]) : F[h - Len(own)] = ss[i][k]
      BY <1>15, <2>2
    <3>2. PICK k \in 1 .. Len(ss[i]) : F[h - Len(own)] = ss[i][k]
      BY <3>1
    <3>3. PICK a, b : a = own[g] /\ b = ss[i][k]
      OBVIOUS
    <3>4. a \in Entry /\ a[2] = n /\ b \in Entry /\ n \in above[b[2]] /\ b[2] # n
      BY <1>13, <1>14, <2>2, <3>3
    <3>5. Before(a, b)
      BY <3>4 DEF Before
    <3>6. f[n][g] = a /\ f[n][h] = b
      BY <1>10, <2>2, <3>2, <3>3
    <3> QED BY <3>4, <3>5, <3>6 DEF WalkOrder
  <2>3. CASE /\ g - Len(own) \in 1 .. Len(F) /\ f[n][g] = F[g - Len(own)]
             /\ h - Len(own) \in 1 .. Len(F) /\ f[n][h] = F[h - Len(own)]
    <3>1. g - Len(own) < h - Len(own)
      BY <1>11
    <3> QED BY <1>20, <2>3, <3>1 DEF Sorted
  <2> QED BY <1>12, <2>1, <2>2, <2>3
<1> QED BY <1>17, <1>21 DEF Collected

\* In every region the walk collects what is below, in order.
LEMMA WalkFacts ==
  ASSUME IInv, Shape, NEW r \in Region
  PROVE  /\ region_collect_subtree_mods(r) \in Seq(Entry)
         /\ \A m \in Entry : m \in Below(r) <=>
              \E j \in 1 .. Len(region_collect_subtree_mods(r)) : region_collect_subtree_mods(r)[j] = m
         /\ Sorted(region_collect_subtree_mods(r), WalkOrder)
<1>1. PICK f : IsCollect(f) /\ \A n \in Region : region_collect_subtree_mods(n) = f[n]
  BY CollectIs
<1>2. \A n \in Region : Collected(f, n)
  <2> DEFINE bad == {n \in Region : ~Collected(f, n)}
             ranks == {Room(n) : n \in bad}
  <2> SUFFICES ASSUME bad # {} PROVE FALSE
    OBVIOUS
  <2>1. ranks \subseteq Nat /\ ranks # {}
    <3>1. \A n \in bad : Room(n) \in Nat
      BY RoomFacts
    <3> QED BY <3>1
  <2>2. PICK m \in ranks : \A k \in ranks : m <= k
    <3> HIDE DEF ranks
    <3> QED BY <2>1, LeastNatural
  <2>3. PICK n \in bad : m = Room(n)
    OBVIOUS
  <2>4. \A y \in Region : Room(y) < Room(n) => Collected(f, y)
    <3> SUFFICES ASSUME NEW y \in Region, Room(y) < Room(n), y \in bad PROVE FALSE
      OBVIOUS
    <3>1. Room(n) <= Room(y) /\ Room(n) \in Nat /\ Room(y) \in Nat
      BY <2>2, <2>3, RoomFacts
    <3> QED BY <3>1
  <2>5. n \in Region /\ ~Collected(f, n)
    OBVIOUS
  <2> HIDE DEF bad
  <2> QED BY <1>1, <2>4, <2>5, CollectStep, RoomFacts
<1>3. f[r] \in Seq(Entry)
  BY <1>1 DEF IsCollect
<1> QED BY <1>1, <1>2, <1>3 DEF Collected

\* A list of what is below r, in order, is the walk.
LEMMA OnlyWalk ==
  ASSUME IInv, Shape, NEW r \in Region, NEW s \in Seq(Entry), InOrder(s),
         \A m \in Entry : m \in Below(r) <=> \E i \in DOMAIN s : s[i] = m
  PROVE  s = region_collect_subtree_mods(r)
<1>1. PICK t : t = region_collect_subtree_mods(r)
  OBVIOUS
<1>2. /\ t \in Seq(Entry) /\ Sorted(t, WalkOrder)
      /\ \A m \in Entry : m \in Below(r) <=> \E j \in 1 .. Len(t) : t[j] = m
  BY <1>1, WalkFacts
<1>3. DOMAIN s = 1 .. Len(s) /\ \A i \in 1 .. Len(s) : s[i] \in Entry
  OBVIOUS
<1> DEFINE B == Below(r)
           R == {e \in B \X B : Before(e[1], e[2])}
<1>4. B \subseteq Entry /\ \A m \in B : m[2] \in Region
  BY DispatchFacts DEF Below
<1>5. \A x, y \in B : <<x, y>> \in R => <<y, x>> \notin R
  BY <1>4, BeforeAsymmetric
<1>6. \A i \in 1 .. Len(s) : s[i] \in B
  BY <1>3
<1>7. \A i \in 1 .. Len(t) : t[i] \in Entry
  BY <1>2
<1>8. \A i \in 1 .. Len(t) : t[i] \in B
  BY <1>2, <1>7
<1>9. s \in Seq(B) /\ t \in Seq(B)
  BY <1>2, <1>6, <1>8
<1>10. Sorted(s, R)
  BY <1>3, <1>6 DEF Sorted, InOrder
<1>11. Sorted(t, R)
  BY <1>2, <1>8 DEF Sorted, WalkOrder
<1>12. \A x \in B : (\E i \in 1 .. Len(s) : s[i] = x) <=> \E i \in 1 .. Len(t) : t[i] = x
  BY <1>2, <1>3, <1>4
<1> HIDE DEF B, R
<1>13. s = t
  BY <1>5, <1>9, <1>10, <1>11, <1>12, SortedUnique
<1> QED BY <1>1, <1>13

(***************************************************************************)
(* Theorems                                                                *)
(***************************************************************************)

\* Type correctness; a module entry is on one list, once (mods_head of its region).
THEOREM TypeCorrect == Spec => []TypeOK
<1>1. IInv => TypeOK
  BY DEF IInv
<1> QED BY <1>1, Invariance, PTL

\* For every tree and every history: a vector that a call would use without rebuilding
\* it (region_gen = dispatch_gen in xy_dispatch) holds no freed entry and none from
\* outside the subtree.
THEOREM NoDeadModuleCorrect == Spec => []NoDeadModule
<1>1. IInv => NoDeadModule
  BY DEF IInv
<1> QED BY <1>1, Invariance, PTL

\* As long as nobody denied anything, such a vector misses no listener: loads, unloads,
\* reloads, new regions and late registrations invalidate enough.
THEOREM CacheCompleteCorrect == Spec => []CacheComplete
<1>1. IInv => CacheComplete
  BY DEF IInv
<1> QED BY <1>1, Invariance, PTL

\* xy_dispatch may skip the walk over the chain when the flag of the root is not set.
THEOREM GateCorrect == Spec => []GateSound
<1>1. IInv => GateSound
  <2> SUFFICES ASSUME IInv, NEW r \in Region, NEW h \in Hook
               PROVE  HookPermitted(r, h) <=> \A a \in above[r] \ {r} : h \notin denied_hooks[a]
    BY DEF GateSound
  <2>1. above[r] \subseteq Node
    BY DEF IInv, TypeOK
  <2>2. ~subtree_flags[TreeRoot] => \A a \in above[r] \ {r} : h \notin denied_hooks[a]
    BY <2>1 DEF IInv, FlagsCover
  <2> QED BY <2>2 DEF HookPermitted
<1> QED BY <1>1, Invariance, PTL

\* A call of a registered hook never looks a symbol up (fn_cache_prewarm).
THEOREM PrewarmedCorrect == Spec => []Prewarmed
<1>1. IInv => Prewarmed
  BY DEF IInv, TypeOK, AllKnown, Known, Resolve, Prewarmed
<1> QED BY <1>1, Invariance, PTL

\* A subtree vector that is not dirty lists exactly the modules below its region, and no
\* hook vector is fresh over a dirty one (region_mark_subtree_dirty).
THEOREM SubtreeListsCorrect == Spec => []SubtreeLists
<1>1. IInv => SubtreeLists
  BY DEF IInv
<1> QED BY <1>1, Invariance, PTL

\* The subtree vector that a call reads without a rebuild is what the walk over the
\* intrusive lists would collect at that moment, in the same order, for every tree and every
\* history of loads, unloads, reloads and new regions (region_mark_subtree_dirty).
THEOREM SubtreeCurrentCorrect == Spec => []SubtreeCurrent
<1>1. ASSUME IInv, Shape, Orders PROVE SubtreeCurrent
  <2> SUFFICES ASSUME NEW r \in Region, ~subtree_dirty[r]
               PROVE  subtree_mods[r] = region_collect_subtree_mods(r)
    BY <1>1 DEF SubtreeCurrent, IInv, SubtreeLists
  <2>1. subtree_mods[r] \in Seq(Entry)
    BY <1>1, DispatchFacts DEF IInv, TypeOK
  <2>2. InOrder(subtree_mods[r])
    BY <1>1 DEF Orders
  <2>3. \A m \in Entry : m \in Below(r) <=> \E i \in DOMAIN subtree_mods[r] : subtree_mods[r][i] = m
    BY <1>1 DEF IInv, SubtreeLists, Lists
  <2> QED BY <1>1, <2>1, <2>2, <2>3, OnlyWalk
<1> QED BY <1>1, OrderInvariance, PTL

\* A rebuild, which XyDispatch describes by the order of the tree, is the walk of the code.
RebuildIsWalk ==
  \A r \in Region : region_rebuild_subtree_mods(r) = {region_collect_subtree_mods(r)}

\* A list of the modules below a region in the order of the tree exists, is the only one,
\* and is what region_collect_subtree_mods yields: no call is stuck in a rebuild, and none
\* has a choice.
THEOREM RebuildCorrect == Spec => []RebuildIsWalk
<1>1. ASSUME IInv, Shape, NEW r \in Region
      PROVE  region_rebuild_subtree_mods(r) = {region_collect_subtree_mods(r)}
  <2> DEFINE B == Below(r)
             n == Cardinality(B)
  <2>1. PICK t : t = region_collect_subtree_mods(r)
    OBVIOUS
  <2>2. /\ t \in Seq(Entry) /\ Sorted(t, WalkOrder)
        /\ \A m \in Entry : m \in Below(r) <=> \E j \in 1 .. Len(t) : t[j] = m
    BY <1>1, <2>1, WalkFacts
  <2>3. B \subseteq Entry /\ \A m \in B : m[2] \in Region
    BY <1>1, DispatchFacts DEF Below
  <2>4. /\ Len(t) \in Nat /\ DOMAIN t = 1 .. Len(t)
        /\ \A i \in 1 .. Len(t) : t[i] \in Entry /\ t[i] \in B
    <3>1. Len(t) \in Nat /\ DOMAIN t = 1 .. Len(t) /\ \A i \in 1 .. Len(t) : t[i] \in Entry
      BY <2>2
    <3> QED BY <2>2, <3>1
  <2>5. \A i, j \in 1 .. Len(t) : i < j => Before(t[i], t[j])
    BY <2>2 DEF Sorted, WalkOrder
  <2>6. \A i, j \in 1 .. Len(t) : t[i] = t[j] => i = j
    <3> SUFFICES ASSUME NEW i \in 1 .. Len(t), NEW j \in 1 .. Len(t), t[i] = t[j], i < j PROVE FALSE
      BY <2>4
    <3>1. Before(t[i], t[j]) /\ Before(t[j], t[i])
      BY <2>5
    <3> QED BY <1>1, <2>3, <2>4, <3>1, BeforeAsymmetric
  <2>7. t \in [1 .. Len(t) -> B]
    BY <2>2, <2>4
  <2>8. n = Len(t)
    <3>1. t \in Bijection(1 .. Len(t), B)
      <4>1. \A m \in B : \E i \in 1 .. Len(t) : t[i] = m
        BY <2>2, <2>3
      <4> HIDE DEF B
      <4>2. t \in Injection(1 .. Len(t), B)
        BY <2>6, <2>7 DEF Injection, IsInjective
      <4>3. t \in Surjection(1 .. Len(t), B)
        BY <2>7, <4>1 DEF Surjection
      <4> QED BY <4>2, <4>3 DEF Bijection
    <3>2. ExistsBijection(1 .. Len(t), B)
      BY <3>1 DEF ExistsBijection
    <3> HIDE DEF B
    <3> QED BY <2>4, <3>2, FS_CountingElements
  <2>9. t \in region_rebuild_subtree_mods(r)
    BY <2>2, <2>3, <2>5, <2>7, <2>8 DEF region_rebuild_subtree_mods
  <2>10. ASSUME NEW s \in region_rebuild_subtree_mods(r) PROVE s = t
    <3>1. /\ s \in [1 .. n -> B] /\ \A m \in B : \E i \in 1 .. n : s[i] = m
          /\ \A i, j \in 1 .. n : i < j => Before(s[i], s[j])
      BY <2>10 DEF region_rebuild_subtree_mods
    <3> HIDE DEF B, n
    <3>2. n \in Nat /\ DOMAIN s = 1 .. n /\ \A i \in 1 .. n : s[i] \in B /\ s[i] \in Entry
      BY <2>3, <2>4, <2>8, <3>1
    <3>3. s \in Seq(Entry)
      BY <3>1, <3>2
    <3>4. InOrder(s)
      BY <3>1, <3>2 DEF InOrder
    <3>5. \A m \in Entry : m \in Below(r) <=> \E i \in DOMAIN s : s[i] = m
      BY <3>1, <3>2 DEF B
    <3> QED BY <1>1, <2>1, <3>3, <3>4, <3>5, OnlyWalk
  <2> QED BY <2>1, <2>9, <2>10
<1>2. IInv /\ Shape => RebuildIsWalk
  BY <1>1 DEF RebuildIsWalk
<1> QED BY <1>2, OrderInvariance, PTL
===============================================================================
