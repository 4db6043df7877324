------------------------------ MODULE XyDispatch ------------------------------
(***************************************************************************)
(* The dispatch caches of libxylem.                                        *)
(*                                                                         *)
(* A hook call made in a region runs the listeners of the region and of    *)
(* its whole subtree.  Every region caches the modules of its subtree      *)
(* (subtree_mods) and, per hook, the listeners among them (hook_dispatch); *)
(* every module caches which hooks it exports (fn_cache, hook_impl_bits).  *)
(* This module is about those caches: who invalidates what, and what a     *)
(* call made in any state would run.                                       *)
(*                                                                         *)
(* The region tree is that of XyTree.  A module entry is a library in a    *)
(* region.  The generation numbers are reduced to what they decide: slots  *)
(* has a vector for a hook iff the vector carries the dispatch_gen of the  *)
(* region.  (They are 64 bits wide, so they do not come round.)  A vector  *)
(* that is out of date, or dirty, is never read and has no contents here.  *)
(***************************************************************************)
EXTENDS XyTree, Integers, FiniteSets, SequencesExt

CONSTANTS
  So,          \* shared libraries, by interned load path
  Hook,        \* hook names
  Exports,     \* the pairs <<library, hook>> such that the library defines the hook
  DenyTypes,   \* the kinds of deny the host uses: "hook", "module" or both
  MaxLoaded,   \* bound: module entries that exist at once
  MaxDenies    \* bound: denies in force at once

ASSUME ExportsAssumption == Exports \subseteq So \X Hook
ASSUME DenyAssumption == DenyTypes \subseteq {"hook", "module"}

Entry == So \X Node

VARIABLES
  above,             \* the chain of parent pointers of a region, itself included
  mods,              \* mods_head list of a region
  subtree_dirty,     \* subtree_mods_dirty
  subtree_mods,      \* subtree_mods
  slots,             \* per region, for the hooks whose vector has region_gen =
                     \* dispatch_gen: the entries in the vector, with their cb
  denied_modules,
  denied_hooks,
  subtree_flags,     \* XY_SUBTREE_HAS_DENY
  hooks,             \* hook_id_hd: the hooks registered by xy_areg
  fn_cache,          \* per entry and hook: "null", "no" (XY_FN_NOT_FOUND) or "yes"
  hook_impl,         \* hook_impl_bits
  private            \* the entry was opened from a unique copy of its library

cacheVars == <<subtree_dirty, subtree_mods, slots>>
denyVars == <<denied_modules, denied_hooks, subtree_flags>>
fnVars == <<hooks, fn_cache, hook_impl, private>>
vars == <<parent, kids, above, mods, cacheVars, denyVars, fnVars>>

Region == DOMAIN parent

\* Positions are those of the doubly linked list of the region.
Linked(m) == \E i \in DOMAIN mods[m[2]] : mods[m[2]][i] = m
Below(r) == {m \in Entry : Linked(m) /\ r \in above[m[2]]}

(***************************************************************************)
(* The subtree vector                                                      *)
(***************************************************************************)

\* The walk: the modules of the region in load order, then those of each child.
region_collect_subtree_mods(r) ==
  LET collect[n \in Region] ==
        mods[n] \o FlattenSeq([i \in DOMAIN kids[n] |-> collect[kids[n][i]]])
  IN collect[r]

\* The order of the walk, without the walk.
Before(a, b) ==
  \/ a[2] = b[2] /\ \E i, j \in DOMAIN mods[a[2]] :
                      i < j /\ mods[a[2]][i] = a /\ mods[a[2]][j] = b
  \/ a[2] # b[2] /\ a[2] \in above[b[2]]
  \/ \E p \in Region : \E i, j \in DOMAIN kids[p] :
       i < j /\ kids[p][i] \in above[a[2]] /\ kids[p][j] \in above[b[2]]

\* The rebuilt vector lists the modules below r in that order; SubtreeCurrent
\* shows that this is what the walk collects.
region_rebuild_subtree_mods(r) ==
  LET n == Cardinality(Below(r))
  IN {s \in [1 .. n -> Below(r)] :
        /\ \A m \in Below(r) : \E i \in 1 .. n : s[i] = m
        /\ \A i, j \in 1 .. n : i < j => Before(s[i], s[j])}

Nothing == [x \in {} |-> "null"]

\* Mutant: the ancestors are not told.
region_mark_subtree_dirty_self(r) ==
  /\ slots' = [slots EXCEPT ![r] = Nothing]
  /\ subtree_dirty' = [subtree_dirty EXCEPT ![r] = TRUE]
  /\ subtree_mods' = [subtree_mods EXCEPT ![r] = <<>>]

\* The region and all its ancestors: new generation, dirty vector.
region_dispatch_gen_bump(r) ==
  slots' = [n \in Node |-> IF n \in above[r] THEN Nothing ELSE slots[n]]
region_mark_subtree_dirty(r) ==
  /\ region_dispatch_gen_bump(r)
  /\ subtree_dirty' = [n \in Node |-> n \in above[r] \/ subtree_dirty[n]]
  /\ subtree_mods' = [n \in Node |-> IF n \in above[r] THEN <<>> ELSE subtree_mods[n]]

(***************************************************************************)
(* Deny checks                                                             *)
(***************************************************************************)

\* Any region of the caller's chain, the caller's own included, denied the library.
module_denied_by_ancestors(r, m) == \E a \in above[r] : m[1] \in denied_modules[a]

\* Mutant: the flag is read off the caller's own entry.
HookPermitted_own_flag(r, h) ==
  subtree_flags[r] => \A a \in above[r] \ {r} : h \notin denied_hooks[a]

\* The gate of xy_dispatch: the chain is looked at only if the flag of its root
\* is set, and the caller's own region is left out.
HookPermitted(r, h) ==
  subtree_flags[TreeRoot] => \A a \in above[r] \ {r} : h \notin denied_hooks[a]

(***************************************************************************)
(* Hook resolution                                                         *)
(***************************************************************************)

\* module_lookup_symbol_raw, restricted to symbols the library itself defines.
Resolve(m, h) == IF <<m[1], h>> \in Exports THEN "yes" ELSE "no"

\* fn_cache_prewarm of the entries in E: every registered hook that is not in
\* the cache is looked up.
Warm(E, H, fn) ==
  [m \in Entry |-> [h \in Hook |-> IF m \in E /\ h \in H /\ fn[m][h] = "null"
                                   THEN Resolve(m, h) ELSE fn[m][h]]]
fn_cache_prewarm(E, H, fn, impl) ==
  /\ fn_cache' = Warm(E, H, fn)
  /\ hook_impl' = [m \in Entry |-> impl[m] \cup
                    IF m \in E
                    THEN {h \in H : fn[m][h] = "null" /\ Resolve(m, h) = "yes"} ELSE {}]

\* A new entry, and what is left of one that was freed.
NoCallbacks == [h \in Hook |-> "null"]

\* module_clear_fn_cache_for_handle: the pointers other entries hold into the
\* library image that m was opened from.  Their hook_impl_bits stay.
module_clear_fn_cache_for_handle(m) ==
  [e \in Entry |-> [h \in Hook |->
     IF /\ e # m /\ Linked(e) /\ e[1] = m[1] /\ ~private[m] /\ ~private[e]
        /\ fn_cache[e][h] = "yes"
     THEN "null" ELSE fn_cache[e][h]]]

(***************************************************************************)
(* Actions                                                                 *)
(***************************************************************************)

\* A region is created, by a load that claims or by xy_claim_at.
NewRegion(c, p) ==
  /\ Grow(c, p)
  /\ above' = [above EXCEPT ![c] = above[p] \cup {c}]
  /\ region_mark_subtree_dirty(p)
  /\ UNCHANGED <<mods, denyVars, fnVars>>

\* Mutant: a second load of the same library in the region adds a second entry.
mod_load_twice(m) ==
  /\ m[2] \in Region
  /\ Len(mods[m[2]]) < 2
  /\ mods' = [mods EXCEPT ![m[2]] = Append(@, m)]
  /\ fn_cache_prewarm({m}, hooks, fn_cache, hook_impl)
  /\ region_mark_subtree_dirty(m[2])
  /\ UNCHANGED <<parent, kids, above, denyVars, hooks, private>>

\* The part of a load that dispatch sees: the entry is appended and prewarmed.
\* A load of what is already loaded only counts.
mod_load(m) ==
  /\ m[2] \in Region
  /\ ~Linked(m)
  /\ Cardinality({e \in Entry : Linked(e)}) < MaxLoaded
  /\ mods' = [mods EXCEPT ![m[2]] = Append(@, m)]
  /\ fn_cache_prewarm({m}, hooks, fn_cache, hook_impl)
  /\ region_mark_subtree_dirty(m[2])
  /\ UNCHANGED <<parent, kids, above, denyVars, hooks, private>>

\* module_remove_denies: the denies of the library's path in its own region.
module_remove_denies(m) ==
  denied_modules' = [denied_modules EXCEPT ![m[2]] = @ \ {m[1]}]

\* The last reference to m goes: other entries lose the cached pointers into the
\* same image, the denies of its path go, m leaves the list of its region and is
\* freed.
mod_unload(m) ==
  /\ \E i \in DOMAIN mods[m[2]] :
       /\ mods[m[2]][i] = m
       /\ mods' = [mods EXCEPT ![m[2]] = [j \in 1 .. Len(@) - 1 |->
                                            IF j < i THEN @[j] ELSE @[j + 1]]]
  /\ fn_cache' = [module_clear_fn_cache_for_handle(m) EXCEPT ![m] = NoCallbacks]
  /\ hook_impl' = [hook_impl EXCEPT ![m] = {}]
  /\ private' = [private EXCEPT ![m] = FALSE]
  /\ module_remove_denies(m)
  /\ region_mark_subtree_dirty(m[2])
  /\ UNCHANGED <<parent, kids, above, denied_hooks, subtree_flags, hooks>>

\* xy_reload: unload, load from a unique copy, and move the new entry to the old
\* position.
xy_reload(m) ==
  /\ Linked(m)
  /\ fn_cache_prewarm({m}, hooks,
                      [module_clear_fn_cache_for_handle(m) EXCEPT ![m] = NoCallbacks],
                      [hook_impl EXCEPT ![m] = {}])
  /\ private' = [private EXCEPT ![m] = TRUE]
  /\ module_remove_denies(m)
  /\ region_mark_subtree_dirty(m[2])
  /\ UNCHANGED <<parent, kids, above, mods, denied_hooks, subtree_flags, hooks>>

\* The denies in force, for the bound.
Denies == {d \in Node \X (So \cup Hook) : d[2] \in denied_modules[d[1]] \cup denied_hooks[d[1]]}

\* A deny in region r: the flag and the new generation go up from r.
xy_deny(r, type, what) ==
  /\ r \in Region
  /\ Cardinality(Denies) < MaxDenies
  /\ denied_modules' = [denied_modules EXCEPT ![r] = IF type = "module" THEN @ \cup {what} ELSE @]
  /\ denied_hooks' = [denied_hooks EXCEPT ![r] = IF type = "hook" THEN @ \cup {what} ELSE @]
  /\ subtree_flags' = [n \in Node |-> n \in above[r] \/ subtree_flags[n]]
  /\ region_dispatch_gen_bump(r)
  /\ UNCHANGED <<parent, kids, above, mods, subtree_dirty, subtree_mods, fnVars>>

\* Mutant: the modules that are already loaded are not prewarmed.
xy_areg_lazy(h) ==
  /\ h \notin hooks
  /\ hooks' = hooks \cup {h}
  /\ UNCHANGED <<parent, kids, above, mods, cacheVars, denyVars, fn_cache, hook_impl, private>>

\* A hook is registered and looked up in every loaded module.
xy_areg(h) ==
  /\ h \notin hooks
  /\ hooks' = hooks \cup {h}
  /\ fn_cache_prewarm({m \in Entry : Linked(m)}, hooks', fn_cache, hook_impl)
  /\ UNCHANGED <<parent, kids, above, mods, cacheVars, denyVars, private>>

\* region_rebuild_hook_dispatch: the listeners in the subtree vector s.  Entries
\* whose implementation bit is set are not resolved again: the vector takes the
\* pointer that is in the cache.
region_rebuild_hook_dispatch(r, h, s) ==
  [m \in {m \in Entry : /\ \E i \in DOMAIN s : s[i] = m
                        /\ ~module_denied_by_ancestors(r, m)
                        /\ h \in hook_impl[m]} |-> fn_cache[m][h]]

\* A permitted call of h in region r brings the two caches of r up to date.
xy_call(r, h) ==
  /\ r \in Region
  /\ h \in hooks
  /\ HookPermitted(r, h)
  /\ subtree_dirty[r] \/ h \notin DOMAIN slots[r]
  /\ \E s \in IF subtree_dirty[r] THEN region_rebuild_subtree_mods(r) ELSE {subtree_mods[r]} :
       /\ subtree_mods' = [subtree_mods EXCEPT ![r] = s]
       /\ slots' = [slots EXCEPT ![r] =
                      [k \in DOMAIN @ \cup {h} |-> IF k \in DOMAIN @ THEN @[k]
                                                   ELSE region_rebuild_hook_dispatch(r, h, s)]]
  /\ subtree_dirty' = [subtree_dirty EXCEPT ![r] = FALSE]
  /\ UNCHANGED <<parent, kids, above, mods, denyVars, fnVars>>

Init ==
  /\ TreeInit
  /\ above = [n \in Node |-> IF n = TreeRoot THEN {n} ELSE {}]
  /\ mods = [n \in Node |-> <<>>]
  /\ subtree_dirty = [n \in Node |-> FALSE]
  /\ subtree_mods = [n \in Node |-> <<>>]
  /\ slots = [n \in Node |-> Nothing]
  /\ denied_modules = [n \in Node |-> {}]
  /\ denied_hooks = [n \in Node |-> {}]
  /\ subtree_flags = [n \in Node |-> FALSE]
  /\ hooks = {}
  /\ fn_cache = [m \in Entry |-> NoCallbacks]
  /\ hook_impl = [m \in Entry |-> {}]
  /\ private = [m \in Entry |-> FALSE]

Next ==
  \/ \E c, p \in Node : NewRegion(c, p)
  \/ \E m \in Entry : mod_load(m)
  \/ \E m \in Entry : mod_unload(m)
  \/ \E m \in Entry : xy_reload(m)
  \/ \E r \in Node, type \in DenyTypes :
       \E what \in IF type = "hook" THEN Hook ELSE So : xy_deny(r, type, what)
  \/ \E h \in Hook : xy_areg(h)
  \/ \E r \in Node, h \in Hook : xy_call(r, h)

Spec == Init /\ [][Next]_vars

(***************************************************************************)
(* What a call made now would run                                          *)
(***************************************************************************)

Kept(r, h) == DOMAIN slots[r][h]

\* The listeners a cached vector would call: those that have a callback.
Called(r, h) == {m \in Kept(r, h) : slots[r][h][m] = "yes"}

Listeners(r, h) == {m \in Below(r) : <<m[1], h>> \in Exports}

(***************************************************************************)
(* Properties                                                              *)
(***************************************************************************)

\* Every variable has its type, and a module entry is on one list, once.
TypeOK ==
  /\ TreeRoot \in Region /\ Region \subseteq Node
  /\ above \in [Node -> SUBSET Node]
  /\ mods \in [Node -> Seq(Entry)]
  /\ subtree_dirty \in [Node -> BOOLEAN]
  /\ subtree_mods \in [Node -> Seq(Entry)]
  /\ \A r \in Node : DOMAIN slots[r] \subseteq Hook
  /\ denied_modules \in [Node -> SUBSET So]
  /\ denied_hooks \in [Node -> SUBSET Hook]
  /\ subtree_flags \in [Node -> BOOLEAN]
  /\ hooks \subseteq Hook
  /\ fn_cache \in [Entry -> [Hook -> {"null", "no", "yes"}]]
  /\ hook_impl \in [Entry -> SUBSET Hook]
  /\ private \in [Entry -> BOOLEAN]
  /\ \A r \in Node : \A i \in DOMAIN mods[r] :
       /\ mods[r][i][2] = r
       /\ \A j \in DOMAIN mods[r] : mods[r][i] = mods[r][j] => i = j

\* A vector that a call would use without rebuilding it holds no freed entry and
\* none from outside the subtree: unload and abort reach every cache that might
\* name the entry, which are those of its region and of the ancestors.
NoDeadModule ==
  \A r \in Region : \A h \in DOMAIN slots[r] : Kept(r, h) \subseteq Below(r)

\* As long as nobody denied anything, such a vector misses no listener: loads,
\* new regions, reloads and late xy_areg calls reach every cache they must.
CacheComplete ==
  ~subtree_flags[TreeRoot] =>
    \A r \in Region : \A h \in DOMAIN slots[r] : Kept(r, h) = Listeners(r, h)

\* The subtree vector, when it is not dirty, is what the walk over the intrusive
\* lists would collect now; and no hook vector is fresh over a dirty one.
SubtreeCurrent ==
  \A r \in Region :
    IF subtree_dirty[r] THEN slots[r] = Nothing
    ELSE subtree_mods[r] = region_collect_subtree_mods(r)

\* The root flag may be used to skip the walk: a hook is refused if and only if
\* some strict ancestor of the calling region denied it.
GateSound ==
  \A r \in Region, h \in Hook :
    HookPermitted(r, h) <=> \A a \in above[r] \ {r} : h \notin denied_hooks[a]

\* A registered hook is never looked up on the dispatch path: every loaded module
\* has its answer cached, or has the implementation bit set.
Prewarmed ==
  \A m \in Entry, h \in hooks :
    Linked(m) => fn_cache[m][h] # "null" \/ h \in hook_impl[m]

(***************************************************************************)
(* What the comments and the documentation say                             *)
(***************************************************************************)

\* xy_deny: "The deny applies to sub-regions": a library that a strict ancestor
\* denies is not called.
DenyHonoured ==
  \A r \in Region : \A h \in DOMAIN slots[r] : \A m \in Called(r, h) :
    \A a \in above[r] \ {r} : m[1] \notin denied_modules[a]

\* xy_deny: "A module's own region is never blocked by its own deny": a listener that was
\* loaded in the region where the call is made, and whose library no region above it
\* denies, is called.
OwnRegionSpared ==
  \A r \in Region : \A h \in DOMAIN slots[r] : \A m \in Listeners(r, h) :
    m[2] = r /\ (\A a \in above[r] \ {r} : m[1] \notin denied_modules[a]) => m \in Kept(r, h)

\* module_clear_fn_cache_for_handle: "force re-resolve".  A listener that lost its
\* cached pointer is resolved again before the next call, so no call drops it.
ListenersCalled ==
  \A r \in Region : \A h \in DOMAIN slots[r] : Kept(r, h) = Called(r, h)
===============================================================================
