------------------------------- MODULE XyRegion -------------------------------
(***************************************************************************)
(* The region tree of libxylem and the thread-local "current region".      *)
(*                                                                         *)
(* A region is named by an identity (id, plen): the high plen bits of id   *)
(* are its prefix, all other bits are zero.  An id is a set of bit         *)
(* positions, position 0 being the most significant one, so that           *)
(*   id & region_mask(plen)   is   id \cap region_mask(plen)               *)
(*   id | (s << shift)        is   id \cup s                               *)
(* and the code's 64 is the constant W.                                    *)
(*                                                                         *)
(* Host threads call the API one call at a time (the library takes no      *)
(* lock); what interleaves are calls made while a callback of another      *)
(* thread, or of the same thread, is still running.  Each call is a step,  *)
(* except the three that run caller code in the middle: xy_with_region and *)
(* the install phase of a load, which are an enter and a return step, and  *)
(* xy_dispatch, which enters and leaves any number of listeners.  Of a     *)
(* dispatch only its switches of the current region are modelled here; a   *)
(* listener of the calling region itself runs without a switch, so what it *)
(* does are calls made while the dispatch is the innermost frame.          *)
(***************************************************************************)
EXTENDS Integers, Sequences, SequencesExt, FiniteSets

CONSTANTS
  W,            \* bits in a region id (64 in the code)
  Thread,       \* host threads
  Main,         \* the thread that ran the xy_init constructor
  NoRegion,     \* the NULL region pointer
  Fns,          \* whether a host passes a claim handler: TRUE, FALSE or both
  Freed,        \* a pointer to a region entry that xy_shutdown freed
  Tidy,         \* the program gives xy_dispatch nothing to mix up; see EnterListener
                \* and MayClaim
  MaxRegions,   \* bound: regions that exist at once, the root included
  MaxFrames,    \* bound: nested callbacks per thread
  MaxShutdowns  \* bound: calls of xy_shutdown

ASSUME WidthAssumption == W \in Nat \ {0}
ASSUME ThreadAssumption == Main \in Thread
ASSUME FnsAssumption == Fns \subseteq BOOLEAN
ASSUME TidyAssumption == Tidy \in BOOLEAN
ASSUME BoundAssumption == MaxRegions \in Nat /\ MaxFrames \in Nat /\ MaxShutdowns \in Nat

Id  == SUBSET (0 .. W - 1)
Key == [id : Id, plen : 0 .. W]

\* Pointers are not region identities, and NULL is not a freed pointer.
ASSUME PointerAssumption == NoRegion \notin Key /\ Freed \notin Key /\ NoRegion # Freed

XY_REGION_ROOT    == {}
XY_REGION_INVALID == 0 .. W - 1
Root == [id |-> XY_REGION_ROOT, plen |-> 0]

VARIABLES
  inited,     \* xy_inited
  region,     \* region_hd: the live region entries, by identity
  current,    \* per thread: xy_current_region_id and xy_current_region_entry
  frames,     \* per thread: the regions saved by unfinished callbacks and dispatches
  shutdowns   \* number of calls of xy_shutdown so far

vars == <<inited, region, current, frames, shutdowns>>

Entry == [parent : Key \cup {NoRegion}, depth : 0 .. W, handler : BOOLEAN,
          gate : BOOLEAN, kids : Seq(Key)]
Current == [id : Id, entry : Key \cup {NoRegion, Freed}]
Frame == [id : Id, entry : Key \cup {NoRegion, Freed}, loop : BOOLEAN]

(***************************************************************************)
(* Prefix arithmetic                                                       *)
(***************************************************************************)

region_mask(plen) == 0 .. plen - 1

\* (id & region_mask(r.plen)) == r.id
Covers(r, id) == id \cap region_mask(r.plen) = r.id

\* The test of xy_claim_at: no bit behind the prefix.
IsCanonical(id, plen) == id \cap region_mask(plen) = id

\* Numeric order of ids: at the first position where they differ, b has the bit.
Less(a, b) == \E i \in b \ a : \A j \in 0 .. i - 1 : j \in a <=> j \in b

region_lookup(id, plen) ==
  IF [id |-> id, plen |-> plen] \in DOMAIN region
  THEN [id |-> id, plen |-> plen] ELSE NoRegion

region_current_plen(t) ==
  IF current[t].entry = NoRegion THEN 0 ELSE current[t].entry.plen

(***************************************************************************)
(* The searches of the tree                                                *)
(***************************************************************************)

\* The nodes a depth-first walk from the root visits when it does not descend
\* past width limit.
Visited(limit) ==
  LET visit[n \in DOMAIN region] ==
        IF n.plen > limit THEN <<>>
        ELSE <<n>> \o FlattenSeq([i \in DOMAIN region[n].kids |-> visit[region[n].kids[i]]])
  IN visit[Root]

\* The running "best" of the walk: a later node wins only if strictly wider.
Best(id, nodes) ==
  FoldLeft(LAMBDA best, n : IF Covers(n, id) /\ (best = NoRegion \/ n.plen > best.plen)
                            THEN n ELSE best,
           NoRegion, nodes)

region_find_ancestor(id, plen) == Best(id, Visited(plen - 1))

\* Mutant: the cover search prunes like the ancestor search, at equal width.
region_find_cover_strict(id, plen) == Best(id, Visited(plen - 1))
region_find_cover(id, plen) == Best(id, Visited(plen))

\* Mutant: any covering region qualifies, the widest wins.
IsNearestAncestor_any_width(p, id, plen) ==
  /\ p \in DOMAIN region
  /\ Covers(p, id)
  /\ \A q \in DOMAIN region : Covers(q, id) => q.plen <= p.plen

\* What the walk for an ancestor is meant to return.  xy_claim_at uses this
\* definition; SearchFindsDeepest shows that the walk computes it.
IsNearestAncestor(p, id, plen) ==
  /\ p \in DOMAIN region
  /\ p.plen < plen
  /\ Covers(p, id)
  /\ \A q \in DOMAIN region : q.plen < plen /\ Covers(q, id) => q.plen <= p.plen

\* xy_region_at: the id half of the deepest region that covers the point.
xy_region_at(id, plen) ==
  LET hit == region_find_cover(id, plen)
  IN IF hit = NoRegion THEN XY_REGION_INVALID ELSE hit.id

\* region_ancestor_chain: root first.  It is filled from the region upwards and
\* stops when the array is full, which would lose the root.
\* Mutant: one entry too few.
anc_chain_cap_short == W
anc_chain_cap == W + 1
region_ancestor_chain(k) ==
  LET up[n \in DOMAIN region] ==
        IF region[n].parent = NoRegion THEN <<n>> ELSE Append(up[region[n].parent], n)
      over == Len(up[k]) - anc_chain_cap
  IN IF over > 0 THEN SubSeq(up[k], over + 1, Len(up[k])) ELSE up[k]

(***************************************************************************)
(* Creating regions                                                        *)
(***************************************************************************)

\* Mutant: the new entry does not take over the parent's list.
AddRegion_lost_siblings(c, p, handler) ==
  region' = [k \in DOMAIN region \cup {c} |->
              IF k = c THEN [parent |-> p, depth |-> region[p].depth + 1,
                             handler |-> handler, gate |-> FALSE, kids |-> <<>>]
              ELSE IF k = p THEN [region[p] EXCEPT !.kids = <<c>>]
              ELSE region[k]]

\* A new entry below p; the children list of p is prepended to.
AddRegion(c, p, handler) ==
  region' = [k \in DOMAIN region \cup {c} |->
              IF k = c THEN [parent |-> p, depth |-> region[p].depth + 1,
                             handler |-> handler, gate |-> FALSE, kids |-> <<>>]
              ELSE IF k = p THEN [region[p] EXCEPT !.kids = <<c>> \o @]
              ELSE region[k]]

\* Entry r with its claim handler and require_claim gate replaced.
SetClaim(r, handler, gate) ==
  [parent |-> r.parent, depth |-> r.depth, handler |-> handler, gate |-> gate,
   kids |-> r.kids]

set_current_region(t, id, entry) ==
  current' = [current EXCEPT ![t] = [id |-> id, entry |-> entry]]

\* The innermost frame of t, and whether that is a dispatch between two listeners, or in
\* a listener of the calling region.
TopFrame(t) == frames[t][Len(frames[t])]
InLoop(t) == frames[t] # <<>> /\ TopFrame(t).loop

\* In a tidy program a listener of the calling region does not claim: the dispatch would
\* put the old id back beside the new entry behind its next listener.
MayClaim(t) == Tidy => ~InLoop(t)

\* The values s << slot_shift takes in region_alloc_slot.  With cplen = W the
\* number of slots wraps to 0 and s runs through every value.
SlotOffsets(p, cplen) ==
  IF cplen = W THEN Id ELSE SUBSET (p.plen .. cplen - 1)

\* Mutant: the width limit is not tested.
region_alloc_slot_unlimited(p, cplen, s) ==
  /\ s \in SlotOffsets(p, cplen)
  /\ region_lookup(p.id \cup s, cplen) = NoRegion

\* s is the first offset whose candidate identity is free.
region_alloc_slot(p, cplen, s) ==
  LET taken(o) == region_lookup(p.id \cup o, cplen) # NoRegion
  IN /\ cplen <= W
     /\ s \in SlotOffsets(p, cplen)
     /\ ~taken(s)
     /\ \A o \in SlotOffsets(p, cplen) : ~taken(o) => o = s \/ Less(s, o)

(***************************************************************************)
(* Actions                                                                 *)
(***************************************************************************)

\* xy_init and the first lines of every call: the root entry is created and the
\* caller's current region is set to it, unless the caller's entry pointer is
\* set and its width is not 0.  A freed pointer is read here, so the test may
\* go either way.
xy_runtime_bootstrap(t) ==
  /\ ~inited
  /\ inited' = TRUE
  /\ region' = [k \in {Root} |-> [parent |-> NoRegion, depth |-> 0, handler |-> FALSE,
                                  gate |-> FALSE, kids |-> <<>>]]
  /\ \/ set_current_region(t, XY_REGION_ROOT, Root)
     \/ current[t].entry = Freed /\ UNCHANGED current
  /\ UNCHANGED <<frames, shutdowns>>

\* xy_shutdown frees every entry and resets the calling thread; what other
\* threads and unfinished callbacks still point to is gone.
Dangle(c) == [c EXCEPT !.entry = IF @ = NoRegion THEN NoRegion ELSE Freed]

xy_shutdown(t) ==
  /\ inited
  /\ shutdowns < MaxShutdowns
  /\ inited' = FALSE
  /\ region' = [k \in {} |-> NoRegion]
  /\ current' = [u \in Thread |-> IF u = t THEN [id |-> XY_REGION_ROOT, entry |-> NoRegion]
                                  ELSE Dangle(current[u])]
  /\ frames' = [u \in Thread |-> [i \in DOMAIN frames[u] |-> Dangle(frames[u][i])]]
  /\ shutdowns' = shutdowns + 1

\* An exact match becomes current and takes the handler, if one is given.
xy_claim_at_existing(t, k, fn) ==
  /\ inited
  /\ MayClaim(t)
  /\ k \in DOMAIN region
  /\ region' = [region EXCEPT ![k] = SetClaim(@, @.handler \/ fn, @.gate)]
  /\ set_current_region(t, k.id, k)
  /\ UNCHANGED <<inited, frames, shutdowns>>

\* A new, aligned identity is attached to its nearest ancestor.
xy_claim_at_new(t, k, fn) ==
  /\ inited
  /\ MayClaim(t)
  /\ k \notin DOMAIN region
  /\ IsCanonical(k.id, k.plen)
  /\ Cardinality(DOMAIN region) < MaxRegions
  /\ \E p \in DOMAIN region :
       /\ IsNearestAncestor(p, k.id, k.plen)
       /\ AddRegion(k, p, fn)
  /\ set_current_region(t, k.id, k)
  /\ UNCHANGED <<inited, frames, shutdowns>>

\* xy_require_claim: a handler closes the gate, NULL opens it.  A thread that
\* has no current entry gets XY_ERR_NOTFOUND.
xy_require_claim(t, fn) ==
  /\ inited
  /\ current[t].entry \in DOMAIN region
  /\ region' = [region EXCEPT ![current[t].entry] = SetClaim(@, fn, fn)]
  /\ UNCHANGED <<inited, current, frames, shutdowns>>

Push(t, id, entry, loop) ==
  /\ Len(frames[t]) < MaxFrames
  /\ frames' = [frames EXCEPT ![t] = Append(@, [id |-> id, entry |-> entry, loop |-> loop])]

\* Save the current region for the callback that now runs.
Save(t) == Push(t, current[t].id, current[t].entry, FALSE)

xy_with_region(t, k) ==
  /\ inited
  /\ k \in DOMAIN region
  /\ Save(t)
  /\ set_current_region(t, k.id, k)
  /\ UNCHANGED <<inited, region, shutdowns>>

\* The region a load starts in: the id of the current region, the width of its entry.
Inherited(t) == region_lookup(current[t].id, region_current_plen(t))

\* A load that claims no region: xy_install runs in the inherited region.
mod_load_flat(t) ==
  /\ inited
  /\ current[t].entry # Freed
  /\ Inherited(t) # NoRegion
  /\ ~region[Inherited(t)].gate
  /\ Save(t)
  /\ set_current_region(t, current[t].id, Inherited(t))
  /\ UNCHANGED <<inited, region, shutdowns>>

\* A load of a module that exports xy_claim into a region with a handler: the
\* handler granted some width, and xy_install runs in the new region.
_xy_claim_for_load(t, granted) ==
  /\ inited
  /\ current[t].entry # Freed
  /\ Inherited(t) # NoRegion
  /\ region[Inherited(t)].handler
  /\ Cardinality(DOMAIN region) < MaxRegions
  /\ LET p     == Inherited(t)
         cplen == p.plen + granted
     IN \E s \in Id :
          LET c == [id |-> p.id \cup s, plen |-> cplen]
          IN /\ region_alloc_slot(p, cplen, s)
             /\ c.id # XY_REGION_INVALID
             /\ AddRegion(c, p, FALSE)
             /\ set_current_region(t, c.id, c)
  /\ Save(t)
  /\ UNCHANGED <<inited, shutdowns>>

\* The region whose vector a dispatch runs over: the current entry, or what the id finds.
Caller(t) ==
  IF current[t].entry = NoRegion THEN region_lookup(current[t].id, region_current_plen(t))
  ELSE current[t].entry

\* xy_dispatch up to its loop: it keeps the id and the calling region, and switches nothing.
xy_dispatch(t) ==
  /\ inited
  /\ current[t].entry # Freed
  /\ Caller(t) # NoRegion
  /\ Push(t, current[t].id, Caller(t), TRUE)
  /\ UNCHANGED <<inited, region, current, shutdowns>>

\* A listener of region k below the calling one: the entry of its module becomes current,
\* with the id that the context of its library holds, which is that of region c where the
\* library was loaded last.  Saved are the current entry, and the id that the dispatch
\* began with.  In a tidy program a library is loaded in one region only.  (The vector
\* belongs to the calling region: where that was freed the model stops.)
EnterListener(t, k, c) ==
  /\ inited
  /\ InLoop(t)
  /\ TopFrame(t).entry \in DOMAIN region \ {k}
  /\ k \in DOMAIN region
  /\ TopFrame(t).entry \in ToSet(region_ancestor_chain(k))
  /\ Tidy => c = k
  /\ Push(t, TopFrame(t).id, current[t].entry, FALSE)
  /\ set_current_region(t, c.id, k)
  /\ UNCHANGED <<inited, region, shutdowns>>

\* The loop ends; what is current stays so.
FinishDispatch(t) ==
  /\ InLoop(t)
  /\ frames' = [frames EXCEPT ![t] = SubSeq(@, 1, Len(@) - 1)]
  /\ UNCHANGED <<inited, region, current, shutdowns>>

\* Mutant: the id is restored but not the pointer.
Return_id_only(t) ==
  /\ frames[t] # <<>> /\ ~InLoop(t)
  /\ set_current_region(t, TopFrame(t).id, current[t].entry)
  /\ frames' = [frames EXCEPT ![t] = SubSeq(@, 1, Len(@) - 1)]
  /\ UNCHANGED <<inited, region, shutdowns>>

\* The callback returns: in xy_with_region, mod_load_restore_context, or xy_dispatch.
Return(t) ==
  /\ frames[t] # <<>> /\ ~InLoop(t)
  /\ set_current_region(t, TopFrame(t).id, TopFrame(t).entry)
  /\ frames' = [frames EXCEPT ![t] = SubSeq(@, 1, Len(@) - 1)]
  /\ UNCHANGED <<inited, region, shutdowns>>

\* The constructor has run in the main thread.
Init ==
  /\ inited = TRUE
  /\ region = [k \in {Root} |-> [parent |-> NoRegion, depth |-> 0, handler |-> FALSE,
                                 gate |-> FALSE, kids |-> <<>>]]
  /\ current = [t \in Thread |-> [id |-> XY_REGION_ROOT,
                                  entry |-> IF t = Main THEN Root ELSE NoRegion]]
  /\ frames = [t \in Thread |-> <<>>]
  /\ shutdowns = 0

Next ==
  \E t \in Thread :
    \/ xy_runtime_bootstrap(t)
    \/ xy_shutdown(t)
    \/ \E k \in Key, fn \in Fns : xy_claim_at_existing(t, k, fn)
    \/ \E k \in Key, fn \in Fns : xy_claim_at_new(t, k, fn)
    \/ \E fn \in Fns : xy_require_claim(t, fn)
    \/ \E k \in Key : xy_with_region(t, k)
    \/ mod_load_flat(t)
    \/ \E granted \in 1 .. W : _xy_claim_for_load(t, granted)
    \/ xy_dispatch(t)
    \/ \E k, c \in DOMAIN region : EnterListener(t, k, c)
    \/ FinishDispatch(t)
    \/ Return(t)

Spec == Init /\ [][Next]_vars

(***************************************************************************)
(* Properties                                                              *)
(***************************************************************************)

\* Every variable has its type; regions exist only while the runtime is up.
TypeOK ==
  /\ inited \in BOOLEAN
  /\ DOMAIN region \subseteq Key
  /\ \A k \in DOMAIN region : region[k] \in Entry
  /\ current \in [Thread -> Current]
  /\ frames \in [Thread -> Seq(Frame)]
  /\ shutdowns \in Nat
  /\ Root \in DOMAIN region <=> inited
  /\ ~inited => DOMAIN region = {}

\* The parent pointers form a tree below the root in which every edge adds bits:
\* the pruning of both searches and the termination of every upward walk rest on it.
ParentsNarrower ==
  \A k \in DOMAIN region :
    IF k = Root THEN region[k].parent = NoRegion
    ELSE /\ region[k].parent \in DOMAIN region
         /\ region[k].parent.plen < k.plen
         /\ region[k].depth = region[region[k].parent].depth + 1

\* Ids are canonical: no bit below the prefix width (region_alloc_slot builds
\* them, xy_claim_at tests them), so an identity names one prefix.
IdsAligned == \A k \in DOMAIN region : k.id \subseteq region_mask(k.plen)

\* A region lies inside the prefix of its parent, whichever of the two ways it
\* was created, as long as it does not use all W bits.
ChildInsideParent ==
  \A k \in DOMAIN region \ {Root} :
    k.plen < W => Covers(region[k].parent, k.id)

\* The children lists and the parent pointers describe the same tree: what a
\* downward walk (dispatch, xy_region_each) sees is what an upward walk sees.
KidsMatchParents ==
  \A p \in DOMAIN region :
    /\ ToSet(region[p].kids) = {k \in DOMAIN region : region[k].parent = p}
    /\ \A i, j \in DOMAIN region[p].kids :
         region[p].kids[i] = region[p].kids[j] => i = j

\* A region is never deeper than it is wide, so no chain is longer than W + 1.
DepthBounded == \A k \in DOMAIN region : region[k].depth <= k.plen

\* The array xy_dispatch fills with the ancestors of the caller (anc_chain[65])
\* always has room for the root, where the deny flags are read.
AncestorChainComplete ==
  \A k \in DOMAIN region :
    /\ region_ancestor_chain(k)[1] = Root
    /\ Len(region_ancestor_chain(k)) = region[k].depth + 1

\* Both pruned searches return the deepest region that covers the point, for any
\* order in which the regions were created: overlapping siblings included.
SearchFindsDeepest ==
  inited =>
  \A q \in Key :
    /\ LET p == region_find_ancestor(q.id, q.plen)
       IN IF p = NoRegion THEN \A n \in DOMAIN region : ~IsNearestAncestor(n, q.id, q.plen)
          ELSE IsNearestAncestor(p, q.id, q.plen)
    /\ LET r == region_find_cover(q.id, q.plen)
       IN /\ r \in DOMAIN region /\ r.plen <= q.plen /\ Covers(r, q.id)
          /\ \A n \in DOMAIN region : n.plen <= q.plen /\ Covers(n, q.id) => n.plen <= r.plen

\* The id half names the entry that the pointer half leads to, and that entry is live; a
\* pointer that xy_shutdown left dangling is known to be one, and nothing is said of it.
Synced(c) ==
  \/ c.entry = Freed
  \/ c.entry = NoRegion /\ c.id = XY_REGION_ROOT
  \/ c.entry \in DOMAIN region /\ c.id = c.entry.id

\* "id and a direct pointer kept in sync": through callbacks, loads, claims and dispatches
\* nested in any way the two halves of the current region of every thread belong together,
\* and so do those of every region that is still to be restored.  xy_dispatch takes the id
\* from one place and the entry from another, both when it enters a listener and when it
\* leaves it, so this is so in tidy programs only: with a library loaded in two regions, or
\* a listener that claims, TLC finds a counterexample.
CurrentSynced ==
  \A t \in Thread :
    /\ Synced(current[t])
    /\ \A i \in DOMAIN frames[t] : Synced(frames[t][i])

\* The region table implements the grow-only tree of XyTree: every call maps to
\* one leaf being added, to the tree being cleared or planted, or to no change.
Tree == INSTANCE XyTree WITH
          Node <- Key, TreeRoot <- Root, NoNode <- NoRegion,
          parent <- [k \in DOMAIN region |-> region[k].parent],
          kids <- [k \in DOMAIN region |-> region[k].kids]

ImplementsTree == Tree!TreeSpec
===============================================================================
