-------------------------------- MODULE XyLoop --------------------------------
(***************************************************************************)
(* The loops of xy_dispatch while listeners change what they run over.     *)
(*                                                                         *)
(* A call takes a pointer to the hook vector of the calling region and the *)
(* number of its slots, and keeps both while listeners load, unload and    *)
(* reload modules and call the hook again; a nested call may rebuild that  *)
(* very vector, in the same block of memory or in a new one.               *)
(* xy_call_self follows the list of the region's own modules instead.      *)
(*                                                                         *)
(* XyDispatch says what invalidates a vector and that a rebuild collects   *)
(* the modules of the subtree in walk order; here that is taken for        *)
(* granted, and the memory the loops read is what the model is about.      *)
(* There is one hook, every module listens to it, and the regions do not   *)
(* change.  A module entry is named by the number of its allocation, so    *)
(* that a freed one is never mistaken for a later one.                     *)
(***************************************************************************)
EXTENDS XySeq, FiniteSets, SequencesExt

CONSTANTS
  Region,
  Walk,         \* per region: the regions of its subtree in walk order, itself first
  FirstCap,     \* slots of the first block of a vector (8 in the code)
  MaxEntries,   \* bound: loads
  MaxDepth,     \* bound: nested calls
  Careful       \* the program spares the loops that run; see Spared and MaySettle

ASSUME WalkAssumption ==
  /\ Walk \in [Region -> Seq(Region)]
  /\ \A r \in Region : Len(Walk[r]) > 0 /\ Walk[r][1] = r /\ IsInjective(Walk[r])
ASSUME CapAssumption == FirstCap \in Nat \ {0}
ASSUME CarefulAssumption == Careful \in BOOLEAN

VARIABLES
  mods,     \* per region: the list from mods_head to mods_tail
  home,     \* per entry, in order of allocation: region_entry
  slots,    \* per region: what was written to the block of the vector, slots beyond
            \* the count included
  count,    \* per region: cache->count
  cap,      \* per region: cache->cap
  block,    \* per region: the block cache->slots points to, by the number of moves
            \* under a running loop
  fresh,    \* per region: region_gen = dispatch_gen
  stack     \* the running dispatches, outermost first

listVars == <<mods, home>>
cacheVars == <<slots, count, cap, block, fresh>>
vars == <<listVars, cacheVars, stack>>

Entry == 1 .. Len(home)
Alive(e) == e \in Entry /\ \E i \in DOMAIN mods[home[e]] : mods[home[e]][i] = e
Above(r) == {a \in Region : \E i \in DOMAIN Walk[a] : Walk[a][i] = r}

Depth == Len(stack)
Top == stack[Depth]

\* Module or host code runs in the host, or in a listener that was entered.
MayCall == stack # <<>> => Top.inside

(***************************************************************************)
(* The vector                                                              *)
(***************************************************************************)

\* What region_rebuild_subtree_mods collects.
Subtree(r) == FlattenSeq([i \in DOMAIN Walk[r] |-> mods[Walk[r][i]]])

\* The capacity doubles until n slots fit.
Doubled(c, n) ==
  LET size[k \in 0 .. n] ==
        IF k = 0 THEN c ELSE IF size[k - 1] = 0 THEN FirstCap ELSE 2 * size[k - 1]
  IN size[CHOOSE k \in 0 .. n : size[k] >= n /\ \A j \in 0 .. k - 1 : size[j] < n]

\* A loop over the vector runs: only then does it matter what its slots held before, and
\* which block they are in.
Looped(r) == \E d \in 1 .. Depth : stack[d].region = r /\ ~stack[d].self

\* The slots from the first on are overwritten; the others keep what they held.
Overwrite(r, new) ==
  [slots EXCEPT ![r] = IF Looped(r)
                       THEN new \o SubSeq(slots[r], Len(new) + 1, Len(slots[r])) ELSE new]

\* Mutant: the vector is written to without a look at its capacity.
region_rebuild_hook_dispatch_uncapped(r, moves) ==
  /\ ~moves
  /\ slots' = Overwrite(r, Subtree(r))
  /\ count' = [count EXCEPT ![r] = Len(Subtree(r))]
  /\ fresh' = [fresh EXCEPT ![r] = TRUE]
  /\ UNCHANGED <<cap, block>>

\* region_rebuild_hook_dispatch: from the first slot on, in the block that is there;
\* if that is too small realloc may move it, and free the old one.
region_rebuild_hook_dispatch(r, moves) ==
  /\ moves => Len(Subtree(r)) > cap[r] /\ Looped(r)
  /\ slots' = Overwrite(r, Subtree(r))
  /\ count' = [count EXCEPT ![r] = Len(Subtree(r))]
  /\ cap' = [cap EXCEPT ![r] = Doubled(cap[r], Len(Subtree(r)))]
  /\ block' = [block EXCEPT ![r] = IF moves THEN @ + 1 ELSE @]
  /\ fresh' = [fresh EXCEPT ![r] = TRUE]

\* region_mark_subtree_dirty: the vectors of the region and of all regions above.
region_mark_subtree_dirty(r) ==
  /\ fresh' = [a \in Region |-> a \notin Above(r) /\ fresh[a]]
  /\ UNCHANGED <<slots, count, cap, block>>

(***************************************************************************)
(* What a careful program leaves alone                                     *)
(***************************************************************************)

\* The slots that a running loop over a vector has still to read.
ToRead(f) == IF f.self THEN {} ELSE (IF f.inside THEN f.pos + 1 ELSE f.pos) .. f.n
Ahead(d) == {slots[stack[d].region][i] : i \in ToRead(stack[d])}

\* The code of an unloaded module stays mapped, and _mod_unload does not ask what runs: a
\* listener may unload or reload any module, its own included.  A careful program frees
\* no entry that a running loop over a vector has still to reach, and not the one that a
\* running loop over a list is at, since that loop reads region_next behind the listener,
Spared(e) ==
  Careful => \A d \in 1 .. Depth : e \notin Ahead(d) /\ (stack[d].self => e # stack[d].me)

\* and does not call the hook where that makes the vector of a running loop move.
MaySettle(r, moves) ==
  (Careful /\ moves) => \A d \in 1 .. Depth : stack[d].region = r => ToRead(stack[d]) = {}

(***************************************************************************)
(* Calls                                                                   *)
(***************************************************************************)

\* A nested call that rebuilds the vector of a loop leaves a mark on it.
MarkRebuilt(r) ==
  [d \in 1 .. Depth |-> IF stack[d].region = r /\ ~stack[d].self /\ ~fresh[r]
                        THEN [stack[d] EXCEPT !.rebuilt = TRUE, !.ran = <<>>] ELSE stack[d]]

Frame(r, self, n, me, b) ==
  [region |-> r, self |-> self, n |-> n, pos |-> 1, me |-> me, block |-> b,
   inside |-> FALSE, ran |-> [e \in Entry |-> 0], rebuilt |-> FALSE]

\* xy_call in region r, up to its loop: the vector is rebuilt if it is out of date.
xy_call(r, moves) ==
  /\ MayCall
  /\ Depth < MaxDepth
  /\ Depth > 0 => r = home[Top.me]
  /\ IF fresh[r] THEN ~moves /\ UNCHANGED cacheVars
                 ELSE MaySettle(r, moves) /\ region_rebuild_hook_dispatch(r, moves)
  /\ stack' = Append(MarkRebuilt(r), Frame(r, FALSE, count'[r], 0, block'[r]))
  /\ UNCHANGED listVars

\* The entry behind e in its list; 0 is NULL.
region_next(e) ==
  LET l == mods[home[e]]
      i == CHOOSE i \in DOMAIN l : l[i] = e
  IN IF i < Len(l) THEN l[i + 1] ELSE 0

\* xy_call_self: no vector, the loop starts at the head of the list.
xy_call_self(r) ==
  /\ MayCall
  /\ Depth < MaxDepth
  /\ Depth > 0 => r = home[Top.me]
  /\ stack' = Append(stack, Frame(r, TRUE, 0, IF mods[r] = <<>> THEN 0 ELSE mods[r][1], 0))
  /\ UNCHANGED <<listVars, cacheVars>>

SetTop(f) == stack' = [stack EXCEPT ![Depth] = f]

\* The loop has one more module to run.
AtModule == stack # <<>> /\ ~Top.inside /\ IF Top.self THEN Top.me # 0 ELSE Top.pos <= Top.n

\* The memory that the next step of the loop reads has not been freed: the block of the
\* vector and the entry in its slot, or the entry of the list, which the loop reads before
\* its listener (ctx) and behind it (region_next).
ReadsAlive ==
  IF Top.self THEN Top.me # 0 => Alive(Top.me)
  ELSE AtModule => Top.block = block[Top.region] /\ Alive(slots[Top.region][Top.pos])

Enter ==
  /\ AtModule
  /\ ReadsAlive
  /\ LET e == IF Top.self THEN Top.me ELSE slots[Top.region][Top.pos]
     IN SetTop([Top EXCEPT !.inside = TRUE, !.me = e,
                           !.ran = [k \in DOMAIN Top.ran |->
                                     IF k = e THEN Top.ran[k] + 1 ELSE Top.ran[k]]])
  /\ UNCHANGED <<listVars, cacheVars>>

\* The listener returns; region_next is read only now.  Like Enter, the model stops where
\* the code reads freed memory.
Leave ==
  /\ stack # <<>>
  /\ Top.inside
  /\ ReadsAlive
  /\ SetTop(IF Top.self THEN [Top EXCEPT !.inside = FALSE, !.me = region_next(Top.me)]
                        ELSE [Top EXCEPT !.inside = FALSE, !.me = 0, !.pos = Top.pos + 1])
  /\ UNCHANGED <<listVars, cacheVars>>

Finish ==
  /\ stack # <<>>
  /\ ~Top.inside
  /\ ~AtModule
  /\ stack' = SubSeq(stack, 1, Depth - 1)
  /\ UNCHANGED <<listVars, cacheVars>>

(***************************************************************************)
(* Modules                                                                 *)
(***************************************************************************)

Without(r, e) == Filter(mods[r], Entry \ {e})

\* Mutant: the regions above are not told.
mod_load_quiet(r) ==
  /\ MayCall
  /\ Len(home) < MaxEntries
  /\ home' = Append(home, r)
  /\ mods' = [mods EXCEPT ![r] = Append(@, Len(home) + 1)]
  /\ fresh' = [fresh EXCEPT ![r] = FALSE]
  /\ UNCHANGED <<slots, count, cap, block, stack>>

\* The new entry goes to the end of the list of its region.
mod_load(r) ==
  /\ MayCall
  /\ Len(home) < MaxEntries
  /\ home' = Append(home, r)
  /\ mods' = [mods EXCEPT ![r] = Append(@, Len(home) + 1)]
  /\ region_mark_subtree_dirty(r)
  /\ UNCHANGED stack

\* Mutant: the regions above are not told.
mod_unload_quiet(e) ==
  /\ MayCall
  /\ Alive(e)
  /\ Spared(e)
  /\ mods' = [mods EXCEPT ![home[e]] = Without(home[e], e)]
  /\ fresh' = [fresh EXCEPT ![home[e]] = FALSE]
  /\ UNCHANGED <<home, slots, count, cap, block, stack>>

\* The last reference to an entry goes: it leaves the list and is freed.
mod_unload(e) ==
  /\ MayCall
  /\ Alive(e)
  /\ Spared(e)
  /\ mods' = [mods EXCEPT ![home[e]] = Without(home[e], e)]
  /\ region_mark_subtree_dirty(home[e])
  /\ UNCHANGED <<home, stack>>

\* xy_reload: a new entry takes the place of the old one.
xy_reload(e) ==
  /\ MayCall
  /\ Alive(e)
  /\ Spared(e)
  /\ Len(home) < MaxEntries
  /\ home' = Append(home, home[e])
  /\ mods' = [mods EXCEPT ![home[e]] =
                [i \in DOMAIN mods[home[e]] |->
                   IF mods[home[e]][i] = e THEN Len(home) + 1 ELSE mods[home[e]][i]]]
  /\ region_mark_subtree_dirty(home[e])
  /\ UNCHANGED stack

Init ==
  /\ mods = [r \in Region |-> <<>>]
  /\ home = <<>>
  /\ slots = [r \in Region |-> <<>>]
  /\ count = [r \in Region |-> 0]
  /\ cap = [r \in Region |-> 0]
  /\ block = [r \in Region |-> 0]
  /\ fresh = [r \in Region |-> FALSE]
  /\ stack = <<>>

Next ==
  \/ \E r \in Region, moves \in BOOLEAN : xy_call(r, moves)
  \/ \E r \in Region : xy_call_self(r)
  \/ Enter
  \/ Leave
  \/ Finish
  \/ \E r \in Region : mod_load(r)
  \/ \E e \in Entry : mod_unload(e)
  \/ \E e \in Entry : xy_reload(e)

Spec == Init /\ [][Next]_vars

(***************************************************************************)
(* Properties                                                              *)
(***************************************************************************)

\* Every variable has its type, a vector fits its block, and an entry is on one list
\* at most, once.
TypeOK ==
  /\ home \in Seq(Region)
  /\ mods \in [Region -> Seq(Entry)]
  /\ \A r \in Region : Len(slots[r]) <= cap[r] /\ count[r] <= Len(slots[r])
  /\ \A r \in Region : \A i, j \in DOMAIN mods[r] :
       home[mods[r][i]] = r /\ (mods[r][i] = mods[r][j] => i = j)

\* Three rules are enough: whatever else listeners load, unload (themselves too), reload
\* and call, the innermost loop reads a live block and a live entry in its next step, in
\* front of a listener and behind it, as long as nobody frees an entry that a loop over a
\* vector has still to reach or that a loop over a list is at, or moves such a vector.
LoopReadsAlive == stack # <<>> => ReadsAlive

\* At the end of a call every module of its scope that was there all the time has run
\* exactly once, although others came and went and changed places around it; unless
\* a nested call has rebuilt the vector under the loop.
AllRanOnce ==
  (stack # <<>> /\ ~Top.inside /\ ~AtModule /\ ~Top.rebuilt) =>
    \A e \in DOMAIN Top.ran :
      (Alive(e) /\ IF Top.self THEN home[e] = Top.region ELSE Top.region \in Above(home[e]))
        => Top.ran[e] = 1

(***************************************************************************)
(* What the documentation says                                             *)
(***************************************************************************)

\* xy_unload "Invalidates cached function pointers across all other modules": no slot
\* that a running loop has still to read leads to an unloaded module.
UnloadInvalidates == \A d \in 1 .. Depth : \A e \in Ahead(d) : Alive(e)
===============================================================================
