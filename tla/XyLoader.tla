------------------------------- MODULE XyLoader -------------------------------
(***************************************************************************)
(* The module loader of libxylem: reference counts, cascade unload, reload *)
(* and the loads that fail half-way.                                       *)
(*                                                                         *)
(* One thread.  A load runs xy_install of the module, which may load more  *)
(* modules (in any region, through xy_with_region); frames is the stack of *)
(* installs that run.  An install does not load its own library anew, or   *)
(* one whose install waits for it: it would do so again in the next one.   *)
(* Unloads, reloads and shutdown come from outside an install: from the    *)
(* host, or from a listener that the host has called.                      *)
(*                                                                         *)
(* An entry is named by its address, so that a pointer to an entry that    *)
(* was freed is visible.  The allocator does not hand out an address that  *)
(* the parent_entry of a loaded module still holds.  File names resolve to *)
(* the same library throughout.  xy_mod_count and mod_by_region_hd are     *)
(* written by the code and decide nothing.                                 *)
(***************************************************************************)
EXTENDS XySeq, FiniteSets, SequencesExt

CONSTANTS
  Addr,        \* addresses of module entries; bounds the entries at one time
  NULL,        \* the null pointer
  So,          \* shared libraries, by resolved load path
  Region,      \* regions that can exist
  RootRegion,
  NoRegion,    \* the region in the frame of a load that is not a reload
  HasCtx,      \* the libraries with a get_xy_ptr
  CanCopy,     \* the libraries that copy_to_tmp finds a place for
  HasClaim,    \* the libraries with an xy_claim symbol
  MaxRefs,     \* bound: references to one entry
  MaxDepth,    \* bound: nested installs
  Gateable     \* bound: the regions that the host gates

ASSUME AddrAssumption == NULL \notin Addr
ASSUME RegionAssumption == RootRegion \in Region /\ NoRegion \notin Region
ASSUME LibraryAssumption == HasCtx \cup CanCopy \cup HasClaim \subseteq So
ASSUME BoundAssumption == MaxRefs \in Nat \ {0} /\ MaxDepth \in Nat /\ Gateable \subseteq Region

VARIABLES
  regions,     \* the regions that exist
  gated,       \* those with require_claim and a claim handler
  entry,       \* the entries that are allocated
  mod_hd,      \* the table of modules: library and region -> address
  mods,        \* mods_head list of a region
  frames       \* running installs, with the position that a reload restores

tableVars == <<entry, mod_hd, mods>>
vars == <<regions, gated, tableVars, frames>>

Key == So \X Region

\* ctx is what an unload finds there: nothing, the ctx of an image of its own, or
\* the one ctx of all entries opened from the library itself, whose module_path is
\* readable ("shared") or freed ("lost").  The last two fields are history: the
\* loads made outside installs and not yet undone by an unload; and whether the
\* module may outlive its loader, for a second load or because a cascade could not
\* read its path.
Entry ==
  [so : So, region : Region, refcount : 1 .. MaxRefs, parent_entry : Addr \cup {NULL},
   ctx : {"none", "private", "shared", "lost"}, host : 0 .. MaxRefs, outlives : BOOLEAN]

Frame == [mod : Addr, region : Region \cup {NoRegion}, after : Addr \cup {NULL}]

\* xy_loading_mod: the module whose install runs.
xy_loading_mod == IF frames = <<>> THEN NULL ELSE Last(frames).mod

\* xy_reloading: set for the whole load of a reload, nested loads included.
xy_reloading == \E i \in DOMAIN frames : frames[i].region # NoRegion

corm_put(hd, k, a) == [x \in DOMAIN hd \cup {k} |-> IF x = k THEN a ELSE hd[x]]
corm_del(hd, k) == [x \in DOMAIN hd \ {k} |-> hd[x]]

(***************************************************************************)
(* The list of a region                                                    *)
(***************************************************************************)

IsIn(list, a) == \E i \in DOMAIN list : list[i] = a
Position(list, a) == CHOOSE i \in DOMAIN list : list[i] = a
Previous(list, a) ==
  LET i == Position(list, a) IN IF i = 1 THEN NULL ELSE list[i - 1]

module_region_detach(list, a) == Filter(list, Addr \ {a})
module_region_insert_after(list, a, after) ==
  InsertAt(list, IF after = NULL THEN 1 ELSE Position(list, after) + 1, a)

\* Mutant: a new module runs before those that are there.
module_region_append_first(list, a) == module_region_insert_after(list, a, NULL)
module_region_append(list, a) ==
  module_region_insert_after(list, a, IF list = <<>> THEN NULL ELSE Last(list))

(***************************************************************************)
(* Unload                                                                  *)
(***************************************************************************)

\* The children that a cascade may fail to name.  It reads the path in the ctx of
\* the child.  A library without one has no path; a failed load of the same image
\* has freed it, and then the old string may still be there or not.
Unreadable ==
  LET With(x) == {a \in DOMAIN entry : entry[a].ctx = x}
  IN {With("none") \cup X : X \in SUBSET With("lost")}

\* Mutant: the cascade stops at the children.
Dying_one_level(a, U) ==
  {a} \cup {c \in DOMAIN entry \ U : /\ entry[c].parent_entry = a
                                     /\ entry[c].refcount = 1}

\* What goes with the last reference to a, if the cascade misses those in U: the
\* least set with a in it, and with each child of a member that has one reference.
Dying(a, U) ==
  LET Closed(S) ==
        /\ a \in S
        /\ \A c \in DOMAIN entry \ U :
             entry[c].parent_entry \in S /\ entry[c].refcount = 1 => c \in S
  IN {c \in DOMAIN entry : \A S \in SUBSET DOMAIN entry : Closed(S) => c \in S}

Unref(e) == [e EXCEPT !.refcount = @ - 1]
Ref(e, h) == [e EXCEPT !.refcount = @ + 1, !.host = @ + h, !.outlives = TRUE]
LetGo(e) == [e EXCEPT !.host = IF @ = 0 THEN 0 ELSE @ - 1]

module_free_entry(e, D) == [c \in DOMAIN e \ D |-> e[c]]

\* The tables after the entries in D went: a child of one of them that has more
\* references stays and loses one.
Without(D, U) ==
  [entry |-> module_free_entry(
                [c \in DOMAIN entry |->
                   IF entry[c].parent_entry \notin D THEN entry[c]
                   ELSE IF c \in U THEN [entry[c] EXCEPT !.outlives = TRUE]
                   ELSE Unref(entry[c])], D),
   mod_hd |-> [k \in {x \in DOMAIN mod_hd : mod_hd[x] \notin D} |-> mod_hd[k]],
   mods |-> [r \in Region |-> Filter(mods[r], Addr \ D)]]

Become(t) == entry' = t.entry /\ mod_hd' = t.mod_hd /\ mods' = t.mods

\* Mutant: the entry is kept one unload too long.
xy_unload_shared_late(k) ==
  /\ frames = <<>>
  /\ k \in DOMAIN mod_hd
  /\ entry[mod_hd[k]].refcount > 0
  /\ entry' = [entry EXCEPT ![mod_hd[k]] = Unref(@)]
  /\ UNCHANGED <<regions, gated, mod_hd, mods, frames>>

\* xy_unload of a module with several references.
xy_unload_shared(k) ==
  /\ frames = <<>>
  /\ k \in DOMAIN mod_hd
  /\ entry[mod_hd[k]].refcount > 1
  /\ entry' = [entry EXCEPT ![mod_hd[k]] = LetGo(Unref(@))]
  /\ UNCHANGED <<regions, gated, mod_hd, mods, frames>>

\* xy_unload of the last reference.
xy_unload(k) ==
  /\ frames = <<>>
  /\ k \in DOMAIN mod_hd
  /\ entry[mod_hd[k]].refcount = 1
  /\ \E U \in Unreadable :
       Become(Without(Dying(mod_hd[k], U), U))
  /\ UNCHANGED <<regions, gated, frames>>

(***************************************************************************)
(* Load.  t is the state of the tables when the load begins; copy says     *)
(* whether the library is opened from a copy.                              *)
(***************************************************************************)

Now == [entry |-> entry, mod_hd |-> mod_hd, mods |-> mods]

\* A reload opens a unique copy, or the library itself if there is no place for one.
mod_load_open_handle(s, reloading) == reloading /\ s \in CanCopy

\* The regions that a library may end up in: a gate lets it in only by giving it a
\* region of its own.
mod_load_claim_if_needed(s, r) ==
  IF r \notin gated THEN {r} ELSE IF s \in HasClaim THEN Region \ regions ELSE {}

\* The calloc of mod_load_alloc_entry.
calloc(t) == {a \in Addr \ DOMAIN t.entry :
                \A c \in DOMAIN t.entry : t.entry[c].parent_entry # a}

mod_load_alloc_entry(s, c, ctx, h) ==
  [so |-> s, region |-> c, refcount |-> 1, parent_entry |-> xy_loading_mod,
   ctx |-> ctx, host |-> h, outlives |-> FALSE]

mod_load_publish_entry(hd, k, a) == corm_put(hd, k, a)

\* A module that has claimed a region moves to the key of that region.
module_rekey_for_claim(hd, k, new) ==
  IF k = new THEN hd ELSE corm_del(corm_put(hd, new, hd[k]), k)

\* The ctx of the new entry.
mod_load_bind_xy(s, copy) ==
  IF s \notin HasCtx THEN "none" ELSE IF copy THEN "private" ELSE "shared"

\* _xy_init stores a path in the ctx that all entries of the image share, and an
\* abort frees it: x is "shared" or "lost".
_xy_init(e, s, copy, x) ==
  [a \in DOMAIN e |-> IF e[a].so = s /\ ~copy /\ e[a].ctx \in {"shared", "lost"}
                      THEN [e[a] EXCEPT !.ctx = x] ELSE e[a]]

\* Mutant: the abort forgets the table.
mod_load_abort_published(t, s, c, copy) ==
  /\ entry' = _xy_init(t.entry, s, copy, "lost")
  /\ \E a \in calloc(t) : mod_hd' = mod_load_publish_entry(t.mod_hd, <<s, c>>, a)
  /\ mods' = t.mods
  /\ UNCHANGED <<gated, frames>>

\* The load fails after the context was bound: the entry is taken out of the tables
\* again and freed, with the path that ctx->module_path now points to.
mod_load_abort(t, s, c, copy) ==
  /\ entry' = _xy_init(t.entry, s, copy, "lost")
  /\ \E a \in calloc(t) :
       mod_hd' = corm_del(mod_load_publish_entry(t.mod_hd, <<s, c>>, a), <<s, c>>)
  /\ mods' = t.mods
  /\ UNCHANGED <<gated, frames>>

\* The library does not open, or its context does not fit the host (XY_ERR_ABI):
\* the load ends before it has touched anything that others see.
mod_load_check_ctx_abi(t) == Become(t) /\ UNCHANGED <<regions, gated, frames>>

\* The claim is refused, by the gate, by its handler or for lack of a slot.
mod_load_refused(t, s, r, copy) ==
  /\ r \in gated
  /\ mod_load_abort(t, s, r, copy)
  /\ UNCHANGED regions

\* The library has no xy_install; the region it has claimed stays.
mod_load_no_install(t, s, r, copy) ==
  \E c \in mod_load_claim_if_needed(s, r) :
    /\ mod_load_abort(t, s, c, copy)
    /\ regions' = regions \cup {c}

\* The entry is allocated, published, bound, moved to the region it claims and
\* appended to the list there; then xy_install starts.
mod_load_run_install(t, s, r, copy, h, frame) ==
  \E c \in mod_load_claim_if_needed(s, r), a \in calloc(t) :
    /\ Len(frames) < MaxDepth
    /\ entry' = [x \in DOMAIN t.entry \cup {a} |->
                   IF x = a THEN mod_load_alloc_entry(s, c, mod_load_bind_xy(s, copy), h)
                   ELSE _xy_init(t.entry, s, copy, "shared")[x]]
    /\ mod_hd' = module_rekey_for_claim(
                   mod_load_publish_entry(t.mod_hd, <<s, r>>, a), <<s, r>>, <<s, c>>)
    /\ mods' = [t.mods EXCEPT ![c] = module_region_append(@, a)]
    /\ regions' = regions \cup {c}
    /\ frames' = Append(frames, [frame EXCEPT !.mod = a])
    /\ UNCHANGED gated

ByHost == IF frames = <<>> THEN 1 ELSE 0
PlainFrame == [mod |-> NULL, region |-> NoRegion, after |-> NULL]

\* Mutant: the second load is not counted.
mod_load_try_reuse_uncounted(k) ==
  /\ k \in DOMAIN mod_hd
  /\ entry[mod_hd[k]].host < MaxRefs
  /\ entry' = [entry EXCEPT ![mod_hd[k]].host = @ + ByHost]
  /\ UNCHANGED <<regions, gated, mod_hd, mods, frames>>

\* xy_load of a module that is loaded in the region: one more reference.
mod_load_try_reuse_existing(k) ==
  /\ k \in DOMAIN mod_hd
  /\ entry[mod_hd[k]].refcount < MaxRefs
  /\ entry' = [entry EXCEPT ![mod_hd[k]] = Ref(@, ByHost)]
  /\ UNCHANGED <<regions, gated, mod_hd, mods, frames>>

\* xy_load of another: it is installed, or fails.
xy_load(k) ==
  /\ k[2] \in regions
  /\ k \notin DOMAIN mod_hd
  /\ \A i \in DOMAIN frames : entry[frames[i].mod].so # k[1]
  /\ LET copy == mod_load_open_handle(k[1], xy_reloading)
     IN \/ mod_load_check_ctx_abi(Now)
        \/ mod_load_refused(Now, k[1], k[2], copy)
        \/ mod_load_no_install(Now, k[1], k[2], copy)
        \/ mod_load_run_install(Now, k[1], k[2], copy, ByHost, PlainFrame)

(***************************************************************************)
(* Reload                                                                  *)
(***************************************************************************)

\* xy_reload of the last reference: unload, then load, which may fail.
xy_reload(k) ==
  /\ frames = <<>>
  /\ k \in DOMAIN mod_hd
  /\ entry[mod_hd[k]].refcount = 1
  /\ \E U \in Unreadable :
       LET old == mod_hd[k]
           copy == mod_load_open_handle(k[1], TRUE)
           t == Without(Dying(old, U), U)
           frame == [mod |-> NULL, region |-> k[2], after |-> Previous(mods[k[2]], old)]
       IN \/ mod_load_check_ctx_abi(t)
          \/ mod_load_refused(t, k[1], k[2], copy)
          \/ mod_load_no_install(t, k[1], k[2], copy)
          \/ mod_load_run_install(t, k[1], k[2], copy, entry[old].host, frame)

\* xy_reload of a module with several references: the count goes down and up, the
\* entry leaves the list and comes back to its place.
xy_reload_shared(k) ==
  /\ frames = <<>>
  /\ k \in DOMAIN mod_hd
  /\ entry[mod_hd[k]].refcount > 1
  /\ mods' = [mods EXCEPT ![k[2]] =
                module_region_insert_after(module_region_detach(@, mod_hd[k]), mod_hd[k],
                                           Previous(@, mod_hd[k]))]
  /\ UNCHANGED <<regions, gated, entry, mod_hd, frames>>

\* xy_install returns.  At the end of a reload the module that is now found under
\* the old key, if any, moves to the old position.
InstallReturns ==
  /\ frames # <<>>
  /\ LET f == Last(frames)
         k == <<entry[f.mod].so, f.region>>
     IN mods' = IF f.region = NoRegion \/ k \notin DOMAIN mod_hd THEN mods
                ELSE [mods EXCEPT ![f.region] =
                        module_region_insert_after(
                          module_region_detach(@, mod_hd[k]), mod_hd[k], f.after)]
  /\ frames' = Front(frames)
  /\ UNCHANGED <<regions, gated, entry, mod_hd>>

(***************************************************************************)
(* Gates, and the end                                                      *)
(***************************************************************************)

\* xy_require_claim sets or clears the gate of a region.
xy_require_claim(r) ==
  /\ r \in regions \cap Gateable
  /\ gated' \in {gated \cup {r}, gated \ {r}}
  /\ UNCHANGED <<regions, tableVars, frames>>

Empty == [entry |-> [a \in {} |-> NULL], mod_hd |-> [k \in {} |-> NULL],
          mods |-> [r \in Region |-> <<>>]]

\* All entries and all regions are freed.
xy_shutdown ==
  /\ frames = <<>>
  /\ Become(Empty)
  /\ regions' = {RootRegion}
  /\ gated' = {}
  /\ UNCHANGED frames

Init ==
  /\ regions = {RootRegion}
  /\ gated = {}
  /\ entry = Empty.entry
  /\ mod_hd = Empty.mod_hd
  /\ mods = Empty.mods
  /\ frames = <<>>

Next ==
  \/ \E k \in Key : \/ xy_load(k) \/ mod_load_try_reuse_existing(k)
                    \/ xy_unload(k) \/ xy_unload_shared(k)
                    \/ xy_reload(k) \/ xy_reload_shared(k)
  \/ InstallReturns
  \/ \E r \in Region : xy_require_claim(r)
  \/ xy_shutdown

Spec == Init /\ [][Next]_vars

(***************************************************************************)
(* Properties                                                              *)
(***************************************************************************)

\* Type correctness.
TypeOK ==
  /\ regions \subseteq Region /\ gated \subseteq regions
  /\ DOMAIN entry \subseteq Addr /\ \A a \in DOMAIN entry : entry[a] \in Entry
  /\ DOMAIN mod_hd \subseteq Key /\ \A k \in DOMAIN mod_hd : mod_hd[k] \in Addr
  /\ mods \in [Region -> Seq(Addr)]
  /\ \A i \in DOMAIN frames : frames[i] \in Frame

\* The table and the lists name allocated entries only, every entry once, under
\* its own library and region: no load that failed, cascade or reload leaves a
\* freed module behind for a call or a later unload (_mod_unload, mod_load_abort).
TablesAgree ==
  /\ \A k \in DOMAIN mod_hd :
       mod_hd[k] \in DOMAIN entry /\ k = <<entry[mod_hd[k]].so, entry[mod_hd[k]].region>>
  /\ \A a \in DOMAIN entry :
       /\ <<entry[a].so, entry[a].region>> \in DOMAIN mod_hd
       /\ mod_hd[<<entry[a].so, entry[a].region>>] = a
       /\ IsIn(mods[entry[a].region], a)
  /\ \A r \in Region : \A i \in DOMAIN mods[r] :
       /\ mods[r][i] \in DOMAIN entry /\ entry[mods[r][i]].region = r
       /\ \A j \in DOMAIN mods[r] : mods[r][i] = mods[r][j] => i = j

\* The count of a module covers the references the host has not returned and the
\* one of the module that loaded it first: a cascade never takes a module that the
\* host still holds, and an unload by the host never takes one that a loaded
\* parent needs (_mod_unload, mod_load_try_reuse_existing).
CountsCover ==
  \A a \in DOMAIN entry :
    entry[a].refcount >=
      entry[a].host + IF entry[a].parent_entry \in DOMAIN entry THEN 1 ELSE 0

\* A module whose loader is gone had a second loader, or was out of the cascade's
\* reach: at every depth, what only the unloaded module needed goes with it
\* (the cascade of _mod_unload).
ChildrenGo ==
  \A a \in DOMAIN entry :
    entry[a].parent_entry \notin DOMAIN entry \cup {NULL} => entry[a].outlives

\* While the install of a reload runs, the neighbour that xy_reload remembers by its
\* address (insert_after) is still an entry of that region.
PositionAlive ==
  \A i \in DOMAIN frames :
    frames[i].after # NULL => IsIn(mods[frames[i].region], frames[i].after)
===============================================================================
