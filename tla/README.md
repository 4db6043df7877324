# libxylem: a verification project

libxylem loads modules (shared libraries) into a tree of *regions* and
dispatches *hook* calls to the listeners of a region and everything below it.
This directory holds TLA+ models of its core, the TLC configurations that check
them, and TLAPS proofs of most of what they check, for every size of the system. `PROJECT.json` lists the
components, the runs, the source lines behind every definition, the mutants
that show that each property can fail, the hazards and the theorems.

## The system

| Component | State | Operations | Model |
|---|---|---|---|
| Region table (`libxylem.c`, `libxylem-runtime.c`) | entries by (id, prefix width) with parent, children, depth, claim handler and gate; the current region of each thread, as an id *and* an entry | `xy_claim_at`, `xy_require_claim`, `xy_with_region`, `xy_region_at`, claims made by loads, bootstrap, `xy_shutdown` | `XyTree`, `XyRegion`, `XyRegionProofs` |
| Dispatch caches and denies (`libxylem.c`, `libxylem-dispatch.c`) | subtree vector and per-hook vector of every region with their generation and dirty marks; cached symbols and implementation bits of every module; deny sets and flags | `xy_call` (rebuild), `xy_areg`, `xy_deny`, and what load, unload, reload and new regions invalidate | `XyDispatch`, `XyDispatchProofs` |
| Hook call (`libxylem-dispatch.c`) | running dispatches, current region, `xy_last_*` (per thread), `xy.adapter` (per process), `region_state` (per library); the vector or list each loop reads | `xy_call`, `xy_call_self`, `xy_last`, a listener's own calls, claims, loads and unloads | `XyCall`, `XyCallProofs`, `XyLoop`, `XyLoopProofs` |
| File watcher (`libxylem-watch.c`) | flag, descriptors, thread, table of watched files, lock | `xy_watch_start/stop/add/remove`, the watcher thread | `XyWatch`, `XyWatchProofs` |
| Module loader (`libxylem-module.c`, `libxylem.c`) | entries by path and region, reference counts, parent entries, `dlopen` handles | `xy_load`, `xy_unload`, `xy_reload`, abort of a load | `XyLoader`, `XyLoaderProofs`; the region it runs in in `XyRegion`, what it invalidates in `XyDispatch` |
| Runtime life cycle (`libxylem-runtime.c`) | `xy_inited` | bootstrap, teardown | in `XyRegion` |
| Path resolution, context ABI check | none | string and file-system work, one comparison per load | a load that fails in `XyLoader` |
| WASM runtime (`libxylem-wasm.c`), with the adapters of the hook macros (`xy.h`) | flat hook table, one set of `xy_last` globals, the id cached in each adapter | `xy_areg`, `xy_call`, `xy_last` | `XyWasm`, `XyWebProofs` |
| JavaScript bridge (`bridge.js`) | map of loaded instances, the loads under way | `wasm_xy_load_module` (async), `wasm_xy_unload_module`, `destroy` | `XyBridge`; with `XyWasm` in `XyWeb`, `XyWebProofs` |
| `XylemBus` (`index.js`), Node and Rust bindings | an array of callbacks per name; a table of names | `register`, `unregister`, `call` | not modelled |

How they interact. A load runs `xy_install` of the module with the current
region switched to the region the module is loaded into, which it may first
claim; the module calls back into the library (more loads, claims, denies, hook
registrations). Each of these marks caches of a region *and its ancestors*
stale, because a vector lists a whole subtree. A call reads the vector of the
calling region and runs its listeners, each in its own region; listeners call
again, and load and unload what a running loop has still to reach. The watcher
thread calls `xy_reload` under its own lock. In a page there is one thread: a hook
call runs to its end, and what follows an `await` of a load runs between calls.

What is hard. Nothing in the core takes a lock; what interleaves are callbacks,
nested calls and the state they leave behind (thread-local, per process, or in
a context that all entries of one library share). Caches are invalidated along
the tree in one direction. Searches rely on an order of widths that every way of
creating a region must keep. The watcher has real threads. Each of these is a
hazard in `PROJECT.json`, with the properties that would catch it going wrong.

## Modules

**XyTree** is what the rest of the library relies on in the region table: a
rooted tree that grows by leaves, each put in front of its siblings, and is only
cleared as a whole. `XyRegion` implements it (`ImplementsTree`), `XyDispatch`
extends it.

**XyRegion** has one entry per (id, width). An id is a set of bit positions, so
that masking is intersection and the slot number of a new region is a union; the
code's 64 is the constant `W`. Actions are calls: `xy_claim_at` (existing and
new), `xy_require_claim`, `xy_with_region`, the two ways a load enters a region,
`xy_shutdown`, and the bootstrap that any call performs. The calls that run
caller code in the middle push the current region on a stack (`frames`) and pop
it in `Return`. A dispatch is there too as far as it moves the current region:
`xy_dispatch` keeps the id and the calling region, `EnterListener` makes the entry of
a module below current, with the id in the `ctx` of its library, and `Return` restores
the id of the dispatch with the entry that was current before the listener;
`FinishDispatch` leaves what is current alone. With `Tidy` the program loads a library
in one region only, and a listener of the calling region does not claim, so that the
next switch has the right id to restore. Which modules listen is not modelled: any
region below the calling one may have listeners, in any order. A pointer to an entry that `xy_shutdown` freed is the value
`Freed`; where the code would read through one, the model either branches both
ways (bootstrap) or disables the call. `xy_claim_at_new` uses the definition of
the nearest ancestor; `SearchFindsDeepest`, which is checked and proved, says that the
two recursive, pruned walks compute it and the deepest cover.

**XyDispatch** has the tree, the module list of every region, and the caches. A
generation number only decides whether a vector is read or rebuilt, so `slots`
holds a vector exactly if its generation is the region's (the counters are 64
bits wide). A vector maps its entries to the cached callback, which may be NULL.
`xy_call` is the part of a call that changes caches. Loads are reduced to the
entry they add, reloads to the replacement in place; both ways a library can be
opened (shared image, unique copy) matter for the cache that an unload clears.

**XyCall** takes regions, modules and vectors as constants and models the
dispatches that run on them: `Call`, `CallRefused`, `Enter`, `Leave`, `Finish`
and `ClaimAt`. The caller may pass NULL for the result (`retp`), or the hook has none:
then the results of the listeners are lost, and `xy_last` answers `XY_OK` and writes
nothing (`Unwritten`). `Valued` has the hooks that return a value. A library has one `ctx`: `CtxRegion` is the region in it,
`region_state` the entry whose state it points to and the thread that wrote it.
`last_retp` names the dispatch whose return variable it points to, so that a
dangling pointer is visible.

**XyLoop** takes the opposite view: the regions are constant and every module
listens to the one hook, but the lists and vectors change while loops run over
them. An entry is named by the number of its allocation and a block of slots by
the number of its moves, so a read of freed memory is visible in `ReadsAlive`. A
load appends, an unload takes out, a reload replaces in place, and each marks the
vectors of the region and of those above stale; the next call rebuilds its vector
in the same block or, when that is too small, in one that `realloc` chose. With
`Careful` the program keeps two rules, and these only: it does not unload or reload a
module that a running loop over a vector has still to reach, nor the one that a loop of
`xy_call_self` is at, whose `region_next` is read behind the listener (`Spared`), and it
does not make the vector of a loop that has slots to read move (`MaySettle`). Beyond that a
listener may unload or reload what it likes, itself included: `_mod_unload` does not ask
what runs, and the code stays mapped (`RTLD_NODELETE`). `XyDispatch` is where denies, missing symbols and
the order of the walk are checked.

**XyLoader** names an entry by its address, so that `parent_entry` and the
position a reload remembers can outlive what they point to. A load is one action
up to the start of `xy_install`, which may load more (`frames`); its failures
(`mod_load_check_ctx_abi`, `mod_load_refused`, `mod_load_no_install`) go through
the same publishing and `mod_load_abort` as in the code. The cascade of an unload
is the least set closed under "child with one reference" (`Dying`); children with
more lose one (`Without`). The cascade names a child by the path in its `ctx`,
which all entries of one image share and which an aborted load frees: the lookup
of such a child may succeed or fail. Three assumptions: an install makes loads
only, and not of a library whose install is running; the allocator does not hand
out an address that a loaded module still has as its `parent_entry`; a file name
resolves to the same library throughout. `host` and `outlives` are history. The host sets gates of the regions in `Gateable` only.

**XySeq** has `Filter`, the elements of a list that are in a set, as a recursive
function; `XyLoader`, `XyCall` and `XyLoop` use it and `XySeqProofs` says what it returns.

**XyWatch** models a section under `g_mu` as one step, except the one in which
`xy_reload` runs. Descriptors and threads are numbered by the start that made
them. A start numbers the files that exist in the order of the table, which is any
order (`Rewatches`). The kernel is external: watch descriptors are not reused, equal events at
the end of the queue are merged, a file renamed to a watched name ends the watch
with `IN_IGNORED`. `IN_MOVED_TO` is only sent for directories, so the branch
that would watch the file again is in the model but never taken. A queue
overflow and a failing `strdup` are left out, the files are different inodes with one
spelling each (the kernel has one watch per inode, the table one entry per spelling, so
removing one of two names would end the watch of the other), and module code that runs inside
a reload makes no `xy_watch_*` call (it would wait for its own lock).

**XyWasm** is the dispatcher of the WebAssembly build, which shares no code with the
native one: a table of slots, found by the id that an adapter remembers (if the name
in the slot agrees) or by a search. `Kept` is what is left of a name in the 64 byte
buffer. An adapter has no call function (`XY_DECL`), one that clears the result
because no function is passed to it (`XY_DEF`), or one that runs a listener
(`XY_IMPL`, `XY_LISTENER_TAG`). `Listening` are the adapters that are registered, each
under its own name, as the macros do it; `xy_areg` would take another. A caller may pass
NULL for the result. What listeners return is left out: `last_retp` says whose variable
`xy_last` reads. `malloc` may fail in both branches of `xy_areg`.
`broken` marks a call one of whose listeners has made a call that ran.

**XyBridge** has the loads as async functions that advance from await to await
(`Settle`); everything between two awaits is one step. An instance is named by the
load that made it. Fetching, compiling and side-module code are external and may
fail. `uninstalled`, `destroyed` and `overlapped` are history.

**XyWeb** puts the two into one page: listeners call `xy_load` and `xy_unload`; a
promise is served, and the page acts, only when no hook call is under way.

## Runs

| Run | Instance | Checks |
|---|---|---|
| `regions` | 2-bit ids, every order of claiming 3 regions by calls and loads, handlers, gates, grants, callbacks and dispatches 2 deep, a shutdown | `TypeOK`, `ParentsNarrower`, `KidsMatchParents`, `CurrentSynced`, `AncestorChainComplete`, `SearchFindsDeepest`, `ImplementsTree` |
| `caches` | 3 regions, 2 libraries, 1 hook, 2 entries, 2 denies of either kind | `TypeOK`, `NoDeadModule`, `CacheComplete`, `SubtreeCurrent`, `GateSound`, `Prewarmed` |
| `results` | 2 threads, calls nested 2 deep, one library in 2 regions that share an id, a claiming listener, a refused hook, results that nobody wants | `TypeOK`, `LastIsPredecessor`, `NoDanglingResult`, `RunsInOwnRegion`, `StateFromBelow` |
| `loop` | 2 regions, 4 loads, calls nested 2 deep, vectors that grow from 2 slots | `TypeOK`, `LoopReadsAlive`, `AllRanOnce` |
| `loader` | 3 libraries, 2 regions, 3 entries, 2 references each, installs nested 3 deep, a gate on the root | `TypeOK`, `TablesAgree`, `CountsCover`, `ChildrenGo`, `PositionAlive` |
| `watcher` | 3 files in a table of 2, 2 starts, 2 updates, a second host thread | `TypeOK`, `RunningIsAlive`, `TableMatchesKernel`, `UpdateReloaded`, `StopReturns` |
| `web` | 3 names (one too long), an adapter of each kind, two of them of one name, calls without a variable, a table of 2 slots, calls nested 2 deep, one side module, 2 loads | `TypeOK`, `RunsOwnHook`, `RegisteredIsFound`, `ChainIntact`, `OneInstance`, `UninstalledOnce`, `EveryLoadSettles` |
| `staledeny` | a deny after a call in the region below | refutes `DenyHonoured` |
| `owndeny` | a region that denies a library it has loaded | refutes `OwnRegionSpared` |
| `sharedlib` | one library in two regions, one of them unloaded | refutes `ListenersCalled` |
| `ahead` | two modules, one unloads the other | refutes `UnloadInvalidates` |
| `race` | two threads that start and stop the watcher | refutes `SafeFromAnyThread` |

The bounds and why they do. With 2-bit ids and 3 regions there are nested
regions of each width, regions that share an id, siblings that overlap in both orders of
creation, and identities of the full width, for which the number of slots wraps to 0;
two frames are a callback in a listener, or a listener in a callback. One thread is
enough there: threads share the table, and whatever another one adds to it can also be
added by a callback. What depends on the width, on more threads or on more regions as such
is proved; so is what a shutdown under the feet of another thread leaves in step. Three regions give a chain and two siblings: an
invalidation that stops early, or goes the wrong way, shows on them; two entries
put one library twice in the tree or two libraries in one region, and two denies
let one be taken away while the other stays. Nesting of two lets the inner call end
while the outer goes on, and the third listener does not differ from the second. In
`results` one hook has a return value, which the caller may not want, and one has none.
Four loads in `loop` fill a vector, make it grow and leave a module behind the
running one that another takes the place of. Three entries with
three libraries make a chain of loaders, and one library in two regions; one of
the libraries claims and is reloaded from a copy, one cannot be copied, one has no
`ctx`. Two references tell a module that others hold from one that goes. Two updates put two
events in one buffer; two starts let a stop overlap the next start. In `web` the
table has fewer slots than there are names, the cut name equals another, and the
adapters written by hand start with the id of a slot they may not belong to: one has the
name of the listener, and is called with and without a variable, the other a name that
nobody implements. Two loads can overlap, follow each other or be overtaken by an unload.
Symmetry is used in `caches`, where two regions and two libraries are
interchangeable, in `results` for the threads and in `loader` for the addresses; no liveness is checked there.
`watcher` and `race` may stop: no host has to call anything and the updates are
bounded, so deadlock is not checked there.

Fairness is assumed in `XyWatch` and `XyWeb`. In `XyWatch` the watcher thread is
scheduled, reloads return, and a thread inside `xy_watch_stop` goes on: the
guarantees of the scheduler and of a mutex that nobody holds forever. In `XyWeb`
the loop of a call goes on (weak); a listener may call hooks as often as it likes,
but if it has the control again and again it returns some day (strong, for each
depth, since a nested call takes the control away); and a promise that is awaited
settles, with a value or a rejection, and is served by the event loop, which hook
calls interrupt (strong). No call by a host, no event of a page and no update of a
file is assumed to happen.

### What the violations show

- `staledeny`: a module deny bumps the generation of the denying region and its
  ancestors, but the regions it is for are below; they keep their vectors.
- `owndeny`: `region_rebuild_hook_dispatch` and `module_denied_by_ancestors` test the
  whole chain of ancestors, the calling region included, while the check for hooks stops
  before it: a region that denies a library no longer calls its own listener from it,
  although `xy.h:447` says that "A module's own region is never blocked by its own deny."
- `sharedlib`: the clearing of cached pointers leaves the implementation bit, so
  nothing is resolved again and the listener is silently skipped.
- `ahead`: an unload changes the generation of a vector, not the vector, and not
  what a loop has taken from it: the loop reads the freed entry.
- `race`: the watcher can be said to run with closed descriptors.

### Other places where text and code part

Met while modelling, visible in the definitions, and without a run of their own:

- `libxylem.c:1508` "exactly one iteration": with a grant up to 64 bits the number
  of slots wraps to 0 and the loop runs through all values; after the parent's own
  suffixes it hands out identities outside (`SlotOffsets`, and the condition in
  `ChildInsideParent`).
- `libxylem-module.c:138` "Children loaded by this module are cascade-unloaded": not
  a child without `ctx`, nor one that the host has reloaded (its `parent_entry` is
  then NULL), nor one that another module has loaded too, once both are gone.
- `xy.h:714` "Reload a module in place": with two references nothing is loaded
  (`xy_reload_shared`), a gate set in between sends the module to another region,
  and a load that fails leaves no module at all.
- `libxylem-internal.h:171` "Two siblings must never be parent and child": a wide
  prefix claimed late stays next to the narrower ones inside it
  (`xy_claim_at_new` moves nothing). The searches cope (`SearchFindsDeepest`).
- `xy.h:514` children "in allocation order": `AddRegion` prepends, as the code does.
- `docs/api.md:75` "Deny a hook name or module path within the caller's current region and
  all its descendants (including the caller's own region)": for hooks the caller's region
  is left out, as `xy.h:446` says; `GateSound` in `caches` states that only strict
  ancestors count.
- `xy.h:731` "After this, xy_load() can be called again": not in a thread other
  than the one that called `xy_shutdown`; its current entry is `Freed`.
- `xy.h:699` describes a veto by `xy_uninstall` that `_mod_unload` does not have.
- `libxylem-watch.c:17` counts on `IN_MOVED_TO` for a file renamed into place.
- `libxylem.c:61` "id and a direct pointer kept in sync": a dispatch enters a listener with
  the id of its `ctx`, which for a library loaded in two regions is that of the latest
  load, and leaves it with the id that it began with and the entry before the listener,
  which part when a listener of the calling region has claimed. With `Tidy = FALSE` TLC
  refutes `CurrentSynced`, and each of the two is enough.
- `xy-mod.h:236` `XY_RS` is "this module's current region state", "valid only during
  hook dispatch or xy_install": after a listener's own call has run another entry of
  the library it is that entry's, of the same region or one below (`StateFromBelow`),
  and nothing sets it before `xy_install`.
- `xy.h:399` a call "calls all modules that implement the named hook": a nested call
  of the same hook after a load or unload rebuilds the vector under the outer loop,
  which then skips a listener, runs one twice, or reads a block that `realloc` has
  freed (`AllRanOnce` and `MaySettle`).
- `xy.h:401` "The return value is from the last module that ran": in the WASM build the
  adapter of `XY_DEF` is registered as a listener, and clears the result if it comes
  last (`Clear`).
- `README.md:88` promises listener chaining in WASM; after a nested call `xy_last` reads
  through the pointer of the inner call (`BreakChain`).
- `xy.h:679` "Subsequent loads of the same path into the same region are no-ops": in a
  page two loads that overlap both install the module (`overlapped`). And since the
  import is an async function, `xy_load` answers `XY_OK` whatever becomes of the load
  (`xy_load` in `XyWeb`).
- Hook names of 64 bytes and more are registered in the WASM table but never found
  (`Kept`), and take a slot each time.
- `npm/README.md:47` registers hooks through `xy_areg` with a NULL adapter, which
  `libxylem-wasm.c:43` rejects.
- The id that is all ones at full width is `XY_REGION_INVALID` and can be claimed.

## Proofs

Each proof module states, for every value of the constants of its model, what the runs
check on small instances. A theorem is named after its property (`NoDeadModule`,
`NoDeadModuleCorrect`), and rests on an invariant that every step keeps, with one lemma
per operation. The assumptions are those that the models name; beyond types, these
carry weight: what is left of a cut name is not cut again (`Kept` is idempotent: the
name is in the buffer already), and the WASM table has a slot. The bound `MaxWds` covers
the table, so that a start never runs out of descriptors. Bounds are numbers, of any
size.

### Regions

`XyRegionProofs` proves, for every width, set of threads and bound:
`TypeCorrect`, `ParentsCorrect`, `PrefixCorrect` (`IdsAligned` and
`ChildInsideParent`), `TreeCorrect` (`KidsMatchParents`), `DepthCorrect`
(`DepthBounded`), `CurrentCorrect` (for `Tidy` programs), `ChainCorrect` (`AncestorChainComplete`),
`SearchCorrect` (`SearchFindsDeepest`), and `RegionImplementsTree`, the refinement of
`XyTree`. The assumptions are those of
`XyRegion`: the width is positive, the pointers NULL and `Freed` are not
identities, handlers are flags and bounds are numbers.

The argument. None of the properties is inductive alone. `KidsMatchParents`
needs that a new identity is not yet in the table *and* that its parent is;
`ParentsNarrower` needs that every creator extends the width of a region that
exists; `CurrentSynced` needs the saved regions to be in step too, because a
return makes one of them current, and it needs more where a dispatch is under way:
whenever a loop goes on, the id that it will restore is the one that is current then
(`LoopKept`), which a listener that claims between two switches would break. `IInv` joins a type part, the tree properties
(`TreeInv`) and the synchronisation of current and saved regions. Both creators
of regions end in `AddRegion`, so one lemma (`AddRegionKeepsTree`) shows that
adding a fresh, aligned identity below a narrower region that covers it (unless
all bits are used) keeps the tree, and `ClaimForLoadAdds` and the step for
`xy_claim_at_new` show that they meet its hypotheses. The gate and handler
updates are `SetFlagsKeepsTree`; everything that makes an entry current is
`SetCurrentKeepsSync`. The refinement uses the same split: `AddRegionGrows` for
`Grow`, `SetFlagsStutters` for the rest.

The walks are recursive functions over the tree, and each says what it means only once
such a function is known to exist. Depth and width both grow from a parent to a child, so
a walk up has the depth, and a walk down what is left of the width, as a rank to descend
along (`RankedExists`). `ChainCorrect`: the array of ancestors has one place more than
an id has bits, and no region is deeper than it is wide, so the root is never cut off.
`SearchCorrect`: a walk that does not descend past a width visits exactly the regions
that are no wider, *because* a child is wider than its parent (`VisitedFacts`; the order of
the claims does not matter), and the running best of a fold over what is visited ends as
the widest cover (`BestFacts`). So the definition of the nearest ancestor that
`xy_claim_at_new` uses describes what the code's search returns.

### The JavaScript bridge

`XyWebProofs` proves, for every number of side modules and loads and whatever the
dispatcher does meanwhile, `OneInstanceCorrect` (`OneInstance`) and
`UninstalledOnceCorrect` (`UninstalledOnce`). `OneInstance` does not follow from
itself: a load tests the map when it is called and writes it after its last await,
so the invariant `BridgeInv` must say that in between nothing else gets there. Its
parts: a load under way is the only one of its module, of which the map then has
nothing, unless the module has seen an overlap (`LoadsAlone`); the map leads to
instances of the right module that were made and neither uninstalled nor destroyed
(`MapKnown`), which makes every unload the first of its instance; loads that made an
instance are answered and only instances are uninstalled (`MadeAnswered`,
`OnlyMade`), so that a new instance is a fresh one. There is one lemma per operation
of the bridge (`LoadKeeps`, `WaitKeeps`, `InstantiatedKeeps`, `UnloadKeeps`,
`DestroyKeeps`), and the steps of the dispatcher leave its variables alone. The
assumptions are those of `XyBridge` and `XyWasm`.

### Dispatch caches

`XyDispatchProofs`: `TypeOK`, `NoDeadModule`, `CacheComplete`,
`GateSound`, `Prewarmed`, `SubtreeLists`, `SubtreeCurrent` and `RebuildIsWalk`, for every tree, set of libraries and set of
hooks. A vector that is read without a rebuild says something about the whole subtree, and
a load or unload far below must have marked it; so the invariant follows the chain of
marks. A subtree vector that is not dirty lists exactly the modules below its region, and
no hook vector is fresh over a dirty one (`SubtreeLists`); each chain of ancestors has the
region and the root in it (`Chains`), which is where a mark reaches; what the caches of a
module know of a hook is nothing or the truth (`AllKnown`), which makes a rebuilt vector
complete; and the flag of the root covers every deny (`FlagsCover`), which is `GateSound`.
`MarkKeeps` is the heart: after a change in a region, marking its ancestors restores the
invariant for every region whose subtree has it.

`SubtreeCurrent` adds the order: a vector that is not dirty is what the recursive walk
would yield now, although regions were added since and none of them moved a module.
The model describes a rebuild by the order of the tree; `RebuildCorrect` says that exactly one
list is in that order and that the walk returns it. The argument has three parts.
The lists of children and the chains of ancestors describe one tree (`Shape`), and every vector
that is not dirty is in its order (`Orders`): both are inductive with `IInv`, and a new
region, which comes in front of its siblings, does not change the order of what was
there (`GrowKeepsOrder`). The order has no cycle, since siblings have no descendant in
common (`SiblingsApart`, `BeforeAsymmetric`). And the walk's list is in order, by induction
on how much deeper the tree can get below a region (`CollectStep`, on `Room`). Two
lists in one order that hold the same are the same (`SortedUnique`).

### Hook calls

`XyCallProofs`: `TypeOK`, `LastIsPredecessor`, `NoDanglingResult`, `RunsInOwnRegion`,
`StateFromBelow`, for any number of threads and any depth of calls. The invariant is a statement
about one thread and what is shared (`ThreadInv`), because the steps of others change
only `xy.adapter` and `region_state` under it (`OtherKeeps`). A property about the top of
the stack has to hold again when a nested call ends, so the invariant speaks of every
dispatch: one that has another above it waits in a listener that has called (`Waiting`),
its result is that of the slot before (`FrameOK`), and as long as nobody claims, each one
puts back the region it came from, that of the listener below (`Chained`).
`StateFromBelow` is about the writes of nested calls to what a waiting listener shares with
them: a nested dispatch starts at or below the region of *every* listener that waits for it
(`Nests`), its modules are in that region's subtree, and subtrees nest; so each write
leaves, for each listener that waits and shares the library, a state from below
(`FromBelow`).

### Loops of a call

`XyLoopProofs`: `TypeOK` and `AllRanOnce` for any program, `LoopReadsAlive` and
`UnloadInvalidates` for a careful one (`ASSUME Careful`), for any tree, number of
modules and depth of calls. The hypothesis is needed: the run `ahead` refutes
`UnloadInvalidates` without it. What the theorems add to the runs is that the two rules of
`Careful` are enough however many calls are nested.

The properties are about the loop on top, at its next step. The steps that could
break them are those of other loops, so the invariant says of *every* dispatch on the stack
(`FrameOK`): the entry that a loop over a list is at is alive (`MeOK`), and what a loop over
a vector has still to read is in the block it began with and alive (`AheadOK`), both if the
program is careful; and for the count of runs,
that a vector nobody rebuilt has run exactly its first slots (`VectorRuns`), and a loop over
a list exactly what now stands before its entry (`ListRuns`), which an unload in
front of it, a reload in place and a load at the end leave true. A loop begins with a
vector that was fresh or is rebuilt in the same step, so a fresh vector must hold each
live module of the subtree once (`FreshOK`). That a rebuilt vector fits its
block is a fact about the doubling (`Doubled`), that it holds each module once one
about `FlattenSeq`.

### Module loader

`XyLoaderProofs`: `TypeOK`, `TablesAgree`, `CountsCover`, `ChildrenGo`, `PositionAlive` and
`LoadersFirst`, for any number of libraries, regions and references, and installs
nested to any depth. A reload unloads, loads and moves in one go, through tables that are
never the state; so the invariant takes tables as values (`Good`), and `WithoutGood`,
`InstallGood` and `MoveGood` carry it through the three. A child that a
cascade leaves behind had more than one reference, so for `ChildrenGo` the invariant says
that more than one means a second load (`Counts`); and the host's share of the last
reference, which a reload hands on to the new entry, is at most one by `CountsCover`.
`PositionAlive` is the deep one: `xy_reload` remembers the entry in
front of the module by its address while the cascade frees entries. It survives because
no module stands in a list before one that has loaded it, directly or not (`Ordered`,
with `Reach` as the least closed set): what is in front is not below. And it stays in place
while the install runs, because that of a reload is the outermost and no other module
comes to have its key (`Running`). `XySeqProofs` has the lemmas about `Filter`.

The proof found two places where the model said less than it seemed to: arms of a `CASE`
that overlapped left the value open (what happens to an unreadable child of a dying
module; the context of a library without one). Both are now ordered, as in the code. And
`TablesAgree` used to say only that a key exists for every entry; it now says that the key
leads to it.

### File watcher

`XyWatchProofs`: `TypeOK` and `TableMatchesKernel` whoever calls, and `RunningIsAlive` if at
most one thread starts and stops the watcher. The run `race` shows that the hypothesis is
needed, and that it is about `RunningIsAlive` only: the table agrees with the kernel even
in a race. For `TableMatchesKernel` the invariant must say that the descriptors in
the table are below the next one that the kernel gives out (`Agree`): an entry whose watch
has ended keeps a number, which a new watch must not get. It also needs that the kernel
sends no `IN_MOVED_TO` for a file: the branch for it would forget the descriptor of a
watch that still exists when the file cannot be watched again (`Event`). For `RunningIsAlive`: a thread that is not gone
is the latest start and selects on its own descriptors, which are the only ones open, and
it is told to wake exactly while somebody stops it (`Lives`).

### WASM dispatcher

Also in `XyWebProofs`: `TypeOK`, `RunsOwnHook`, `RegisteredIsFound`,
`ChainIntact`, for every set of names and adapters and every size of the table. Two slots
may hold the same name, when a long one is cut, so it is not enough that an id which is
believed leads to a slot of the name: it leads to the first one (`FirstIds`), where the
listeners of a name that fits are (`InFirstSlot`).

### What recursive definitions compute

The library's induction theorems cannot be used here, since they take an operator. `XySeqProofs`
states induction over numbers with a *set* as the hypothesis instead
(`LeastNatural`, `IntervalInduction`), and from it that functions exist which satisfy a
recursion along an interval (`IterateExists`) or along a rank on a finite structure
(`RankedExists`). The facts that the other modules use follow: what `Filter` keeps
and in which order, what `FlattenSeq` puts where, and that a list in a given
order is determined by its elements.

### Only model-checked

The liveness properties `UpdateReloaded`, `StopReturns` and `EveryLoadSettles`: fairness and
`ENABLED` are out of reach of this prover. Every invariant of a passing run, and the
refinement, is stated by a theorem. The violations are counterexamples of TLC.

## Not modelled

- `module_load_path`, `search_path_list`, `module_same_file`: strings and the file
  system. That a name may resolve differently at an unload is a hazard without a
  property.
- `xy_install` code that calls `xy_watch_*` during a reload by the watcher (it waits
  for its own thread), and reloads by the watcher while host threads dispatch (a data
  race on every table).
- An allocator that hands out an address which a dangling `parent_entry` names.
- `XylemBus` and the Node binding: a callback array and a name table beside the
  dispatchers. The Rust binding: declarations and code generation. The preprocessor
  part of the hook macros.

## Plan

All models of the inventory are written, and the invariants of all passing runs are
proved. What would come next: `XyLoader` with an allocator that reuses addresses, where a
dangling `parent_entry` may come to name a stranger; `XyWatch` with module code that calls the
watcher.
