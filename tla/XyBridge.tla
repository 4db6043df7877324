------------------------------- MODULE XyBridge -------------------------------
(***************************************************************************)
(* The JavaScript side of the WebAssembly build: xy_load and xy_unload are *)
(* imports that a page implements with fetch and WebAssembly.instantiate.  *)
(*                                                                         *)
(* A load is an async function.  What it does between two awaits is one    *)
(* step here, because a page runs one task at a time; other calls may come *)
(* in between.  An instance is named by the load that made it.  The        *)
(* network, the compiler and the code of the side modules are external:    *)
(* each may succeed or fail, and an awaited promise settles.               *)
(***************************************************************************)
EXTENDS Integers, Sequences

CONSTANTS
  Module,   \* names of side modules
  Load,     \* the calls of wasm_xy_load_module; bounds their number
  NoLoad    \* no entry in the map

ASSUME BridgeAssumption == NoLoad \notin Load

VARIABLES
  memory,         \* getWasm() returns exports with a memory
  phase,          \* per load: what it awaits, or what its promise resolved to
  target,         \* per load: the name it was called with
  loadedModules,  \* per module: the instance in the map
  made,           \* history: the instances that were made
  uninstalled,    \* history: how often xy_uninstall of an instance was called
  destroyed,      \* history: the instances that destroy() dropped from the map
  overlapped      \* history: the modules of which two loads were under way at once

bridgeVars == <<memory, phase, target, loadedModules, made, uninstalled, destroyed,
                overlapped>>
histVars == <<made, uninstalled, destroyed, overlapped>>

\* The awaits of a load, in order.
Await == <<"fetch", "body", "compile", "instantiate">>
Awaiting(l) == \E i \in DOMAIN Await : phase[l] = Await[i]
Become(l, p) == phase' = [phase EXCEPT ![l] = p]

(***************************************************************************)
(* wasm_xy_load_module                                                     *)
(***************************************************************************)

\* The call, up to the first await: it answers -1 without a memory, 0 if the module is
\* in the map, and fetches it otherwise.
wasm_xy_load_module(l, m) ==
  /\ phase[l] = "idle"
  /\ Become(l, IF ~memory THEN "failed"
               ELSE IF loadedModules[m] # NoLoad THEN "ok" ELSE Await[1])
  /\ target' = [target EXCEPT ![l] = m]
  /\ overlapped' = IF \E k \in Load : Awaiting(k) /\ target[k] = m
                   THEN overlapped \cup {m} ELSE overlapped
  /\ UNCHANGED <<memory, loadedModules, made, uninstalled, destroyed>>

\* An await that is not the last: the load goes on to the next one.
Continue(l) ==
  /\ \E i \in 1 .. Len(Await) - 1 : phase[l] = Await[i] /\ Become(l, Await[i + 1])
  /\ UNCHANGED <<memory, target, loadedModules, histVars>>

\* Mutant: a load that fails starts again.
Fail_retries(l) ==
  /\ Awaiting(l)
  /\ Become(l, Await[1])
  /\ UNCHANGED <<memory, target, loadedModules, histVars>>

\* The response is not ok, or an awaited promise is rejected and the catch answers.
Fail(l) ==
  /\ Awaiting(l)
  /\ Become(l, "failed")
  /\ UNCHANGED <<memory, target, loadedModules, histVars>>

\* Mutant: the map is written after xy_install.
Instantiated_late(l, throws) ==
  /\ phase[l] = "instantiate"
  /\ loadedModules' = IF throws THEN loadedModules
                      ELSE [loadedModules EXCEPT ![target[l]] = l]
  /\ made' = made \cup {l}
  /\ Become(l, IF throws THEN "failed" ELSE "ok")
  /\ UNCHANGED <<memory, target, uninstalled, destroyed, overlapped>>

\* After the last await: the instance is put into the map, then xy_install is called
\* if it is exported.  If it throws, the load fails and the instance stays.
Instantiated(l, throws) ==
  /\ phase[l] = "instantiate"
  /\ loadedModules' = [loadedModules EXCEPT ![target[l]] = l]
  /\ made' = made \cup {l}
  /\ Become(l, IF throws THEN "failed" ELSE "ok")
  /\ UNCHANGED <<memory, target, uninstalled, destroyed, overlapped>>

\* What follows the settling of the promise that load l awaits.
Settle(l) ==
  \/ Continue(l)
  \/ Fail(l)
  \/ \E throws \in BOOLEAN : Instantiated(l, throws)

(***************************************************************************)
(* wasm_xy_unload_module and destroy                                       *)
(***************************************************************************)

\* Mutant: the entry stays.
wasm_xy_unload_module_kept(m) ==
  /\ memory
  /\ loadedModules[m] # NoLoad
  /\ uninstalled' = [uninstalled EXCEPT ![loadedModules[m]] = @ + 1]
  /\ UNCHANGED <<memory, phase, target, loadedModules, made, destroyed, overlapped>>

\* xy_uninstall, if it is exported; its exceptions are swallowed.  Without an entry in
\* the map nothing happens, whether or not a load is on its way.
wasm_xy_unload_module(m) ==
  /\ memory
  /\ loadedModules[m] # NoLoad
  /\ uninstalled' = [uninstalled EXCEPT ![loadedModules[m]] = @ + 1]
  /\ loadedModules' = [loadedModules EXCEPT ![m] = NoLoad]
  /\ UNCHANGED <<memory, phase, target, made, destroyed, overlapped>>

destroy ==
  /\ destroyed' = destroyed \cup {l \in Load : \E m \in Module : loadedModules[m] = l}
  /\ loadedModules' = [m \in Module |-> NoLoad]
  /\ UNCHANGED <<memory, phase, target, made, uninstalled, overlapped>>

\* The page has instantiated the main module.
MainReady ==
  /\ ~memory
  /\ memory' = TRUE
  /\ UNCHANGED <<phase, target, loadedModules, histVars>>

BridgeInit ==
  /\ memory = FALSE
  /\ phase = [l \in Load |-> "idle"]
  /\ target \in [Load -> Module]
  /\ loadedModules = [m \in Module |-> NoLoad]
  /\ made = {}
  /\ uninstalled = [l \in Load |-> 0]
  /\ destroyed = {}
  /\ overlapped = {}

(***************************************************************************)
(* Properties                                                              *)
(***************************************************************************)

\* Every variable has its type, and only instances that were made are destroyed.
BridgeTypeOK ==
  /\ memory \in BOOLEAN
  /\ phase \in [Load -> {"idle", "ok", "failed"} \cup {Await[i] : i \in DOMAIN Await}]
  /\ target \in [Load -> Module]
  /\ loadedModules \in [Module -> Load \cup {NoLoad}]
  /\ made \subseteq Load /\ destroyed \subseteq made
  /\ uninstalled \in [Load -> Nat]
  /\ overlapped \subseteq Module

\* The instances of a module that were installed and neither uninstalled nor destroyed.
Live(m) == {l \in made : target[l] = m /\ uninstalled[l] = 0 /\ l \notin destroyed}

\* A module has at most one live instance, and that one is in the map, so that an unload
\* reaches it, through failing installs, unloads and destroy() while loads are under
\* way: as long as no two loads of the module are under way at once.
OneInstance ==
  \A m \in Module \ overlapped : \A l \in Live(m) : loadedModules[m] = l

\* xy_uninstall is called at most once for an instance.
UninstalledOnce == \A l \in Load : uninstalled[l] <= 1

\* Every load is answered, one that is overtaken by an unload or by destroy() too.
EveryLoadSettles == \A l \in Load : Awaiting(l) ~> phase[l] \in {"ok", "failed"}
===============================================================================
