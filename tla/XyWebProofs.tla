----------------------------- MODULE XyWebProofs ------------------------------
(***************************************************************************)
(* Proofs about a page that runs the WebAssembly build: what the bridge    *)
(* keeps of its instances, for every number of modules and loads, whatever *)
(* the dispatcher does meanwhile; and the dispatcher, for every set of     *)
(* names and adapters and every size of the table, whatever the bridge     *)
(* loads and unloads meanwhile.                                            *)
(***************************************************************************)
EXTENDS XyWeb, TLAPS

(***************************************************************************)
(* The inductive invariant of the bridge                                   *)
(***************************************************************************)

\* The map leads to instances of the right module that were made and not dropped.
MapKnown ==
  \A m \in Module :
    loadedModules[m] # NoLoad =>
      /\ loadedModules[m] \in made \ destroyed
      /\ target[loadedModules[m]] = m
      /\ uninstalled[loadedModules[m]] = 0

\* A load that made an instance has been answered, and only instances are uninstalled.
MadeAnswered == \A l \in made : phase[l] \in {"ok", "failed"}
OnlyMade == \A l \in Load \ made : uninstalled[l] = 0

\* A load under way is the only one of its module, of which nothing is in the map:
\* unless there was an overlap.
LoadsAlone ==
  \A l \in Load :
    Awaiting(l) /\ target[l] \notin overlapped =>
      /\ loadedModules[target[l]] = NoLoad
      /\ \A k \in Load : Awaiting(k) /\ target[k] = target[l] => k = l

BridgeInv ==
  /\ BridgeTypeOK
  /\ MapKnown
  /\ MadeAnswered
  /\ OnlyMade
  /\ LoadsAlone
  /\ OneInstance
  /\ UninstalledOnce

\* The four awaits of wasm_xy_load_module, as a set.
Waits == {"fetch", "body", "compile", "instantiate"}

\* The sequence of awaits has these four members, and begins with the fetch.
LEMMA WaitsAre ==
  /\ {Await[i] : i \in DOMAIN Await} = Waits
  /\ Await[1] = "fetch"
  /\ \A i \in 1 .. Len(Await) - 1 : Await[i + 1] \in Waits
<1>1. DOMAIN Await = 1 .. 4 /\ Len(Await) = 4
  BY DEF Await
<1>2. Await[1] = "fetch" /\ Await[2] = "body" /\ Await[3] = "compile" /\ Await[4] = "instantiate"
  BY DEF Await
<1>3. \A i \in 1 .. 4 : i = 1 \/ i = 2 \/ i = 3 \/ i = 4
  OBVIOUS
<1>4. \A i \in 1 .. 3 : i = 1 \/ i = 2 \/ i = 3
  OBVIOUS
<1>5. {Await[i] : i \in DOMAIN Await} = Waits
  BY <1>1, <1>2, <1>3 DEF Waits
<1>6. \A i \in 1 .. Len(Await) - 1 : Await[i + 1] \in Waits
  BY <1>1, <1>2, <1>4 DEF Waits
<1> QED BY <1>2, <1>5, <1>6

\* A load awaits something in one of four phases, before and after a step.
LEMMA AwaitingWaits ==
  \A l \in Load : /\ Awaiting(l) <=> phase[l] \in Waits
                  /\ Awaiting(l)' <=> phase'[l] \in Waits
  BY WaitsAre DEF Awaiting

\* A new bridge has an empty map and nothing under way.
LEMMA BridgeStart == BridgeInit => BridgeInv
<1> SUFFICES ASSUME BridgeInit PROVE BridgeInv
  OBVIOUS
<1>1. \A l \in Load : ~Awaiting(l)
  BY AwaitingWaits DEF BridgeInit, Waits
<1>2. BridgeTypeOK
  BY WaitsAre DEF BridgeInit, BridgeTypeOK
<1> QED BY <1>1, <1>2 DEF BridgeInit, BridgeInv, MapKnown, MadeAnswered, OnlyMade, LoadsAlone,
                          OneInstance, UninstalledOnce, Live

\* The call: the load awaits only if nothing is in the map, and an overlap is noted.
LEMMA LoadKeeps ==
  ASSUME BridgeInv, NEW l \in Load, NEW m \in Module, wasm_xy_load_module(l, m)
  PROVE  BridgeInv'
<1> USE DEF BridgeInv
<1> DEFINE p == IF ~memory THEN "failed" ELSE IF loadedModules[m] # NoLoad THEN "ok" ELSE "fetch"
<1>1. /\ phase[l] = "idle"
      /\ phase' = [phase EXCEPT ![l] = p]
      /\ target' = [target EXCEPT ![l] = m]
      /\ UNCHANGED <<memory, loadedModules, made, uninstalled, destroyed>>
  BY WaitsAre DEF wasm_xy_load_module, Become
<1>2. overlapped \subseteq overlapped' /\ overlapped' \subseteq overlapped \cup {m}
  BY DEF wasm_xy_load_module
<1>3. ASSUME NEW k \in Load, Awaiting(k), target[k] = m PROVE m \in overlapped'
  BY <1>3 DEF wasm_xy_load_module
<1>4. l \notin made
  BY <1>1 DEF MadeAnswered
<1>5. p \in {"ok", "failed", "fetch"}
  OBVIOUS
<1>6. BridgeTypeOK'
  BY <1>1, <1>2, <1>5, WaitsAre DEF BridgeTypeOK, Waits
<1>7. /\ \A k \in Load \ {l} : phase'[k] = phase[k] /\ target'[k] = target[k]
      /\ phase'[l] = p /\ target'[l] = m
  BY <1>1 DEF BridgeTypeOK
<1>8. MapKnown' /\ MadeAnswered' /\ OnlyMade' /\ UninstalledOnce'
  BY <1>1, <1>4, <1>7 DEF MapKnown, MadeAnswered, OnlyMade, UninstalledOnce, BridgeTypeOK
<1>9. OneInstance'
  BY <1>1, <1>2, <1>4, <1>7 DEF OneInstance, Live, BridgeTypeOK
<1>10. LoadsAlone'
  <2>1. p \in Waits => loadedModules[m] = NoLoad
    BY DEF Waits
  <2>2. \A k \in Load : phase[k] \in Waits /\ target[k] = m => m \in overlapped'
    BY <1>3, AwaitingWaits
  <2> QED BY <1>1, <1>2, <1>7, <2>1, <2>2, AwaitingWaits DEF LoadsAlone, BridgeTypeOK
<1> QED BY <1>6, <1>8, <1>9, <1>10

\* A load goes on, or fails: the map and the instances stay.
LEMMA WaitKeeps ==
  ASSUME BridgeInv, NEW l \in Load, Awaiting(l),
         NEW p \in Waits \cup {"failed"}, Become(l, p),
         UNCHANGED <<memory, target, loadedModules, histVars>>
  PROVE  BridgeInv'
<1> USE DEF BridgeInv, histVars
<1>1. phase' = [phase EXCEPT ![l] = p]
  BY DEF Become
<1>2. BridgeTypeOK'
  BY <1>1, WaitsAre DEF BridgeTypeOK
<1>3. phase[l] \in Waits /\ phase'[l] = p /\ \A k \in Load \ {l} : phase'[k] = phase[k]
  BY <1>1, AwaitingWaits DEF BridgeTypeOK
<1>4. l \notin made
  BY <1>3 DEF MadeAnswered, Waits
<1>5. MadeAnswered'
  BY <1>3, <1>4 DEF MadeAnswered, BridgeTypeOK
<1>6. LoadsAlone'
  <2>1. \A k \in Load : phase'[k] \in Waits => phase[k] \in Waits
    BY <1>3
  <2> QED BY <2>1, AwaitingWaits DEF LoadsAlone
<1>7. MapKnown' /\ OnlyMade' /\ OneInstance' /\ UninstalledOnce'
  BY DEF MapKnown, OnlyMade, OneInstance, UninstalledOnce, Live
<1> QED BY <1>2, <1>5, <1>6, <1>7

\* The last await: the new instance takes the place in the map, which is empty if
\* nothing overlapped, so that no live instance is lost.
LEMMA InstantiatedKeeps ==
  ASSUME BridgeInv, NEW l \in Load, NEW throws \in BOOLEAN, Instantiated(l, throws)
  PROVE  BridgeInv'
<1> USE BridgeAssumption DEF BridgeInv
<1> DEFINE p == IF throws THEN "failed" ELSE "ok"
           m == target[l]
<1>1. /\ phase[l] = "instantiate"
      /\ loadedModules' = [loadedModules EXCEPT ![m] = l]
      /\ made' = made \cup {l}
      /\ phase' = [phase EXCEPT ![l] = p]
      /\ UNCHANGED <<memory, target, uninstalled, destroyed, overlapped>>
  BY DEF Instantiated, Become
<1>2. m \in Module /\ l \notin made /\ l \notin destroyed /\ uninstalled[l] = 0
  BY <1>1 DEF BridgeTypeOK, MadeAnswered, OnlyMade
<1>3. BridgeTypeOK'
  BY <1>1, <1>2, WaitsAre DEF BridgeTypeOK
<1>4. /\ loadedModules'[m] = l /\ \A n \in Module \ {m} : loadedModules'[n] = loadedModules[n]
      /\ phase'[l] = p /\ \A k \in Load \ {l} : phase'[k] = phase[k]
  BY <1>1, <1>2 DEF BridgeTypeOK
<1>5. MapKnown' /\ MadeAnswered' /\ OnlyMade' /\ UninstalledOnce'
  BY <1>1, <1>2, <1>4 DEF MapKnown, MadeAnswered, OnlyMade, UninstalledOnce, BridgeTypeOK
<1>6. Awaiting(l) /\ ~Awaiting(l)' /\ \A k \in Load \ {l} : Awaiting(k)' <=> Awaiting(k)
  BY <1>1, <1>4, AwaitingWaits DEF Waits
<1>7. LoadsAlone'
  BY <1>1, <1>2, <1>4, <1>6 DEF LoadsAlone, BridgeTypeOK
<1>8. OneInstance'
  <2> SUFFICES ASSUME NEW n \in Module, n \notin overlapped, NEW k \in made',
                      target[k] = n, uninstalled[k] = 0, k \notin destroyed
               PROVE  loadedModules'[n] = k
    BY <1>1 DEF OneInstance, Live
  <2>1. CASE k = l
    BY <2>1, <1>4
  <2>2. CASE k # l
    <3>1. k \in made /\ loadedModules[n] = k
      BY <2>2, <1>1 DEF OneInstance, Live
    <3>2. n # m
      BY <3>1, <1>6 DEF LoadsAlone, BridgeTypeOK
    <3> QED BY <3>1, <3>2, <1>4
  <2> QED BY <2>1, <2>2
<1> QED BY <1>3, <1>5, <1>7, <1>8

\* An unload drops the instance in the map, which had not been uninstalled.
LEMMA UnloadKeeps ==
  ASSUME BridgeInv, NEW m \in Module, wasm_xy_unload_module(m)
  PROVE  BridgeInv'
<1> USE BridgeAssumption DEF BridgeInv
<1> DEFINE i == loadedModules[m]
<1>1. /\ i # NoLoad
      /\ uninstalled' = [uninstalled EXCEPT ![i] = uninstalled[i] + 1]
      /\ loadedModules' = [loadedModules EXCEPT ![m] = NoLoad]
      /\ UNCHANGED <<memory, phase, target, made, destroyed, overlapped>>
  BY DEF wasm_xy_unload_module
<1>2. i \in made /\ i \in Load /\ target[i] = m /\ uninstalled[i] = 0
  BY <1>1 DEF MapKnown, BridgeTypeOK
<1>3. BridgeTypeOK'
  BY <1>1, <1>2 DEF BridgeTypeOK
<1>4. /\ uninstalled'[i] = 1 /\ \A k \in Load \ {i} : uninstalled'[k] = uninstalled[k]
      /\ loadedModules'[m] = NoLoad
      /\ \A n \in Module \ {m} : loadedModules'[n] = loadedModules[n]
  BY <1>1, <1>2 DEF BridgeTypeOK
<1>5. MapKnown' /\ MadeAnswered' /\ OnlyMade' /\ UninstalledOnce'
  BY <1>1, <1>2, <1>4 DEF MapKnown, MadeAnswered, OnlyMade, UninstalledOnce, BridgeTypeOK
<1>6. LoadsAlone'
  BY <1>1, <1>4, AwaitingWaits DEF LoadsAlone, BridgeTypeOK
<1>7. OneInstance'
  BY <1>1, <1>2, <1>4 DEF OneInstance, Live, BridgeTypeOK
<1> QED BY <1>3, <1>5, <1>6, <1>7

\* destroy() drops what is in the map, and that is every live instance of a module
\* without overlap.
LEMMA DestroyKeeps == ASSUME BridgeInv, destroy PROVE BridgeInv'
<1> USE BridgeAssumption DEF BridgeInv, destroy
<1>1. BridgeTypeOK'
  BY DEF BridgeTypeOK, MapKnown
<1>2. MapKnown' /\ MadeAnswered' /\ OnlyMade' /\ UninstalledOnce'
  BY DEF MapKnown, MadeAnswered, OnlyMade, UninstalledOnce, BridgeTypeOK
<1>3. LoadsAlone'
  BY AwaitingWaits DEF LoadsAlone, BridgeTypeOK
<1>4. OneInstance'
  BY DEF OneInstance, Live, BridgeTypeOK
<1> QED BY <1>1, <1>2, <1>3, <1>4

\* Every step of the page keeps the invariant: the dispatcher's leave the bridge alone.
LEMMA BridgeStep == BridgeInv /\ [Next]_vars => BridgeInv'
<1> SUFFICES ASSUME BridgeInv, [Next]_vars PROVE BridgeInv'
  OBVIOUS
<1>1. ASSUME UNCHANGED bridgeVars PROVE BridgeInv'
  BY <1>1 DEF bridgeVars, BridgeInv, BridgeTypeOK, MapKnown, MadeAnswered, OnlyMade, LoadsAlone,
              OneInstance, UninstalledOnce, Live, Awaiting
<1>2. CASE Dispatcher
  BY <1>1, <1>2 DEF Dispatcher
<1>3. ASSUME NEW l \in Load, NEW m \in Module, xy_load(l, m) PROVE BridgeInv'
  BY <1>3, LoadKeeps DEF xy_load
<1>4. ASSUME NEW m \in Module, xy_unload(m) PROVE BridgeInv'
  BY <1>4, UnloadKeeps DEF xy_unload
<1>5. ASSUME NEW l \in Load, Task(l) PROVE BridgeInv'
  <2>1. CASE Continue(l)
    <3>1. PICK i \in 1 .. Len(Await) - 1 : phase[l] = Await[i] /\ Become(l, Await[i + 1])
      BY <2>1 DEF Continue
    <3>2. Awaiting(l)
      BY <3>1, WaitsAre DEF Awaiting, Await
    <3> QED BY <2>1, <3>1, <3>2, WaitsAre, WaitKeeps DEF Continue
  <2>2. CASE Fail(l)
    BY <2>2, WaitKeeps DEF Fail
  <2>3. ASSUME NEW throws \in BOOLEAN, Instantiated(l, throws) PROVE BridgeInv'
    BY <2>3, InstantiatedKeeps
  <2> QED BY <1>5, <2>1, <2>2, <2>3 DEF Task, Settle
<1>6. CASE Page
  <2>1. CASE destroy
    BY <2>1, DestroyKeeps
  <2>2. CASE MainReady
    BY <2>2 DEF MainReady, histVars, BridgeInv, BridgeTypeOK, MapKnown, MadeAnswered, OnlyMade,
                LoadsAlone, OneInstance, UninstalledOnce, Live, Awaiting
  <2> QED BY <1>6, <2>1, <2>2 DEF Page
<1>7. CASE UNCHANGED vars
  BY <1>1, <1>7 DEF vars
<1> QED BY <1>2, <1>3, <1>4, <1>5, <1>6, <1>7 DEF Next

\* The invariant holds throughout.
LEMMA BridgeSpecInv == Spec => []BridgeInv
<1>1. Init => BridgeInv
  BY BridgeStart DEF Init
<1> QED BY <1>1, BridgeStep, PTL DEF Spec

\* For any number of side modules and loads, and whatever hook calls come in between:
\* a live instance of a module whose loads never overlapped is the one in the map, so
\* an unload reaches it (loadedModules of createXylemBridge).
THEOREM OneInstanceCorrect == Spec => []OneInstance
<1>1. BridgeInv => OneInstance
  BY DEF BridgeInv
<1> QED BY <1>1, BridgeSpecInv, PTL

\* No instance is uninstalled twice, overlap or not (wasm_xy_unload_module).
THEOREM UninstalledOnceCorrect == Spec => []UninstalledOnce
<1>1. BridgeInv => UninstalledOnce
  BY DEF BridgeInv
<1> QED BY <1>1, BridgeSpecInv, PTL

(***************************************************************************)
(* The inductive invariant of the dispatcher                               *)
(***************************************************************************)

\* A running call.
Call == [id : Nat, reg : Adapter, retp : BOOLEAN, cur : Nat, ran : Nat, inside : BOOLEAN,
         broken : BOOLEAN]
CallTypes == stack \in Seq(Call) /\ Depth <= MaxDepth

\* A slot has listeners of its own name only, and a name that fits the buffer.
OwnListeners ==
  \A i \in Id : /\ Kept[g_xy_hooks[i + 1].name] = g_xy_hooks[i + 1].name
                /\ \A k \in DOMAIN List(i) : Kept[AdName[List(i)[k]]] = g_xy_hooks[i + 1].name

\* A call runs through a slot of its own name.
OwnSlot == \A d \in 1 .. Depth : Matches(stack[d].id, AdName[stack[d].reg])

\* Two slots may have the same name, when a long one is cut.  An id that is believed
\* leads to the first of them, as the searches do.
FirstIds ==
  \A a \in Adapter : /\ hook_id[a] \in Id \cup {-1, 0}
                     /\ IdValid(a) => FirstMatch(hook_id[a], AdName[a])

\* A registered adapter is in the first slot of its name, if that fits.
InFirstSlot ==
  \A a \in registered :
    Kept[AdName[a]] = AdName[a] =>
      \E i \in Id : FirstMatch(i, AdName[a]) /\ \E k \in DOMAIN List(i) : List(i)[k] = a

\* A call that has another one above it is broken.
OnlyTopIntact == \A d \in 1 .. Depth - 1 : stack[d].broken

WasmInv ==
  /\ WasmTypeOK
  /\ CallTypes
  /\ OwnListeners
  /\ OwnSlot
  /\ FirstIds
  /\ InFirstSlot
  /\ OnlyTopIntact
  /\ ChainIntact

(***************************************************************************)
(* Facts about the table and the stack                                     *)
(***************************************************************************)

Slot == [name : Name, listeners : Seq(Adapter)]

\* The part of the invariant that is about the running calls.
CallsAt(d) ==
  LET f == stack[d] IN
  /\ f.id \in Id
  /\ f.cur \in 1 .. Len(List(f.id)) + 1
  /\ f.inside => f.cur <= Len(List(f.id))
  /\ Matches(f.id, AdName[f.reg])

\* Slots and their lists by id.
LEMMA SlotFacts ==
  ASSUME WasmInv
  PROVE  /\ Len(g_xy_hooks) \in Nat
         /\ \A i \in Id : /\ i \in Nat /\ i + 1 \in DOMAIN g_xy_hooks /\ g_xy_hooks[i + 1] \in Slot
                          /\ List(i) \in Seq(Adapter) /\ Len(List(i)) \in Nat
                          /\ DOMAIN List(i) = 1 .. Len(List(i))
<1>1. g_xy_hooks \in Seq(Slot) /\ Len(g_xy_hooks) \in Nat
  BY DEF WasmInv, WasmTypeOK, Slot
<1>2. ASSUME NEW i \in Id
      PROVE  /\ i \in Nat /\ i + 1 \in DOMAIN g_xy_hooks /\ g_xy_hooks[i + 1] \in Slot
             /\ List(i) \in Seq(Adapter) /\ Len(List(i)) \in Nat
             /\ DOMAIN List(i) = 1 .. Len(List(i))
  <2>1. i \in Nat /\ i + 1 \in 1 .. Len(g_xy_hooks)
    BY <1>1 DEF Id
  <2>2. g_xy_hooks[i + 1] \in Slot
    BY <1>1, <2>1
  <2>3. List(i) \in Seq(Adapter)
    BY <2>2 DEF List, Slot
  <2> QED BY <1>1, <2>1, <2>2, <2>3
<1> QED BY <1>1, <1>2

\* A step that leaves the table and the ids alone.
LEMMA SameTable ==
  ASSUME WasmInv, UNCHANGED <<g_xy_hooks, hook_id, registered>>
  PROVE  Id' = Id /\ OwnListeners' /\ FirstIds' /\ InFirstSlot'
<1>1. g_xy_hooks' = g_xy_hooks /\ hook_id' = hook_id /\ registered' = registered
  OBVIOUS
<1>2. Id' = Id /\ OwnListeners'
  BY <1>1 DEF WasmInv, OwnListeners, Id, List
<1>3. FirstIds'
  BY <1>1 DEF WasmInv, FirstIds, IdValid, FirstMatch, Matches, Id
<1>4. InFirstSlot'
  BY <1>1 DEF WasmInv, InFirstSlot, FirstMatch, Matches, Id, List
<1> QED BY <1>2, <1>3, <1>4

\* What is known of the running calls.
LEMMA StackFacts ==
  ASSUME WasmInv
  PROVE  /\ Depth \in Nat /\ DOMAIN stack = 1 .. Depth
         /\ \A d \in 1 .. Depth : stack[d] \in Call /\ CallsAt(d)
         /\ stack # <<>> => Depth \in 1 .. Depth
  BY DEF WasmInv, WasmTypeOK, CallTypes, OwnSlot, CallsAt, Depth

\* A step of the loop changes the top call only, which stays at its slot.
LEMMA SetTopKeeps ==
  ASSUME WasmInv, stack # <<>>, NEW f \in Call, SetTop(f),
         f.id = Top.id, f.reg = Top.reg, f.retp = Top.retp, f.broken = Top.broken,
         f.cur \in 1 .. Len(List(f.id)) + 1, f.inside => f.cur <= Len(List(f.id)),
         last_ran' \in Nat, ~f.broken => last_ran' = f.ran,
         UNCHANGED <<g_xy_hooks, hook_id, last_retp, current, registered>>
  PROVE  WasmInv'
<1> USE DEF WasmInv
<1>1. /\ Depth \in Nat /\ Depth >= 1
      /\ stack' \in Seq(Call) /\ Depth' = Depth
      /\ stack'[Depth] = f
      /\ \A d \in 1 .. Depth - 1 : stack'[d] = stack[d]
  <2>1. stack \in Seq(Call) /\ Depth = Len(stack) /\ Depth \in Nat /\ Depth \in 1 .. Len(stack)
    BY StackFacts DEF CallTypes, Depth
  <2>2. stack' = [stack EXCEPT ![Depth] = f]
    BY DEF SetTop
  <2> HIDE DEF WasmInv
  <2>3. stack' \in Seq(Call) /\ Len(stack') = Len(stack)
    BY <2>1, <2>2
  <2>4. stack'[Depth] = f /\ \A d \in 1 .. Depth - 1 : stack'[d] = stack[d]
    BY <2>1, <2>2
  <2> QED BY <2>1, <2>3, <2>4 DEF Depth
<1>2. Id' = Id /\ \A i \in Id : List(i)' = List(i) /\ \A n : Matches(i, n)' <=> Matches(i, n)
  BY DEF Id, List, Matches
<1>3. \A d \in 1 .. Depth : CallsAt(d)'
  <2>1. CallsAt(Depth)'
    <3>1. CallsAt(Depth) /\ Top = stack[Depth]
      BY <1>1, StackFacts DEF Top
    <3> QED BY <1>1, <1>2, <3>1 DEF CallsAt
  <2>2. ASSUME NEW d \in 1 .. Depth - 1 PROVE CallsAt(d)'
    <3>1. d \in 1 .. Depth /\ stack'[d] = stack[d] /\ CallsAt(d)
      BY <1>1, StackFacts
    <3> QED BY <1>2, <3>1 DEF CallsAt
  <2> QED BY <1>1, <2>1, <2>2
<1>4. WasmTypeOK' /\ OwnSlot'
  BY <1>1, <1>2, <1>3 DEF WasmTypeOK, OwnSlot, CallsAt
<1>5. CallTypes' /\ OnlyTopIntact'
  BY <1>1 DEF CallTypes, OnlyTopIntact
<1>6. OwnListeners' /\ FirstIds' /\ InFirstSlot'
  BY SameTable
<1>7. ChainIntact'
  BY <1>1 DEF ChainIntact, Top
<1> QED BY <1>4, <1>5, <1>6, <1>7

\* A registration appends to the table or to a list: the running calls stay in place.
LEMMA GrowKeepsCalls ==
  ASSUME WasmInv, g_xy_hooks' \in Seq(Slot), Len(g_xy_hooks) <= Len(g_xy_hooks'),
         \A i \in Id : /\ g_xy_hooks'[i + 1].name = g_xy_hooks[i + 1].name
                       /\ Len(List(i)) <= Len(List(i)'),
         UNCHANGED <<stack, last_ran, last_retp, current>>
  PROVE  /\ \A d \in 1 .. Depth' : CallsAt(d)'
         /\ CallTypes' /\ OwnSlot' /\ OnlyTopIntact' /\ ChainIntact'
<1> USE DEF WasmInv
<1>1. Depth' = Depth /\ Len(g_xy_hooks) \in Nat /\ Len(g_xy_hooks') \in Nat
  BY SlotFacts DEF Depth
<1>2. Id \subseteq Id'
  BY <1>1 DEF Id
<1>3. ASSUME NEW d \in 1 .. Depth PROVE CallsAt(d)'
  <2>1. CallsAt(d) /\ stack'[d] = stack[d] /\ stack[d] \in Call
    BY StackFacts
  <2>2. stack[d].id \in Id /\ Len(List(stack[d].id)) \in Nat
    BY <2>1, SlotFacts DEF CallsAt
  <2>3. Len(List(stack[d].id)') \in Nat
    <3>1. stack[d].id + 1 \in DOMAIN g_xy_hooks'
      BY <1>1, <1>2, <2>2 DEF Id
    <3> QED BY <3>1 DEF List, Slot
  <2>4. /\ stack[d].id \in Id'
        /\ stack[d].cur \in 1 .. Len(List(stack[d].id)') + 1
        /\ stack[d].inside => stack[d].cur <= Len(List(stack[d].id)')
    BY <1>2, <2>1, <2>2, <2>3 DEF CallsAt
  <2>5. Matches(stack[d].id, AdName[stack[d].reg])'
    BY <2>1, <2>2 DEF CallsAt, Matches
  <2> QED BY <2>1, <2>4, <2>5 DEF CallsAt, Matches, List, Id
<1>4. CallTypes' /\ OnlyTopIntact' /\ ChainIntact'
  BY <1>1 DEF CallTypes, OnlyTopIntact, ChainIntact, Top
<1>5. OwnSlot'
  BY <1>1, <1>3 DEF OwnSlot, CallsAt
<1> QED BY <1>1, <1>3, <1>4, <1>5

(***************************************************************************)
(* The steps                                                               *)
(***************************************************************************)

\* A registration under a name that has a slot: the listener goes to the first such slot.
LEMMA AregExistingKeeps ==
  ASSUME WasmInv, NEW a \in Adapter, NEW malloc \in BOOLEAN, xy_areg_existing(a, malloc)
  PROVE  WasmInv'
<1> USE DEF WasmInv
<1> PICK i \in Id :
      /\ FirstMatch(i, AdName[a])
      /\ hook_id' = [hook_id EXCEPT ![a] = i]
      /\ IF malloc
         THEN /\ g_xy_hooks' = [g_xy_hooks EXCEPT ![i + 1].listeners = Append(@, a)]
              /\ registered' = registered \cup {a}
         ELSE UNCHANGED <<g_xy_hooks, registered>>
  BY DEF xy_areg_existing
<1>1. UNCHANGED <<stack, last_ran, last_retp, current>>
  BY DEF xy_areg_existing
<1>2. i \in Nat /\ i + 1 \in DOMAIN g_xy_hooks /\ g_xy_hooks \in Seq(Slot) /\ g_xy_hooks[i + 1] \in Slot
  BY SlotFacts DEF WasmTypeOK, Slot
<1>3. /\ g_xy_hooks' \in Seq(Slot) /\ Len(g_xy_hooks') = Len(g_xy_hooks)
      /\ \A j \in Id : g_xy_hooks'[j + 1].name = g_xy_hooks[j + 1].name
      /\ \A j \in Id : List(j)' = IF malloc /\ j = i THEN Append(List(j), a) ELSE List(j)
  <2>1. CASE malloc
    <3> DEFINE s == [name |-> g_xy_hooks[i + 1].name, listeners |-> Append(List(i), a)]
    <3>1. g_xy_hooks' = [g_xy_hooks EXCEPT ![i + 1] = s]
      BY <1>2, <2>1 DEF List, Slot
    <3>2. s \in Slot
      BY <1>2, SlotFacts DEF Slot
    <3>3. g_xy_hooks' \in Seq(Slot) /\ Len(g_xy_hooks') = Len(g_xy_hooks)
      BY <1>2, <3>1, <3>2
    <3>4. ASSUME NEW j \in Id
          PROVE  g_xy_hooks'[j + 1] = IF j = i THEN s ELSE g_xy_hooks[j + 1]
      <4>1. j \in Nat /\ j + 1 \in DOMAIN g_xy_hooks
        BY SlotFacts
      <4> QED BY <1>2, <3>1, <4>1
    <3>5. s.name = g_xy_hooks[i + 1].name /\ s.listeners = Append(List(i), a)
      OBVIOUS
    <3> HIDE DEF s
    <3>6. \A j \in Id : g_xy_hooks'[j + 1].name = g_xy_hooks[j + 1].name
      BY <3>4, <3>5
    <3>7. \A j \in Id : List(j)' = IF j = i THEN Append(List(j), a) ELSE List(j)
      BY <3>4, <3>5 DEF List
    <3> QED BY <2>1, <3>3, <3>6, <3>7
  <2>2. CASE ~malloc
    BY <1>2, <2>2 DEF List
  <2> QED BY <2>1, <2>2
<1>4. Id' = Id /\ \A j \in Id : \A n : Matches(j, n)' <=> Matches(j, n)
  BY <1>3 DEF Id, Matches
<1>5. \A j \in Id : \A n : FirstMatch(j, n)' <=> FirstMatch(j, n)
  <2>1. \A j \in Id : 0 .. j - 1 \subseteq Id
    BY SlotFacts DEF Id
  <2> QED BY <1>4, <2>1 DEF FirstMatch
<1>6. \A j \in Id : /\ List(j)' \in Seq(Adapter) /\ Len(List(j)) <= Len(List(j)')
                    /\ \A k \in DOMAIN List(j) : k \in DOMAIN List(j)' /\ List(j)'[k] = List(j)[k]
                    /\ \A k \in DOMAIN List(j)' : k \notin DOMAIN List(j) => j = i /\ List(j)'[k] = a
  <2> SUFFICES ASSUME NEW j \in Id
               PROVE /\ List(j)' \in Seq(Adapter) /\ Len(List(j)) <= Len(List(j)')
                     /\ \A k \in DOMAIN List(j) : k \in DOMAIN List(j)' /\ List(j)'[k] = List(j)[k]
                     /\ \A k \in DOMAIN List(j)' : k \notin DOMAIN List(j) => j = i /\ List(j)'[k] = a
    OBVIOUS
  <2>1. List(j) \in Seq(Adapter) /\ Len(List(j)) \in Nat /\ DOMAIN List(j) = 1 .. Len(List(j))
    BY SlotFacts
  <2>2. CASE malloc /\ j = i
    <3>1. List(j)' = Append(List(j), a)
      BY <1>3, <2>2
    <3> QED BY <2>1, <2>2, <3>1
  <2>3. CASE ~(malloc /\ j = i)
    <3>1. List(j)' = List(j)
      BY <1>3, <2>3
    <3> QED BY <2>1, <3>1
  <2> QED BY <2>2, <2>3
<1>7. /\ \A d \in 1 .. Depth' : CallsAt(d)'
      /\ CallTypes' /\ OwnSlot' /\ OnlyTopIntact' /\ ChainIntact'
  BY <1>1, <1>3, <1>6, GrowKeepsCalls, SlotFacts
<1>8. OwnListeners'
  <2>1. Kept[AdName[a]] = g_xy_hooks[i + 1].name
    BY DEF FirstMatch, Matches, OwnListeners
  <2>2. \A j \in Id : g_xy_hooks'[j + 1].name = g_xy_hooks[j + 1].name
    BY <1>3
  <2> QED BY <1>4, <1>6, <2>1, <2>2, SMTT(30) DEF OwnListeners
<1>9. FirstIds'
  BY <1>4, <1>5, AdapterAssumption DEF FirstIds, IdValid, WasmTypeOK
<1>10. InFirstSlot'
  <2> SUFFICES ASSUME NEW b \in registered', Kept[AdName[b]] = AdName[b]
               PROVE  \E j \in Id : FirstMatch(j, AdName[b]) /\ \E k \in DOMAIN List(j)' : List(j)'[k] = b
    BY <1>4, <1>5 DEF InFirstSlot
  <2>1. CASE b \in registered
    BY <1>6, <2>1 DEF InFirstSlot
  <2>2. CASE b \notin registered
    <3>1. b = a /\ malloc
      BY <2>2
    <3>2. Len(List(i)) + 1 \in DOMAIN List(i)' /\ List(i)'[Len(List(i)) + 1] = a
      BY <1>3, <3>1, SlotFacts
    <3> QED BY <3>1, <3>2
  <2> QED BY <2>1, <2>2
<1>11. WasmTypeOK'
  <2>1. i \in -1 .. XY_WASM_MAX_HOOKS - 1
    BY SlotFacts, BoundAssumption, SMTT(30) DEF Id, WasmTypeOK
  <2>2. hook_id' \in [Adapter -> -1 .. XY_WASM_MAX_HOOKS - 1]
    BY <2>1 DEF WasmTypeOK
  <2>3. registered' \subseteq Adapter
    BY DEF WasmTypeOK
  <2> QED BY <1>1, <1>3, <1>7, <2>2, <2>3 DEF WasmTypeOK, CallsAt, Slot
<1> QED BY <1>7, <1>8, <1>9, <1>10, <1>11

\* A registration that takes a new slot: a name that fits has none before it.
LEMMA AregNewKeeps ==
  ASSUME WasmInv, NEW a \in Adapter, NEW malloc \in BOOLEAN, xy_areg_new(a, malloc)
  PROVE  WasmInv'
<1> USE DEF WasmInv
<1> PICK n \in Nat : n = Len(g_xy_hooks)
  BY SlotFacts
<1> DEFINE s == [name |-> Kept[AdName[a]], listeners |-> IF malloc THEN <<a>> ELSE <<>>]
<1>1. /\ NoMatch(AdName[a])
      /\ n < XY_WASM_MAX_HOOKS
      /\ g_xy_hooks' = Append(g_xy_hooks, s)
      /\ IF malloc
         THEN /\ hook_id' = [hook_id EXCEPT ![a] = n]
              /\ registered' = registered \cup {a}
         ELSE UNCHANGED <<hook_id, registered>>
      /\ UNCHANGED <<stack, last_ran, last_retp, current>>
  BY DEF xy_areg_new
<1>2. AdName[a] \in Name /\ s \in Slot
  BY KeptAssumption, AdapterAssumption DEF Slot
<1>3. /\ s.name = Kept[AdName[a]]
      /\ s.listeners = IF malloc THEN <<a>> ELSE <<>>
  OBVIOUS
<1> HIDE DEF s
<1>4. g_xy_hooks \in Seq(Slot) /\ n \in Nat
  BY SlotFacts DEF WasmTypeOK, Slot
<1>5. /\ g_xy_hooks' \in Seq(Slot) /\ Len(g_xy_hooks') = n + 1
      /\ \A j \in Id : g_xy_hooks'[j + 1] = g_xy_hooks[j + 1]
      /\ g_xy_hooks'[n + 1] = s
  BY <1>1, <1>2, <1>4, SlotFacts
<1>6. Id' = Id \cup {n} /\ n \notin Id
  BY <1>4, <1>5 DEF Id
<1>7. /\ \A j \in Id : List(j)' = List(j) /\ \A x : Matches(j, x)' <=> Matches(j, x)
      /\ List(n)' = s.listeners
      /\ \A x : Matches(n, x)' <=> s.name = x
  BY <1>5 DEF List, Matches
<1>8. \A j \in Id : \A x : FirstMatch(j, x)' <=> FirstMatch(j, x)
  <2>1. \A j \in Id : 0 .. j - 1 \subseteq Id
    BY SlotFacts DEF Id
  <2> QED BY <1>7, <2>1 DEF FirstMatch
<1>9. Kept[AdName[a]] = AdName[a] => FirstMatch(n, AdName[a])'
  <2>1. 0 .. n - 1 = Id
    BY DEF Id
  <2> QED BY <1>1, <1>3, <1>7, <2>1 DEF FirstMatch, NoMatch
<1>10. /\ \A d \in 1 .. Depth' : CallsAt(d)'
       /\ CallTypes' /\ OwnSlot' /\ OnlyTopIntact' /\ ChainIntact'
  <2>1. \A j \in Id : /\ g_xy_hooks'[j + 1].name = g_xy_hooks[j + 1].name
                       /\ Len(List(j)) <= Len(List(j)')
    BY <1>5, <1>7, SlotFacts
  <2>2. Len(g_xy_hooks) <= Len(g_xy_hooks') /\ g_xy_hooks' \in Seq(Slot)
    BY <1>4, <1>5
  <2> QED BY <1>1, <2>1, <2>2, GrowKeepsCalls
<1>11. OwnListeners'
  <2>1. Kept[s.name] = s.name /\ \A k \in DOMAIN s.listeners : Kept[AdName[s.listeners[k]]] = s.name
    BY <1>2, <1>3, KeptAssumption
  <2>2. \A j \in Id : g_xy_hooks'[j + 1].name = g_xy_hooks[j + 1].name
    BY <1>5
  <2> QED BY <1>5, <1>6, <1>7, <2>1, <2>2 DEF OwnListeners
<1>12. FirstIds'
  <2> SUFFICES ASSUME NEW b \in Adapter
               PROVE  /\ hook_id'[b] \in Id' \cup {-1, 0}
                      /\ IdValid(b)' => FirstMatch(hook_id[b], AdName[b])'
    BY DEF FirstIds
  <2>1. CASE b = a /\ malloc
    <3>1. hook_id'[b] = n
      BY <1>1, <2>1 DEF WasmTypeOK
    <3>2. IdValid(b)' => Kept[AdName[a]] = AdName[a]
      BY <1>3, <1>7, <2>1, <3>1 DEF IdValid
    <3>3. FirstMatch(n, AdName[b])' => FirstMatch(hook_id[b], AdName[b])'
      BY <3>1 DEF FirstMatch, Matches
    <3> QED BY <1>6, <1>9, <2>1, <3>1, <3>2, <3>3
  <2>2. CASE ~(b = a /\ malloc)
    <3>1. hook_id'[b] = hook_id[b]
      BY <1>1, <2>2 DEF WasmTypeOK
    <3>2. CASE hook_id[b] \in Id
      <4>1. IdValid(b)' => IdValid(b)
        BY <1>7, <3>1, <3>2 DEF IdValid
      <4>2. IdValid(b) => FirstMatch(hook_id[b], AdName[b])'
        <5>1. PICK k \in Id : k = hook_id[b]
          BY <3>2
        <5>2. FirstMatch(k, AdName[b])' => FirstMatch(hook_id[b], AdName[b])'
          BY <3>1, <5>1 DEF FirstMatch, Matches
        <5> QED BY <1>8, <5>1, <5>2 DEF FirstIds
      <4> QED BY <1>6, <3>1, <3>2, <4>1, <4>2
    <3>3. CASE hook_id[b] \notin Id
      <4>1. hook_id[b] \in {-1, 0}
        BY <3>3 DEF FirstIds
      <4>2. IdValid(b)' => hook_id[b] = 0
        BY <3>1, <4>1 DEF IdValid, Id
      <4>3. \A x : Matches(0, x)' => FirstMatch(0, x)'
        BY DEF FirstMatch
      <4>4. hook_id[b] = 0 /\ IdValid(b)' => FirstMatch(hook_id[b], AdName[b])'
        BY <3>1, <4>3 DEF IdValid, FirstMatch, Matches
      <4> QED BY <3>1, <4>1, <4>2, <4>4
    <3> QED BY <3>2, <3>3
  <2> QED BY <2>1, <2>2
<1>13. InFirstSlot'
  <2> SUFFICES ASSUME NEW b \in registered', Kept[AdName[b]] = AdName[b]
               PROVE  \E j \in Id' : FirstMatch(j, AdName[b])' /\ \E k \in DOMAIN List(j)' : List(j)'[k] = b
    BY DEF InFirstSlot
  <2>1. CASE b \in registered
    BY <1>6, <1>7, <1>8, <2>1 DEF InFirstSlot
  <2>2. CASE b \notin registered
    <3>1. b = a /\ malloc
      BY <1>1, <2>2
    <3>2. 1 \in DOMAIN List(n)' /\ List(n)'[1] = a
      BY <1>3, <1>7, <3>1
    <3> QED BY <1>6, <1>9, <3>1, <3>2
  <2> QED BY <2>1, <2>2
<1>14. WasmTypeOK'
  <2>1. n \in -1 .. XY_WASM_MAX_HOOKS - 1
    BY <1>1, <1>4, BoundAssumption
  <2>2. hook_id' \in [Adapter -> -1 .. XY_WASM_MAX_HOOKS - 1]
    BY <1>1, <2>1 DEF WasmTypeOK
  <2>3. registered' \subseteq Adapter
    BY <1>1 DEF WasmTypeOK
  <2>4. Len(g_xy_hooks') <= XY_WASM_MAX_HOOKS
    BY <1>1, <1>4, <1>5, BoundAssumption
  <2> QED BY <1>1, <1>5, <1>10, <2>2, <2>3, <2>4 DEF WasmTypeOK, CallsAt, Slot
<1> QED BY <1>10, <1>11, <1>12, <1>13, <1>14

\* An id that a call looks up is the first slot of the name.
LEMMA ResolvedIsFirst ==
  ASSUME WasmInv, NEW reg \in Adapter, NEW i \in Id, Resolves(reg, i)
  PROVE  FirstMatch(i, AdName[reg])
  BY DEF Resolves, WasmInv, FirstIds

\* A call remembers the first slot of its name, and nothing else changes in the table.
LEMMA ResolveKeeps ==
  ASSUME WasmInv, NEW reg \in Adapter, NEW i \in Id, Resolves(reg, i),
         hook_id' = [hook_id EXCEPT ![reg] = i], UNCHANGED <<g_xy_hooks, registered>>
  PROVE  /\ Id' = Id /\ hook_id' \in [Adapter -> -1 .. XY_WASM_MAX_HOOKS - 1]
         /\ OwnListeners' /\ FirstIds' /\ InFirstSlot'
<1> USE DEF WasmInv
<1>1. FirstMatch(i, AdName[reg])
  BY ResolvedIsFirst
<1>2. Id' = Id /\ \A j, n : Matches(j, n)' <=> Matches(j, n)
  BY DEF Id, Matches
<1>3. \A j, n : FirstMatch(j, n)' <=> FirstMatch(j, n)
  BY <1>2 DEF FirstMatch
<1>4. OwnListeners' /\ InFirstSlot'
  BY <1>2, <1>3 DEF OwnListeners, InFirstSlot, List
<1>5. hook_id' \in [Adapter -> -1 .. XY_WASM_MAX_HOOKS - 1]
  <2>1. i \in -1 .. XY_WASM_MAX_HOOKS - 1
    BY SlotFacts, BoundAssumption DEF Id, WasmTypeOK
  <2> QED BY <2>1 DEF WasmTypeOK
<1>6. FirstIds'
  <2> SUFFICES ASSUME NEW b \in Adapter
               PROVE  /\ hook_id'[b] \in Id' \cup {-1, 0}
                      /\ IdValid(b)' => FirstMatch(hook_id[b], AdName[b])'
    BY DEF FirstIds
  <2>1. PICK k \in Id \cup {-1, 0} : k = hook_id'[b]
    BY DEF FirstIds, WasmTypeOK
  <2>2. IdValid(b)' => FirstMatch(k, AdName[b])
    <3>1. CASE b = reg
      BY <1>1, <2>1, <3>1 DEF WasmTypeOK
    <3>2. CASE b # reg
      <4>1. hook_id'[b] = hook_id[b]
        BY <3>2 DEF WasmTypeOK
      <4>2. IdValid(b)' => IdValid(b)
        BY <1>2, <4>1 DEF IdValid, Matches
      <4> QED BY <2>1, <4>1, <4>2 DEF FirstIds
    <3> QED BY <3>1, <3>2
  <2>3. FirstMatch(k, AdName[b])' => FirstMatch(hook_id[b], AdName[b])'
    BY <2>1 DEF FirstMatch, Matches
  <2> QED BY <1>2, <1>3, <2>1, <2>2, <2>3
<1> QED BY <1>2, <1>4, <1>5, <1>6

\* Nothing that concerns the running calls changes.
LEMMA SameCalls ==
  ASSUME WasmInv, UNCHANGED <<g_xy_hooks, stack, last_ran, last_retp, current>>
  PROVE  /\ \A d \in 1 .. Depth' : CallsAt(d)'
         /\ CallTypes' /\ OwnSlot' /\ OnlyTopIntact' /\ ChainIntact'
<1>1. g_xy_hooks \in Seq(Slot)
  BY DEF WasmInv, WasmTypeOK, Slot
<1>2. /\ Len(g_xy_hooks) <= Len(g_xy_hooks')
      /\ \A i \in Id : /\ g_xy_hooks'[i + 1].name = g_xy_hooks[i + 1].name
                       /\ Len(List(i)) <= Len(List(i)')
  <2>1. \A i \in Id : List(i)' = List(i)
    BY DEF List
  <2> QED BY <2>1, SlotFacts
<1> QED BY <1>1, <1>2, GrowKeepsCalls

\* A call that finds nobody.
LEMMA CallNoneKeeps ==
  ASSUME WasmInv, NEW reg \in Adapter, xy_call_none(reg)
  PROVE  WasmInv'
<1> USE DEF WasmInv
<1>1. UNCHANGED <<g_xy_hooks, stack, last_ran, last_retp, current, registered>>
  BY DEF xy_call_none
<1>2. /\ Id' = Id /\ hook_id' \in [Adapter -> -1 .. XY_WASM_MAX_HOOKS - 1]
      /\ OwnListeners' /\ FirstIds' /\ InFirstSlot'
  <2>1. CASE UNCHANGED hook_id
    BY <1>1, <2>1, SameTable DEF WasmTypeOK
  <2>2. CASE \E i \in Id : Resolves(reg, i) /\ hook_id' = [hook_id EXCEPT ![reg] = i]
    <3>1. PICK i \in Id : Resolves(reg, i) /\ hook_id' = [hook_id EXCEPT ![reg] = i]
      BY <2>2
    <3> QED BY <1>1, <3>1, ResolveKeeps
  <2> QED BY <2>1, <2>2 DEF xy_call_none
<1>3. /\ \A d \in 1 .. Depth' : CallsAt(d)'
      /\ CallTypes' /\ OwnSlot' /\ OnlyTopIntact' /\ ChainIntact'
  BY <1>1, SameCalls
<1>4. WasmTypeOK'
  BY <1>1, <1>2, <1>3 DEF WasmTypeOK, CallsAt
<1> QED BY <1>2, <1>3, <1>4

\* A call that finds a list with listeners starts at the first of them, and breaks
\* every call below it.
LEMMA CallKeeps ==
  ASSUME WasmInv, NEW reg \in Adapter, NEW retp \in BOOLEAN, xy_call(reg, retp)
  PROVE  WasmInv'
<1> USE DEF WasmInv
<1> PICK n \in Nat : n = Depth
  BY StackFacts
<1> DEFINE c(i) == [id |-> i, reg |-> reg, retp |-> retp, cur |-> 1, ran |-> 0,
                    inside |-> FALSE, broken |-> FALSE]
<1>1. PICK i \in Id : /\ Resolves(reg, i) /\ List(i) # <<>>
                      /\ hook_id' = [hook_id EXCEPT ![reg] = i]
                      /\ stack' = Append(BreakChain, c(i))
  BY DEF xy_call
<1>2. /\ n < MaxDepth /\ current' = reg /\ last_retp' = (IF retp THEN n + 1 ELSE 0) /\ last_ran' = 0
      /\ UNCHANGED <<g_xy_hooks, registered>>
  BY DEF xy_call
<1>3. /\ Id' = Id /\ hook_id' \in [Adapter -> -1 .. XY_WASM_MAX_HOOKS - 1]
      /\ OwnListeners' /\ FirstIds' /\ InFirstSlot'
  BY <1>1, <1>2, ResolveKeeps
<1>4. /\ c(i) \in Call /\ c(i).id = i /\ c(i).reg = reg /\ c(i).cur = 1 /\ c(i).ran = 0
      /\ c(i).retp = retp /\ c(i).inside = FALSE /\ c(i).broken = FALSE
  BY SlotFacts DEF Call
<1>5. /\ BreakChain \in Seq(Call) /\ Len(BreakChain) = n
      /\ \A d \in 1 .. n : /\ BreakChain[d].broken /\ BreakChain[d].id = stack[d].id
                           /\ BreakChain[d].reg = stack[d].reg /\ BreakChain[d].cur = stack[d].cur
                           /\ BreakChain[d].inside = stack[d].inside
  <2>1. \A d \in 1 .. n : stack[d] \in Call
    BY StackFacts
  <2>2. \A d \in 1 .. n : BreakChain[d] = [stack[d] EXCEPT !.broken = TRUE]
    BY DEF BreakChain
  <2>3. \A d \in 1 .. n : /\ BreakChain[d] \in Call
                         /\ BreakChain[d].broken /\ BreakChain[d].id = stack[d].id
                         /\ BreakChain[d].reg = stack[d].reg /\ BreakChain[d].cur = stack[d].cur
                         /\ BreakChain[d].inside = stack[d].inside
    BY <2>1, <2>2, ZenonT(40) DEF Call
  <2>4. BreakChain \in [1 .. n -> Call]
    BY <2>3 DEF BreakChain
  <2> QED BY <2>3, <2>4
<1> HIDE DEF c
<1>6. /\ stack' \in Seq(Call) /\ Depth' = n + 1 /\ stack'[n + 1] = c(i)
      /\ \A d \in 1 .. n : stack'[d] = BreakChain[d]
  BY <1>1, <1>4, <1>5 DEF Depth
<1>7. \A j : List(j)' = List(j) /\ \A x : Matches(j, x)' <=> Matches(j, x)
  BY <1>2 DEF List, Matches
<1>8. ASSUME NEW d \in 1 .. n + 1 PROVE CallsAt(d)'
  <2>1. CASE d = n + 1
    <3>1. Matches(i, AdName[reg])
      BY <1>1, ResolvedIsFirst DEF FirstMatch
    <3>2. 1 \in 1 .. Len(List(i)) + 1
      BY SlotFacts
    <3> QED BY <1>3, <1>4, <1>6, <1>7, <2>1, <3>1, <3>2 DEF CallsAt
  <2>2. CASE d # n + 1
    <3>1. d \in 1 .. n /\ CallsAt(d)
      BY <2>2, StackFacts
    <3> QED BY <1>3, <1>5, <1>6, <1>7, <3>1 DEF CallsAt
  <2> QED BY <2>1, <2>2
<1>9. CallTypes'
  BY <1>2, <1>6, BoundAssumption DEF CallTypes
<1>10. OwnSlot'
  BY <1>6, <1>8 DEF OwnSlot, CallsAt
<1>11. OnlyTopIntact'
  BY <1>5, <1>6 DEF OnlyTopIntact
<1>12. ChainIntact'
  BY <1>2, <1>4, <1>6 DEF ChainIntact, Top
<1>13. WasmTypeOK'
  <2>1. last_retp' \in 0 .. MaxDepth /\ last_ran' \in Nat
    BY <1>2, BoundAssumption
  <2> QED BY <1>2, <1>3, <1>6, <1>8, <2>1 DEF WasmTypeOK, CallsAt
<1> QED BY <1>3, <1>9, <1>10, <1>11, <1>12, <1>13

\* What a listener that ran leaves of its call.
LEMMA RanFacts ==
  ASSUME NEW t \in Call
  PROVE  LET f == [t EXCEPT !.cur = @ + 1, !.ran = @ + 1, !.inside = FALSE]
         IN  /\ f \in Call /\ f.id = t.id /\ f.reg = t.reg /\ f.retp = t.retp
             /\ f.broken = t.broken /\ f.cur = t.cur + 1 /\ f.ran = t.ran + 1
             /\ f.inside = FALSE
<1> DEFINE f == [t EXCEPT !.cur = @ + 1, !.ran = @ + 1, !.inside = FALSE]
<1>1. /\ t.id \in Nat /\ t.reg \in Adapter /\ t.cur \in Nat /\ t.ran \in Nat
      /\ t.retp \in BOOLEAN /\ t.inside \in BOOLEAN /\ t.broken \in BOOLEAN
      /\ t = [id |-> t.id, reg |-> t.reg, retp |-> t.retp, cur |-> t.cur, ran |-> t.ran,
              inside |-> t.inside, broken |-> t.broken]
  BY DEF Call
<1>2. f = [id |-> t.id, reg |-> t.reg, retp |-> t.retp, cur |-> t.cur + 1, ran |-> t.ran + 1,
           inside |-> FALSE, broken |-> t.broken]
  <2> DEFINE f1 == [t EXCEPT !.cur = @ + 1]
             f2 == [f1 EXCEPT !.ran = @ + 1]
  <2>1. f1 = [id |-> t.id, reg |-> t.reg, retp |-> t.retp, cur |-> t.cur + 1, ran |-> t.ran,
              inside |-> t.inside, broken |-> t.broken]
    BY <1>1
  <2> HIDE DEF f1
  <2>2. f2 = [id |-> t.id, reg |-> t.reg, retp |-> t.retp, cur |-> t.cur + 1, ran |-> t.ran + 1,
              inside |-> t.inside, broken |-> t.broken]
    BY <2>1
  <2> HIDE DEF f2
  <2>3. PICK no : no = FALSE
    OBVIOUS
  <2>4. [f2 EXCEPT !.inside = no]
          = [id |-> t.id, reg |-> t.reg, retp |-> t.retp, cur |-> t.cur + 1, ran |-> t.ran + 1,
             inside |-> no, broken |-> t.broken]
    BY <2>2
  <2>5. f = [f2 EXCEPT !.inside = FALSE]
    BY DEF f1, f2
  <2> HIDE DEF f
  <2> QED BY <2>3, <2>4, <2>5
<1>3. t.cur + 1 \in Nat /\ t.ran + 1 \in Nat
  BY <1>1
<1> HIDE DEF f
<1>4. f \in Call
  BY <1>1, <1>2, <1>3 DEF Call
<1> QED BY <1>2, <1>4 DEF f

\* The loop of a call: a listener is passed over, clears the result, is entered or left.
LEMMA LoopKeeps ==
  ASSUME WasmInv, Skip \/ Clear \/ Enter \/ Leave
  PROVE  WasmInv'
<1> USE DEF WasmInv
<1>1. stack # <<>>
  BY DEF Skip, Clear, Enter, Leave, AtListener
<1>2. /\ Top = stack[Depth] /\ Top \in Call /\ CallsAt(Depth)
      /\ Top.id \in Id /\ Len(List(Top.id)) \in Nat /\ List(Top.id) \in Seq(Adapter)
      /\ DOMAIN List(Top.id) = 1 .. Len(List(Top.id))
      /\ Top.cur \in 1 .. Len(List(Top.id)) + 1
      /\ Top.inside => Top.cur <= Len(List(Top.id))
  BY <1>1, StackFacts, SlotFacts DEF Top, CallsAt
<1>3. ~Top.broken => last_ran = Top.ran
  BY <1>1 DEF ChainIntact
<1>4. last_ran \in Nat /\ Top.ran \in Nat /\ Top.cur \in Nat
  BY <1>2 DEF WasmTypeOK, Call
<1>5. Top.cur <= Len(List(Top.id)) => Listener \in Adapter
  BY <1>2, <1>4 DEF Listener
<1>6. ASSUME Ran, Top.cur <= Len(List(Top.id)),
             UNCHANGED <<g_xy_hooks, hook_id, last_retp, current, registered>>
      PROVE  WasmInv'
  <2> DEFINE f == [Top EXCEPT !.cur = @ + 1, !.ran = @ + 1, !.inside = FALSE]
  <2>1. /\ f \in Call /\ f.id = Top.id /\ f.reg = Top.reg /\ f.retp = Top.retp
        /\ f.broken = Top.broken
        /\ f.cur = Top.cur + 1 /\ f.ran = Top.ran + 1 /\ f.inside = FALSE
    BY <1>2, <1>6, RanFacts
  <2>2. SetTop(f) /\ last_ran' = Top.ran + 1
    BY <1>6 DEF Ran
  <2> HIDE DEF f
  <2>3. f.cur \in 1 .. Len(List(f.id)) + 1
    BY <1>2, <1>4, <1>6, <2>1
  <2>4. last_ran' \in Nat /\ last_ran' = f.ran
    BY <1>4, <2>1, <2>2
  <2> HIDE DEF WasmInv
  <2> QED BY <1>1, <1>6, <2>1, <2>2, <2>3, <2>4, SetTopKeeps
<1>7. CASE Skip
  <2> DEFINE f == [Top EXCEPT !.cur = @ + 1]
  <2>1. /\ f \in Call /\ f.id = Top.id /\ f.reg = Top.reg /\ f.retp = Top.retp
        /\ f.broken = Top.broken
        /\ f.cur = Top.cur + 1 /\ f.ran = Top.ran /\ f.inside = Top.inside
    <3> HIDE DEF WasmInv
    <3> PICK t \in Call : t = Top
      BY <1>2
    <3> QED BY DEF Call
  <2>2. SetTop(f) /\ UNCHANGED <<g_xy_hooks, hook_id, last_ran, last_retp, current, registered>>
    BY <1>7 DEF Skip
  <2>3. ~Top.inside /\ Top.cur <= Len(List(Top.id))
    BY <1>7 DEF Skip, AtListener
  <2> HIDE DEF f
  <2>4. f.cur \in 1 .. Len(List(f.id)) + 1 /\ ~f.inside
    BY <1>2, <1>4, <2>1, <2>3
  <2> HIDE DEF WasmInv
  <2> QED BY <1>1, <1>3, <1>4, <2>1, <2>2, <2>4, SetTopKeeps
<1>8. CASE Enter
  <2> DEFINE f == [Top EXCEPT !.inside = TRUE]
  <2>1. /\ f \in Call /\ f.id = Top.id /\ f.reg = Top.reg /\ f.retp = Top.retp
        /\ f.broken = Top.broken
        /\ f.cur = Top.cur /\ f.ran = Top.ran
    BY <1>2 DEF Call
  <2>2. SetTop(f) /\ UNCHANGED <<g_xy_hooks, hook_id, last_ran, last_retp, current, registered>>
    BY <1>8 DEF Enter
  <2>3. Top.cur <= Len(List(Top.id))
    BY <1>8 DEF Enter, AtListener
  <2> HIDE DEF f
  <2>4. f.cur \in 1 .. Len(List(f.id)) + 1 /\ f.cur <= Len(List(f.id))
    BY <1>2, <1>4, <2>1, <2>3
  <2> HIDE DEF WasmInv
  <2> QED BY <1>1, <1>3, <1>4, <2>1, <2>2, <2>4, SetTopKeeps
<1>9. CASE Clear
  BY <1>6, <1>9 DEF Clear, AtListener
<1>10. CASE Leave
  BY <1>2, <1>6, <1>10 DEF Leave
<1> QED BY <1>7, <1>8, <1>9, <1>10

\* A call ends: the one below it is broken.
LEMMA FinishKeeps ==
  ASSUME WasmInv, Finish
  PROVE  WasmInv'
<1> USE DEF WasmInv
<1> PICK n \in Nat : n = Depth
  BY StackFacts
<1>1. /\ stack # <<>> /\ stack' = SubSeq(stack, 1, n - 1)
      /\ UNCHANGED <<g_xy_hooks, hook_id, last_ran, last_retp, current, registered>>
  BY DEF Finish
<1>2. stack \in Seq(Call) /\ n = Len(stack) /\ n >= 1 /\ n <= MaxDepth
  BY <1>1, StackFacts DEF CallTypes, Depth
<1>3. /\ stack' \in Seq(Call) /\ Depth' = n - 1
      /\ \A d \in 1 .. n - 1 : stack'[d] = stack[d]
  <2>1. stack' \in Seq(Call) /\ Len(stack') = n - 1
    BY <1>1, <1>2
  <2>2. \A d \in 1 .. n - 1 : stack'[d] = stack[d]
    BY <1>1, <1>2
  <2> QED BY <2>1, <2>2 DEF Depth
<1>4. Id' = Id /\ OwnListeners' /\ FirstIds' /\ InFirstSlot'
  BY <1>1, SameTable
<1>5. \A j : List(j)' = List(j) /\ \A x : Matches(j, x)' <=> Matches(j, x)
  BY <1>1 DEF List, Matches
<1>6. ASSUME NEW d \in 1 .. n - 1 PROVE CallsAt(d)' /\ stack'[d].broken
  <2>1. d \in 1 .. n /\ CallsAt(d)
    BY <1>2, StackFacts
  <2>2. d \in 1 .. Depth - 1
    OBVIOUS
  <2> QED BY <1>3, <1>4, <1>5, <2>1, <2>2 DEF CallsAt, OnlyTopIntact
<1>7. CallTypes'
  BY <1>2, <1>3, BoundAssumption DEF CallTypes
<1>8. OwnSlot'
  BY <1>3, <1>6 DEF OwnSlot, CallsAt
<1>9. OnlyTopIntact'
  BY <1>2, <1>3, <1>6 DEF OnlyTopIntact
<1>10. ChainIntact'
  <2>1. stack' # <<>> => n - 1 \in 1 .. n - 1
    BY <1>2, <1>3 DEF Depth
  <2> QED BY <1>3, <1>6, <2>1 DEF ChainIntact, Top
<1>11. WasmTypeOK'
  BY <1>1, <1>3, <1>4, <1>6 DEF WasmTypeOK, CallsAt
<1> QED BY <1>4, <1>7, <1>8, <1>9, <1>10, <1>11

(***************************************************************************)
(* The invariant holds                                                     *)
(***************************************************************************)

\* The page starts with an empty table and no call.
LEMMA WasmInitInv ==
  ASSUME WasmInit
  PROVE  WasmInv
<1> USE DEF WasmInit
<1>1. Depth = 0 /\ Id = {} /\ Len(g_xy_hooks) = 0
  BY DEF Depth, Id
<1>2. WasmTypeOK
  <2>1. hook_id \in [Adapter -> -1 .. XY_WASM_MAX_HOOKS - 1]
    BY AdapterAssumption, BoundAssumption
  <2> QED BY <1>1, <2>1, BoundAssumption DEF WasmTypeOK
<1>3. CallTypes
  BY <1>1, BoundAssumption DEF CallTypes
<1>4. OwnListeners /\ OwnSlot /\ InFirstSlot /\ OnlyTopIntact /\ ChainIntact
  BY <1>1 DEF OwnListeners, OwnSlot, InFirstSlot, OnlyTopIntact, ChainIntact
<1>5. FirstIds
  BY <1>1, AdapterAssumption DEF FirstIds, IdValid
<1> QED BY <1>2, <1>3, <1>4, <1>5 DEF WasmInv

\* A step of the page that leaves the dispatcher alone.
LEMMA WasmSame ==
  ASSUME WasmInv, UNCHANGED wasmVars
  PROVE  WasmInv'
<1>1. UNCHANGED <<g_xy_hooks, hook_id, stack, last_ran, last_retp, current, registered>>
  BY DEF wasmVars
<1>2. /\ Id' = Id /\ OwnListeners' /\ FirstIds' /\ InFirstSlot'
  BY <1>1, SameTable
<1>3. /\ \A d \in 1 .. Depth' : CallsAt(d)'
      /\ CallTypes' /\ OwnSlot' /\ OnlyTopIntact' /\ ChainIntact'
  BY <1>1, SameCalls
<1>4. WasmTypeOK'
  BY <1>1, <1>3 DEF WasmInv, WasmTypeOK, CallsAt
<1> QED BY <1>2, <1>3, <1>4 DEF WasmInv

\* Every step of the page keeps the invariant of the dispatcher.
LEMMA WasmStep ==
  ASSUME WasmInv, [Next]_vars
  PROVE  WasmInv'
<1>1. CASE Dispatcher
  <2>1. CASE \E a \in Listening, malloc \in BOOLEAN : xy_areg_existing(a, malloc)
    BY <2>1, AdapterAssumption, AregExistingKeeps DEF AdapterAssumption
  <2>2. CASE \E a \in Listening, malloc \in BOOLEAN : xy_areg_new(a, malloc)
    BY <2>2, AdapterAssumption, AregNewKeeps DEF AdapterAssumption
  <2>3. CASE \E reg \in Adapter : xy_call_none(reg)
    BY <2>3, CallNoneKeeps
  <2>4. CASE \E reg \in Adapter, retp \in BOOLEAN : (retp \/ reg \in Resultless) /\ xy_call(reg, retp)
    BY <2>4, CallKeeps
  <2>5. CASE Loop
    BY <2>5, LoopKeeps, FinishKeeps DEF Loop
  <2> QED BY <1>1, <2>1, <2>2, <2>3, <2>4, <2>5 DEF Dispatcher, WasmNext
<1>2. CASE UNCHANGED wasmVars
  BY <1>2, WasmSame
<1> QED BY <1>1, <1>2 DEF Next, vars, xy_load, xy_unload, Task, Page

\* WasmInv is an invariant of the page, whatever the bridge does.
LEMMA WasmInvariance ==
  Spec => []WasmInv
<1>1. Init => WasmInv
  BY WasmInitInv DEF Init
<1>2. WasmInv /\ [Next]_vars => WasmInv'
  BY WasmStep
<1> QED BY <1>1, <1>2, PTL DEF Spec

(***************************************************************************)
(* The theorems                                                            *)
(***************************************************************************)

\* Every variable of the page has its type: the table of the dispatcher never grows
\* past its size, and no call stands behind the end of its list, whatever is
\* registered while it runs.
THEOREM WebTypeCorrect == Spec => []TypeOK
<1>1. WasmInv => WasmTypeOK
  BY DEF WasmInv
<1>2. BridgeInv => BridgeTypeOK
  BY DEF BridgeInv
<1> QED BY <1>1, <1>2, WasmInvariance, BridgeSpecInv, PTL DEF TypeOK

\* A call runs only listeners of its own hook, whatever id the adapter held before.
THEOREM RunsOwnHookCorrect == Spec => []RunsOwnHook
<1>1. WasmInv => RunsOwnHook
  <2> SUFFICES ASSUME WasmInv, NEW d \in 1 .. Depth, NEW i \in DOMAIN List(stack[d].id)
               PROVE  Kept[AdName[List(stack[d].id)[i]]] = AdName[stack[d].reg]
    BY DEF RunsOwnHook
  <2>1. stack[d].id \in Id /\ Matches(stack[d].id, AdName[stack[d].reg])
    BY StackFacts DEF CallsAt
  <2> QED BY <2>1 DEF Matches, WasmInv, OwnListeners
<1> QED BY <1>1, WasmInvariance, PTL

\* A listener that xy_areg took is found by every call of its hook, through whichever
\* adapter and after whatever failed registration or earlier call.
THEOREM RegisteredIsFoundCorrect == Spec => []RegisteredIsFound
<1>1. WasmInv => RegisteredIsFound
  <2> SUFFICES ASSUME WasmInv, NEW a \in registered, NEW reg \in Adapter,
                      Kept[AdName[a]] = AdName[a], AdName[reg] = AdName[a]
               PROVE  \E i \in Id : Resolves(reg, i) /\ \E k \in DOMAIN List(i) : List(i)[k] = a
    BY DEF RegisteredIsFound
  <2>1. PICK i \in Id : FirstMatch(i, AdName[a]) /\ \E k \in DOMAIN List(i) : List(i)[k] = a
    BY DEF WasmInv, InFirstSlot
  <2>2. Resolves(reg, i)
    <3>1. CASE IdValid(reg)
      <4>1. hook_id[reg] \in Id /\ FirstMatch(hook_id[reg], AdName[reg])
        BY <3>1 DEF WasmInv, FirstIds, IdValid
      <4>2. hook_id[reg] \in Nat /\ i \in Nat
        BY <4>1, SlotFacts
      <4>3. hook_id[reg] = i
        BY <2>1, <4>1, <4>2 DEF FirstMatch
      <4> QED BY <3>1, <4>3 DEF Resolves
    <3>2. CASE ~IdValid(reg)
      BY <2>1, <3>2 DEF Resolves
    <3> QED BY <3>1, <3>2
  <2> QED BY <2>1, <2>2
<1> QED BY <1>1, WasmInvariance, PTL

\* xy_last in a listener reads the result of its own call, until a listener of that
\* call has made a call that ran.
THEOREM ChainIntactCorrect == Spec => []ChainIntact
<1>1. WasmInv => ChainIntact
  BY DEF WasmInv
<1> QED BY <1>1, WasmInvariance, PTL
===============================================================================
