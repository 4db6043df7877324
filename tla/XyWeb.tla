-------------------------------- MODULE XyWeb ---------------------------------
(***************************************************************************)
(* A page that runs the WebAssembly build: the dispatcher of XyWasm and    *)
(* the bridge of XyBridge in one thread.  Listeners load and unload side   *)
(* modules; what follows an await runs when no hook call is under way.     *)
(***************************************************************************)
EXTENDS XyWasm, XyBridge

vars == <<wasmVars, bridgeVars>>

\* A step of the program in the dispatcher.
Dispatcher == WasmNext /\ UNCHANGED bridgeVars

\* The C functions pass the name on.  The promise that xy_load gets for an answer is the
\* integer 0: the caller sees XY_OK whatever becomes of the load.
xy_load(l, m) == MayCall /\ wasm_xy_load_module(l, m) /\ UNCHANGED wasmVars
xy_unload(m) == MayCall /\ wasm_xy_unload_module(m) /\ UNCHANGED wasmVars

\* The event loop of the page.
Task(l) == stack = <<>> /\ Settle(l) /\ UNCHANGED wasmVars
Page == stack = <<>> /\ (destroy \/ MainReady) /\ UNCHANGED wasmVars

Init == WasmInit /\ BridgeInit

Next ==
  \/ Dispatcher
  \/ \E l \in Load, m \in Module : xy_load(l, m)
  \/ \E m \in Module : xy_unload(m)
  \/ \E l \in Load : Task(l)
  \/ Page

\* The loop of a call goes on; a listener that has the control again and again returns
\* some day; awaited promises settle, and the event loop serves them.
Fairness ==
  /\ WF_vars(Loop /\ UNCHANGED bridgeVars)
  /\ \A d \in 1 .. MaxDepth : SF_vars(Depth = d /\ Leave /\ UNCHANGED bridgeVars)
  /\ \A l \in Load : SF_vars(Task(l))

Spec == Init /\ [][Next]_vars /\ Fairness

\* Every variable of the dispatcher and of the bridge has its type.
TypeOK == WasmTypeOK /\ BridgeTypeOK
===============================================================================
