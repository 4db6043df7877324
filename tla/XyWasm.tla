-------------------------------- MODULE XyWasm --------------------------------
(***************************************************************************)
(* The hook dispatcher of the WebAssembly build of libxylem.               *)
(*                                                                         *)
(* There are no regions and no shared libraries: a flat table of hooks,    *)
(* each with the list of adapters registered under its name, and one set   *)
(* of globals for xy_last.  The adapters are those that the hook macros    *)
(* generate: XY_DECL makes one to call with, XY_DEF one to call with that  *)
(* is also registered, XY_IMPL and XY_LISTENER_TAG one that runs a         *)
(* listener.  As these macros do, the model registers an adapter under its *)
(* own name only, although xy_areg takes a name of its own.  What listeners *)
(* return is left out: xy_last is about whose variable the pointer names.  *)
(***************************************************************************)
EXTENDS Integers, Sequences

CONSTANTS
  Name,               \* hook names
  Kept,               \* per name: what is left of it in the 64 byte buffer of a slot
  Adapter,
  AdName,             \* adapter->name
  AdCall,             \* adapter->call: "none" (XY_DECL), "zero" (XY_DEF: without a function
                      \* it clears the result) or "run" (XY_IMPL, XY_LISTENER_TAG)
  FirstId,            \* adapter->hook_id before any call: -1, or 0 in a struct written by hand
  Listening,          \* the adapters that the program passes to xy_areg; those of XY_DECL
                      \* are for callers
  Resultless,         \* bound: the adapters that are also called with NULL for the result
  XY_WASM_MAX_HOOKS,
  MaxListeners,       \* bound: listeners of one hook
  MaxDepth            \* bound: nested calls

ASSUME KeptAssumption == Kept \in [Name -> Name] /\ \A n \in Name : Kept[Kept[n]] = Kept[n]
ASSUME AdapterAssumption ==
  /\ AdName \in [Adapter -> Name]
  /\ AdCall \in [Adapter -> {"none", "zero", "run"}]
  /\ FirstId \in [Adapter -> {-1, 0}]
  /\ Listening \subseteq Adapter /\ Resultless \subseteq Adapter
ASSUME BoundAssumption ==
  XY_WASM_MAX_HOOKS \in Nat \ {0} /\ MaxListeners \in Nat /\ MaxDepth \in Nat

VARIABLES
  g_xy_hooks,  \* the slots in use: a name and a list of adapters each; ids count from 0
  hook_id,     \* per adapter: hook_id
  stack,       \* the running calls, outermost first
  last_ran,    \* g_xy_last_ran
  last_retp,   \* g_xy_last_retp: the call whose return variable it points to, by depth,
               \* or 0 for NULL, which a caller may pass
  current,     \* g_xy_current_adapter; <<>> for NULL
  registered   \* history: the adapters for which xy_areg returned an id

wasmVars == <<g_xy_hooks, hook_id, stack, last_ran, last_retp, current, registered>>

Depth == Len(stack)
Top == stack[Depth]
List(id) == g_xy_hooks[id + 1].listeners

\* Code of the program runs in the host, or in a listener that was entered.
MayCall == stack # <<>> => Top.inside

(***************************************************************************)
(* Lookup by name                                                          *)
(***************************************************************************)

Id == 0 .. Len(g_xy_hooks) - 1

\* strcmp of the name in the slot with a name.
Matches(i, n) == g_xy_hooks[i + 1].name = n

\* The searches stop at the first match.
FirstMatch(i, n) == Matches(i, n) /\ \A j \in 0 .. i - 1 : ~Matches(j, n)

\* Mutant: a slot whose first registration failed is not seen.
NoMatch_filled(n) == \A i \in Id : ~(Matches(i, n) /\ List(i) # <<>>)

NoMatch(n) == \A i \in Id : ~Matches(i, n)

(***************************************************************************)
(* Registration                                                            *)
(***************************************************************************)

\* The name has a slot: the adapter goes to the end of its list.  If malloc fails it
\* has the id all the same.
xy_areg_existing(a, malloc) ==
  /\ MayCall
  /\ \E i \in Id :
       /\ FirstMatch(i, AdName[a])
       /\ Len(List(i)) < MaxListeners
       /\ hook_id' = [hook_id EXCEPT ![a] = i]
       /\ IF malloc
          THEN /\ g_xy_hooks' = [g_xy_hooks EXCEPT ![i + 1].listeners = Append(@, a)]
               /\ registered' = registered \cup {a}
          ELSE UNCHANGED <<g_xy_hooks, registered>>
  /\ UNCHANGED <<stack, last_ran, last_retp, current>>

\* Mutant: the size of the table is not looked at.
xy_areg_new_unlimited(a, malloc) ==
  /\ MayCall
  /\ NoMatch(AdName[a])
  /\ g_xy_hooks' = Append(g_xy_hooks, [name |-> Kept[AdName[a]],
                                       listeners |-> IF malloc THEN <<a>> ELSE <<>>])
  /\ UNCHANGED <<hook_id, registered, stack, last_ran, last_retp, current>>

\* A new slot.  It is counted before malloc is tried: if that fails the slot stays,
\* without a listener, and the adapter has no id.
xy_areg_new(a, malloc) ==
  /\ MayCall
  /\ NoMatch(AdName[a])
  /\ Len(g_xy_hooks) < XY_WASM_MAX_HOOKS
  /\ g_xy_hooks' = Append(g_xy_hooks, [name |-> Kept[AdName[a]],
                                       listeners |-> IF malloc THEN <<a>> ELSE <<>>])
  /\ IF malloc
     THEN /\ hook_id' = [hook_id EXCEPT ![a] = Len(g_xy_hooks)]
          /\ registered' = registered \cup {a}
     ELSE UNCHANGED <<hook_id, registered>>
  /\ UNCHANGED <<stack, last_ran, last_retp, current>>

(***************************************************************************)
(* Calls                                                                   *)
(***************************************************************************)

\* Mutant: any id that is in range is believed.
IdValid_in_range(reg) == hook_id[reg] \in Id

\* The cached id is used only if the slot has the adapter's name.
IdValid(reg) == hook_id[reg] \in Id /\ Matches(hook_id[reg], AdName[reg])

\* The slot a call through reg uses, by the cached id or by a search.
Resolves(reg, i) == IF IdValid(reg) THEN i = hook_id[reg] ELSE FirstMatch(i, AdName[reg])

\* Mutant: the globals are reset before it is known that somebody listens.
xy_call_none_resets(reg) ==
  /\ MayCall
  /\ \A i \in Id : Resolves(reg, i) => List(i) = <<>>
  /\ \/ /\ \E i \in Id : Resolves(reg, i) /\ hook_id' = [hook_id EXCEPT ![reg] = i]
     \/ /\ \A i \in Id : ~Resolves(reg, i)
        /\ UNCHANGED hook_id
  /\ last_ran' = 0
  /\ UNCHANGED <<g_xy_hooks, stack, last_retp, current, registered>>

\* Nobody listens: the result is cleared, and what xy_last shows stays as it is.  A
\* slot that was found is remembered.
xy_call_none(reg) ==
  /\ MayCall
  /\ \A i \in Id : Resolves(reg, i) => List(i) = <<>>
  /\ \/ /\ \E i \in Id : Resolves(reg, i) /\ hook_id' = [hook_id EXCEPT ![reg] = i]
     \/ /\ \A i \in Id : ~Resolves(reg, i)
        /\ UNCHANGED hook_id
  /\ UNCHANGED <<g_xy_hooks, stack, last_ran, last_retp, current, registered>>

\* From here on xy_last shows this call, also to the listeners of the call that the
\* caller is part of.
BreakChain == [d \in 1 .. Depth |-> [stack[d] EXCEPT !.broken = TRUE]]

\* xy_call up to its loop.  xy_call_self is the same.  retp says that the caller passes
\* a variable.
xy_call(reg, retp) ==
  /\ MayCall
  /\ Depth < MaxDepth
  /\ \E i \in Id :
       /\ Resolves(reg, i)
       /\ List(i) # <<>>
       /\ hook_id' = [hook_id EXCEPT ![reg] = i]
       /\ stack' = Append(BreakChain, [id |-> i, reg |-> reg, retp |-> retp, cur |-> 1,
                                       ran |-> 0, inside |-> FALSE, broken |-> FALSE])
  /\ current' = reg
  /\ last_retp' = IF retp THEN Depth + 1 ELSE 0
  /\ last_ran' = 0
  /\ UNCHANGED <<g_xy_hooks, registered>>

SetTop(f) == stack' = [stack EXCEPT ![Depth] = f]

\* The loop is at a listener, or behind the last one.
AtListener == stack # <<>> /\ ~Top.inside /\ Top.cur <= Len(List(Top.id))
Listener == List(Top.id)[Top.cur]

\* An adapter without a call function is passed over.
Skip ==
  /\ AtListener
  /\ AdCall[Listener] = "none"
  /\ SetTop([Top EXCEPT !.cur = @ + 1])
  /\ UNCHANGED <<g_xy_hooks, hook_id, last_ran, last_retp, current, registered>>

\* A listener has run.
Ran ==
  /\ SetTop([Top EXCEPT !.cur = @ + 1, !.ran = @ + 1, !.inside = FALSE])
  /\ last_ran' = Top.ran + 1

\* The adapter of XY_DEF runs nothing and clears the result.
Clear ==
  /\ AtListener
  /\ AdCall[Listener] = "zero"
  /\ Ran
  /\ UNCHANGED <<g_xy_hooks, hook_id, last_retp, current, registered>>

Enter ==
  /\ AtListener
  /\ AdCall[Listener] = "run"
  /\ SetTop([Top EXCEPT !.inside = TRUE])
  /\ UNCHANGED <<g_xy_hooks, hook_id, last_ran, last_retp, current, registered>>

Leave ==
  /\ stack # <<>>
  /\ Top.inside
  /\ Ran
  /\ UNCHANGED <<g_xy_hooks, hook_id, last_retp, current, registered>>

\* cur->next is NULL: it is read after each listener, so one that was registered
\* meanwhile runs too.
Finish ==
  /\ stack # <<>>
  /\ ~Top.inside
  /\ Top.cur > Len(List(Top.id))
  /\ stack' = SubSeq(stack, 1, Depth - 1)
  /\ UNCHANGED <<g_xy_hooks, hook_id, last_ran, last_retp, current, registered>>

WasmInit ==
  /\ g_xy_hooks = <<>>
  /\ hook_id = FirstId
  /\ stack = <<>>
  /\ last_ran = 0
  /\ last_retp = 0
  /\ current = <<>>
  /\ registered = {}

Loop == Skip \/ Clear \/ Enter \/ Leave \/ Finish

WasmNext ==
  \/ \E a \in Listening, malloc \in BOOLEAN : xy_areg_existing(a, malloc)
  \/ \E a \in Listening, malloc \in BOOLEAN : xy_areg_new(a, malloc)
  \/ \E reg \in Adapter : xy_call_none(reg)
  \/ \E reg \in Adapter, retp \in BOOLEAN : (retp \/ reg \in Resultless) /\ xy_call(reg, retp)
  \/ Loop

(***************************************************************************)
(* Properties                                                              *)
(***************************************************************************)

\* Every variable has its type; a call is at a position of its list or just behind.
WasmTypeOK ==
  /\ g_xy_hooks \in Seq([name : Name, listeners : Seq(Adapter)])
  /\ Len(g_xy_hooks) <= XY_WASM_MAX_HOOKS
  /\ hook_id \in [Adapter -> -1 .. XY_WASM_MAX_HOOKS - 1]
  /\ last_ran \in Nat /\ last_retp \in 0 .. MaxDepth
  /\ registered \subseteq Adapter
  /\ \A d \in 1 .. Depth : LET f == stack[d] IN
       /\ f.id \in Id
       /\ f.cur \in 1 .. Len(List(f.id)) + 1
       /\ f.inside => f.cur <= Len(List(f.id))

\* A call runs only what was registered under a name that the slot's buffer cannot
\* tell from the called one, whatever id the adapter held before: the id is checked
\* against the name of the slot.
RunsOwnHook ==
  \A d \in 1 .. Depth : \A i \in DOMAIN List(stack[d].id) :
    Kept[AdName[List(stack[d].id)[i]]] = AdName[stack[d].reg]

\* Whichever adapter a hook is called through, and whatever failed or was tried
\* before, the call finds the slot in which xy_areg put the listener; only names that
\* are too long for the buffer are lost.
RegisteredIsFound ==
  \A a \in registered, reg \in Adapter :
    (Kept[AdName[a]] = AdName[a] /\ AdName[reg] = AdName[a]) =>
      \E i \in Id : Resolves(reg, i) /\ \E k \in DOMAIN List(i) : List(i)[k] = a

\* xy_last in a listener reads the result of this very call, or none if the caller
\* passed NULL, with the count of the listeners before it: unless one of the listeners
\* of the call has made a call that ran, which the loop does not repair.  Calls that
\* found nobody do no harm.
ChainIntact ==
  (stack # <<>> /\ ~Top.broken) =>
    /\ last_retp = IF Top.retp THEN Depth ELSE 0
    /\ last_ran = Top.ran
    /\ current = Top.reg
===============================================================================
