-------------------------------- MODULE XyCall --------------------------------
(***************************************************************************)
(* A hook call of libxylem at work: xy_dispatch enters one listener after  *)
(* the other, listeners call hooks themselves and move the current region, *)
(* and xy_last gives a listener the return value of its predecessor.       *)
(*                                                                         *)
(* The regions, the modules in them and the dispatch vectors do not change *)
(* here: XyDispatch says what they are.  What does change is the state     *)
(* that running dispatches share: the thread-local result of xy_last, the  *)
(* thread-local current region, and the process-wide xy.adapter.           *)
(***************************************************************************)
EXTENDS XySeq

CONSTANTS
  Thread,
  Region,
  RegionId,     \* the id half of each region; regions of different width may share one
  Home,         \* the region every thread starts in
  Mod,
  ModRegion,    \* me->region_entry
  Subtree,      \* per region: it and all regions below it
  Library,      \* shared libraries; each has one ctx, shared by all its entries
  ModLibrary,   \* the library of a module entry
  CtxRegion,    \* the region in ctx->region_id, written by the latest load of the library
  Hook,
  Valued,       \* the hooks that return a value: their ret_size is not 0
  Vector,       \* per region and hook: the listeners, in dispatch order
  Denied,       \* the pairs <<region, hook>> such that a strict ancestor denies the hook
  Claimable,    \* the regions that listeners pass to xy_claim_at
  MaxDepth,     \* bound: nested dispatches per thread
  NoHook        \* the NULL adapter

ASSUME HomeAssumption == Home \in Region
ASSUME ClaimableAssumption == Claimable \subseteq Region
ASSUME ModAssumption ==
  /\ ModRegion \in [Mod -> Region]
  /\ ModLibrary \in [Mod -> Library]
  /\ CtxRegion \in [Library -> Region]
ASSUME SubtreeAssumption ==
  /\ Subtree \in [Region -> SUBSET Region]
  /\ \A r \in Region : r \in Subtree[r]
  /\ \A r \in Region : \A q \in Subtree[r] : Subtree[q] \subseteq Subtree[r]
ASSUME VectorAssumption ==
  /\ Vector \in [Region \X Hook -> Seq(Mod)]
  /\ \A r \in Region, h \in Hook : \A i \in DOMAIN Vector[<<r, h>>] :
       ModRegion[Vector[<<r, h>>][i]] \in Subtree[r]
ASSUME AdapterAssumption == NoHook \notin Hook
ASSUME BoundAssumption == MaxDepth \in Nat

VARIABLES
  stack,      \* per thread: the running dispatches, outermost first
  current,    \* per thread: xy_current_region_id and xy_current_region_entry
  last_ran,   \* per thread: xy_last_ran
  last_retp,  \* per thread: xy_last_retp: the retp of a dispatch, by its depth, or
              \* RetBuf, or 0 for NULL
  retbuf,     \* per thread: xy_last_retbuf
  adapter,    \* xy.adapter, and the thread that wrote it last
  region_state,  \* per library: whose state ctx->region_state points to, and the thread
              \* that wrote it last
  claimed     \* per thread: a listener of the outermost dispatch called xy_claim_at

vars == <<stack, current, last_ran, last_retp, retbuf, adapter, region_state, claimed>>

RetBuf == MaxDepth + 1

\* What a listener returns; 0 is what no listener has written.
Value == (Hook \X Mod) \cup {<<>>}

Top(t) == stack[t][Len(stack[t])]
Depth(t) == Len(stack[t])
SetTop(t, f) == [stack EXCEPT ![t][Len(stack[t])] = f]

set_current_region(t, id, entry) ==
  current' = [current EXCEPT ![t] = [id |-> id, entry |-> entry]]

\* Listeners run only between Enter and Leave; a thread without a dispatch is in
\* the host.
Inside(t) == stack[t] # <<>> /\ Top(t).inside
MayCall(t) == stack[t] # <<>> => Top(t).inside

(***************************************************************************)
(* Actions                                                                 *)
(***************************************************************************)

\* A caller that is a listener itself will find the result of this call in
\* xy_last until it returns.
MarkNested(t) == IF stack[t] = <<>> THEN <<>>
                 ELSE [stack[t] EXCEPT ![Len(stack[t])].nested = TRUE]

\* Where the loop over the slots starts.
\* Mutant: one slot too early.
FirstSlot_early == 0
FirstSlot == 1

\* What a dispatch at some depth puts into xy_last_retp; retp may be NULL.
Publish(retp, depth) == IF retp THEN depth ELSE 0

\* The exact-region scope of xy_call_self takes the caller's own modules only.
Slots(r, h, self) ==
  IF self THEN Filter(Vector[<<r, h>>], {m \in Mod : ModRegion[m] = r}) ELSE Vector[<<r, h>>]

\* The dispatch of a thread whose current region is c, before its loop.
NewDispatch(c, h, self, retp) ==
  [reg |-> h, caller |-> c.entry, id |-> c.id, self |-> self, retp |-> retp,
   slots |-> Slots(c.entry, h, self), pos |-> FirstSlot, inside |-> FALSE,
   prev |-> c.entry, ret |-> <<>>, nested |-> FALSE]

\* xy_dispatch up to its loop.  retp says that there is a return value and that the
\* caller has a variable for it.
Call(t, h, self, retp) ==
  /\ MayCall(t)
  /\ Depth(t) < MaxDepth
  /\ <<current[t].entry, h>> \notin Denied
  /\ retp => h \in Valued
  /\ stack' = [stack EXCEPT ![t] = Append(MarkNested(t), NewDispatch(current[t], h, self, retp))]
  /\ last_ran' = [last_ran EXCEPT ![t] = 0]
  /\ last_retp' = [last_retp EXCEPT ![t] = Publish(retp, Depth(t) + 1)]
  /\ adapter' = [reg |-> h, by |-> t]
  /\ UNCHANGED <<current, retbuf, region_state, claimed>>

\* The fail path of xy_dispatch: an ancestor denies the hook.
CallRefused(t, h) ==
  /\ MayCall(t)
  /\ Depth(t) < MaxDepth
  /\ <<current[t].entry, h>> \in Denied
  /\ stack' = [stack EXCEPT ![t] = MarkNested(t)]
  /\ last_ran' = [last_ran EXCEPT ![t] = 0]
  /\ last_retp' = [last_retp EXCEPT ![t] = 0]
  /\ adapter' = [reg |-> h, by |-> t]
  /\ UNCHANGED <<current, retbuf, region_state, claimed>>

\* Mutant: the ids are compared, which a region shares with its leftmost child.
RegionChanged_by_id(f) == ~f.self /\ RegionId[ModRegion[f.slots[f.pos]]] # f.id

\* The current region is switched only for a module of another region, and to
\* the id in the library's ctx.
RegionChanged(f) == ~f.self /\ ModRegion[f.slots[f.pos]] # f.caller

\* The state of the entry goes into the ctx of its library.
SetState(t, m) == region_state' = [region_state EXCEPT ![ModLibrary[m]] = [of |-> m, by |-> t]]

Enter(t) ==
  /\ stack[t] # <<>>
  /\ LET f == Top(t)
         m == f.slots[f.pos]
     IN /\ ~f.inside
        /\ f.pos <= Len(f.slots)
        /\ stack' = SetTop(t, [f EXCEPT !.inside = TRUE, !.prev = current[t].entry,
                                        !.nested = FALSE])
        /\ IF RegionChanged(f)
           THEN set_current_region(t, RegionId[CtxRegion[ModLibrary[m]]], ModRegion[m])
           ELSE UNCHANGED current
        /\ SetState(t, m)
  /\ UNCHANGED <<last_ran, last_retp, retbuf, adapter, claimed>>

\* A listener calls xy_claim_at: the region becomes the current one.
ClaimAt(t, r) ==
  /\ Inside(t)
  /\ r # current[t].entry
  /\ set_current_region(t, RegionId[r], r)
  /\ claimed' = [claimed EXCEPT ![t] = TRUE]
  /\ UNCHANGED <<stack, last_ran, last_retp, retbuf, adapter, region_state>>

\* Mutant: the count is published, but not the pointer.
xy_last_publish_count(t, f) ==
  /\ last_ran' = [last_ran EXCEPT ![t] = f.pos]
  /\ adapter' = [reg |-> f.reg, by |-> t]
  /\ UNCHANGED last_retp

\* After each listener: the result, and this dispatch's adapter and retp again,
\* because a nested call has overwritten them.
xy_last_publish(t, f) ==
  /\ last_ran' = [last_ran EXCEPT ![t] = f.pos]
  /\ last_retp' = [last_retp EXCEPT ![t] = Publish(f.retp, Depth(t))]
  /\ adapter' = [reg |-> f.reg, by |-> t]

\* What a listener leaves of its dispatch: without retp its value is lost.
Returned(f) ==
  [f EXCEPT !.inside = FALSE, !.pos = @ + 1,
            !.ret = IF f.retp THEN <<f.reg, f.slots[f.pos]>> ELSE @]

\* Mutant: the current region is restored only if the caller's region is not the
\* one that was current when the listener was entered.
Leave_lazy(t) ==
  /\ Inside(t)
  /\ LET f == Top(t)
     IN /\ stack' = SetTop(t, Returned(f))
        /\ IF RegionChanged(f) /\ f.prev # f.caller
           THEN set_current_region(t, f.id, f.prev) ELSE UNCHANGED current
        /\ xy_last_publish(t, f)
  /\ UNCHANGED <<retbuf, region_state, claimed>>

\* The listener returns: its value is in *retp, and the region is put back to the
\* id of the caller and the entry that was current before.
Leave(t) ==
  /\ Inside(t)
  /\ LET f == Top(t)
     IN /\ stack' = SetTop(t, Returned(f))
        /\ IF RegionChanged(f) THEN set_current_region(t, f.id, f.prev) ELSE UNCHANGED current
        /\ xy_last_publish(t, f)
  /\ UNCHANGED <<retbuf, region_state, claimed>>

\* Mutant: the pointer of the finished dispatch stays.
xy_set_last_ret_keeps_pointer(t, kept, ret) ==
  /\ retbuf' = [retbuf EXCEPT ![t] = IF kept THEN ret ELSE @]
  /\ UNCHANGED last_retp

\* The result, if there is one, moves from the caller's variable to the thread's
\* buffer.
xy_set_last_ret(t, kept, ret) ==
  /\ retbuf' = [retbuf EXCEPT ![t] = IF kept THEN ret ELSE @]
  /\ last_retp' = [last_retp EXCEPT ![t] = IF kept THEN RetBuf ELSE 0]

\* The loop is over.
Finish(t) ==
  /\ stack[t] # <<>>
  /\ LET f   == Top(t)
         ran == Len(f.slots)
     IN /\ ~f.inside
        /\ f.pos > ran
        /\ stack' = [stack EXCEPT ![t] = SubSeq(@, 1, Len(@) - 1)]
        /\ last_ran' = [last_ran EXCEPT ![t] = ran]
        /\ xy_set_last_ret(t, ran # 0 /\ f.retp, f.ret)
  /\ claimed' = [claimed EXCEPT ![t] = @ /\ Depth(t) > 1]
  /\ UNCHANGED <<current, adapter, region_state>>

Init ==
  /\ stack = [t \in Thread |-> <<>>]
  /\ current = [t \in Thread |-> [id |-> RegionId[Home], entry |-> Home]]
  /\ last_ran = [t \in Thread |-> 0]
  /\ last_retp = [t \in Thread |-> 0]
  /\ retbuf = [t \in Thread |-> <<>>]
  /\ \E t \in Thread : adapter = [reg |-> NoHook, by |-> t]
  /\ region_state \in [Library -> [of : {<<>>}, by : Thread]]
  /\ claimed = [t \in Thread |-> FALSE]

Next ==
  \E t \in Thread :
    \/ \E h \in Hook, self, retp \in BOOLEAN : Call(t, h, self, retp)
    \/ \E h \in Hook : CallRefused(t, h)
    \/ Enter(t)
    \/ \E r \in Claimable : ClaimAt(t, r)
    \/ Leave(t)
    \/ Finish(t)

Spec == Init /\ [][Next]_vars

(***************************************************************************)
(* xy_last                                                                 *)
(***************************************************************************)

NotFound == <<"XY_ERR_NOTFOUND">>

\* XY_OK, and the variable of the caller as it was.
Unwritten == <<"XY_OK">>

\* What the pointer shows.
Deref(t) ==
  IF last_retp[t] = RetBuf THEN retbuf[t]
  ELSE IF last_retp[t] \in DOMAIN stack[t] THEN stack[t][last_retp[t]].ret
  ELSE <<>>

xy_last(t) ==
  IF last_ran[t] = 0 THEN NotFound ELSE IF last_retp[t] = 0 THEN Unwritten ELSE Deref(t)

(***************************************************************************)
(* Properties                                                              *)
(***************************************************************************)

\* Every variable has its type.
TypeOK ==
  /\ \A t \in Thread :
       /\ Len(stack[t]) <= MaxDepth
       /\ \A i \in DOMAIN stack[t] :
            LET f == stack[t][i]
            IN f.reg \in Hook /\ f.ret \in Value /\ f.pos \in 1 .. Len(f.slots) + 1
  /\ current \in [Thread -> [id : {RegionId[r] : r \in Region}, entry : Region]]
  /\ last_retp \in [Thread -> 0 .. RetBuf]
  /\ retbuf \in [Thread -> Value]
  /\ region_state \in [Library -> [of : Mod \cup {<<>>}, by : Thread]]
  /\ claimed \in [Thread -> BOOLEAN]

\* A listener that has not called a hook itself finds in xy_last the value its
\* predecessor in the same dispatch returned, or nothing if it is the first or if
\* the caller did not want a value; no nested call of the predecessor shows.  And the
\* adapter that xy_last takes the size from is that of this dispatch, unless another
\* thread wrote it since.
LastIsPredecessor ==
  \A t \in Thread :
    Inside(t) /\ ~Top(t).nested =>
      LET f == Top(t)
      IN /\ xy_last(t) = IF f.pos = 1 THEN NotFound
                         ELSE IF f.retp THEN <<f.reg, f.slots[f.pos - 1]>> ELSE Unwritten
         /\ adapter.by = t => adapter.reg = f.reg

\* The pointer that xy_last reads through never names the variable of a dispatch
\* that has returned.
NoDanglingResult ==
  \A t \in Thread : last_retp[t] \in DOMAIN stack[t] \cup {0, RetBuf}

\* Unless a listener called xy_claim_at, a listener of a subtree dispatch runs in
\* the region of its module, however deep the dispatch is nested, and the host gets
\* back the region it called from.
RunsInOwnRegion ==
  \A t \in Thread :
    ~claimed[t] =>
      IF Inside(t) THEN current[t].entry = ModRegion[Top(t).slots[Top(t).pos]]
      ELSE stack[t] # <<>> => current[t].entry = Top(t).caller

\* All entries of a library share the pointer xy.region_state, and a listener that
\* calls a hook runs other entries of its own library before it goes on.  Whatever it
\* and the listeners below it have called, the state it then finds is that of an
\* entry in its own region or below, never that of a region above or beside: a call
\* made from a listener starts in the listener's region.  Unless a listener called
\* xy_claim_at, or another thread wrote the pointer since.
StateFromBelow ==
  \A t \in Thread :
    Inside(t) /\ ~claimed[t] =>
      LET m == Top(t).slots[Top(t).pos]
          s == region_state[ModLibrary[m]]
      IN s.by = t => s.of \in Mod /\ ModRegion[s.of] \in Subtree[ModRegion[m]]
===============================================================================
