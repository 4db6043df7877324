----------------------------- MODULE XyCallProofs -----------------------------
(***************************************************************************)
(* Proofs about XyCall, for any number of threads, regions, modules and    *)
(* hooks, and any depth of nested dispatches.                              *)
(***************************************************************************)
EXTENDS XyCall, XySeqProofs

(***************************************************************************)
(* The inductive invariant.  It is a statement about each thread: what its *)
(* stack s, the entry c of its current region, its xy_last_ran lr and      *)
(* xy_last_retp lp, and its history cl have to do with each other and with *)
(* the shared adapter ad and region_state rs.                              *)
(***************************************************************************)

Ids == {RegionId[r] : r \in Region}
Frame ==
  [reg : Hook, caller : Region, id : Ids, self : BOOLEAN, retp : BOOLEAN, slots : Seq(Mod),
   pos : Nat, inside : BOOLEAN, prev : Region, ret : Value, nested : BOOLEAN]

Ctx == [of : Mod \cup {<<>>}, by : Thread]

TopOf(s) == s[Len(s)]
At(f) == f.slots[f.pos]

\* A dispatch is at a slot or behind the last one, and its result, if it has one, is
\* that of the slot before; its slots are modules at or below the caller, and those of
\* xy_call_self modules of the caller.
FrameOK(f) ==
  /\ f.pos \in 1 .. Len(f.slots) + 1
  /\ f.inside => f.pos \in DOMAIN f.slots
  /\ f.pos > 1 /\ f.retp => f.ret = <<f.reg, f.slots[f.pos - 1]>>
  /\ f.self => \A i \in DOMAIN f.slots : ModRegion[f.slots[i]] = f.caller
  /\ \A i \in DOMAIN f.slots : ModRegion[f.slots[i]] \in Subtree[f.caller]

\* A dispatch that has another one above it waits in a listener that called it.
Waiting(s) == \A i \in 1 .. Len(s) - 1 : s[i].inside /\ s[i].nested

\* As long as nobody claims a region: each dispatch puts back the region it was called
\* from, and that of a nested one is the region of the listener that called it.
Chained(s) ==
  /\ \A i \in DOMAIN s : s[i].prev = s[i].caller
  /\ \A i \in 1 .. Len(s) - 1 : s[i + 1].caller = ModRegion[At(s[i])]

\* The current region is that of the listener, or that of the caller between two.
InOwn(s, c) ==
  s # <<>> => c = IF TopOf(s).inside THEN ModRegion[At(TopOf(s))] ELSE TopOf(s).caller

\* xy_last shows the top dispatch of the thread, unless its listener has made a call.
Shows(u, s, lr, lp, ad) ==
  s # <<>> /\ (TopOf(s).inside => ~TopOf(s).nested) =>
    /\ lr = TopOf(s).pos - 1
    /\ lp = Publish(TopOf(s).retp, Len(s))
    /\ ad.by = u => ad.reg = TopOf(s).reg

\* A nested dispatch starts at or below the region of every listener that waits for it.
Nests(s) ==
  \A j \in DOMAIN s : \A i \in 1 .. j - 1 : s[j].caller \in Subtree[ModRegion[At(s[i])]]

\* The state in the ctx of listener m is that of an entry at or below m, as far as it is
\* thread u that wrote it.
OwnOrBelow(u, m, rs) ==
  LET st == rs[ModLibrary[m]]
  IN st.by = u => st.of \in Mod /\ ModRegion[st.of] \in Subtree[ModRegion[m]]

\* So it is for the listener that runs, and for all that wait for it.
FromBelow(u, s, rs) == \A i \in DOMAIN s : s[i].inside => OwnOrBelow(u, At(s[i]), rs)

ThreadInv(u, s, c, lr, lp, cl, ad, rs) ==
  /\ s \in Seq(Frame) /\ Len(s) <= MaxDepth
  /\ \A i \in DOMAIN s : FrameOK(s[i])
  /\ Waiting(s)
  /\ ~cl => Chained(s) /\ InOwn(s, c)
  /\ ~cl => Nests(s) /\ FromBelow(u, s, rs)
  /\ Shows(u, s, lr, lp, ad)
  /\ lp \in DOMAIN s \cup {0, RetBuf}

VarTypes ==
  /\ stack \in [Thread -> Seq(Frame)]
  /\ current \in [Thread -> [id : Ids, entry : Region]]
  /\ last_ran \in [Thread -> Nat]
  /\ last_retp \in [Thread -> 0 .. RetBuf]
  /\ retbuf \in [Thread -> Value]
  /\ adapter \in [reg : Hook \cup {NoHook}, by : Thread]
  /\ region_state \in [Library -> Ctx]
  /\ claimed \in [Thread -> BOOLEAN]

IInv ==
  /\ VarTypes
  /\ \A u \in Thread :
       ThreadInv(u, stack[u], current[u].entry, last_ran[u], last_retp[u], claimed[u],
                 adapter, region_state)

(***************************************************************************)
(* The steps, as they change one thread                                    *)
(***************************************************************************)

\* What is known of a stack that is not empty.
LEMMA TopFacts ==
  ASSUME NEW s \in Seq(Frame), s # <<>>, \A i \in DOMAIN s : FrameOK(s[i])
  PROVE  /\ Len(s) \in Nat /\ Len(s) >= 1 /\ Len(s) \in DOMAIN s
         /\ TopOf(s) \in Frame /\ TopOf(s) = s[Len(s)] /\ FrameOK(TopOf(s))
         /\ TopOf(s).slots \in Seq(Mod) /\ Len(TopOf(s).slots) \in Nat
         /\ DOMAIN TopOf(s).slots = 1 .. Len(TopOf(s).slots)
         /\ TopOf(s).pos <= Len(TopOf(s).slots) =>
              TopOf(s).pos \in DOMAIN TopOf(s).slots /\ At(TopOf(s)) \in Mod
<1>1. Len(s) \in Nat /\ Len(s) >= 1 /\ Len(s) \in DOMAIN s
  OBVIOUS
<1>2. TopOf(s) \in Frame /\ TopOf(s) = s[Len(s)] /\ FrameOK(TopOf(s))
  BY <1>1 DEF TopOf
<1>3. /\ TopOf(s).slots \in Seq(Mod) /\ TopOf(s).pos \in Nat /\ TopOf(s).pos >= 1
  BY <1>2 DEF Frame, FrameOK
<1>4. /\ Len(TopOf(s).slots) \in Nat
      /\ DOMAIN TopOf(s).slots = 1 .. Len(TopOf(s).slots)
  BY <1>3
<1>5. TopOf(s).pos <= Len(TopOf(s).slots) =>
        TopOf(s).pos \in DOMAIN TopOf(s).slots /\ At(TopOf(s)) \in Mod
  BY <1>3, <1>4, SMTT(30) DEF At
<1> QED BY <1>1, <1>2, <1>3, <1>4, <1>5

\* The top dispatch changes; the others do not.
LEMMA NewTop ==
  ASSUME NEW s \in Seq(Frame), s # <<>>, NEW g \in Frame
  PROVE  LET z == [s EXCEPT ![Len(s)] = g]
         IN  /\ z \in Seq(Frame) /\ Len(z) = Len(s) /\ DOMAIN z = DOMAIN s /\ z # <<>>
             /\ TopOf(z) = g /\ z[Len(s)] = g
             /\ \A i \in DOMAIN s : i # Len(s) => z[i] = s[i]
             /\ \A i \in 1 .. Len(s) - 1 : i \in DOMAIN s /\ i # Len(s) /\ z[i] = s[i]
<1> DEFINE z == [s EXCEPT ![Len(s)] = g]
<1>1. Len(s) \in Nat /\ Len(s) >= 1 /\ DOMAIN s = 1 .. Len(s)
  OBVIOUS
<1>2. z \in Seq(Frame) /\ Len(z) = Len(s) /\ DOMAIN z = DOMAIN s
  BY <1>1
<1>3. z[Len(s)] = g /\ \A i \in DOMAIN s : i # Len(s) => z[i] = s[i]
  BY <1>1
<1>4. \A i \in 1 .. Len(s) - 1 : i \in DOMAIN s /\ i # Len(s)
  <2> PICK n \in Nat : n = Len(s)
    OBVIOUS
  <2> HIDE DEF z
  <2>1. \A i \in 1 .. n - 1 : i \in 1 .. n /\ i # n
    OBVIOUS
  <2> QED BY <1>1, <2>1
<1> HIDE DEF z
<1>5. z # <<>> /\ TopOf(z) = g
  BY <1>1, <1>2, <1>3 DEF TopOf
<1>6. z \in Seq(Frame) /\ Len(z) = Len(s) /\ DOMAIN z = DOMAIN s /\ z # <<>>
  BY <1>2, <1>5
<1> QED BY <1>3, <1>4, <1>5, <1>6 DEF z

\* What FrameOK looks at.
LEMMA FrameSame ==
  ASSUME NEW f \in Frame, NEW g \in Frame, FrameOK(f), f.pos \in DOMAIN f.slots,
         g.pos = f.pos, g.slots = f.slots, g.reg = f.reg, g.ret = f.ret, g.retp = f.retp,
         g.self = f.self, g.caller = f.caller
  PROVE  FrameOK(g)
<1>1. /\ g.pos \in 1 .. Len(g.slots) + 1 /\ g.pos \in DOMAIN g.slots
      /\ g.pos > 1 /\ g.retp => g.ret = <<g.reg, g.slots[g.pos - 1]>>
  BY DEF FrameOK
<1>2. /\ g.self => \A i \in DOMAIN g.slots : ModRegion[g.slots[i]] = g.caller
      /\ \A i \in DOMAIN g.slots : ModRegion[g.slots[i]] \in Subtree[g.caller]
  BY DEF FrameOK
<1> QED BY <1>1, <1>2 DEF FrameOK

\* The listener of a dispatch, and where it is.
LEMMA AtFacts ==
  ASSUME NEW s \in Seq(Frame), \A i \in DOMAIN s : FrameOK(s[i]), NEW i \in DOMAIN s, s[i].inside
  PROVE  /\ At(s[i]) \in Mod /\ ModLibrary[At(s[i])] \in Library
         /\ ModRegion[At(s[i])] \in Region /\ s[i].caller \in Region
         /\ ModRegion[At(s[i])] \in Subtree[s[i].caller]
<1>1. s[i] \in Frame /\ FrameOK(s[i])
  OBVIOUS
<1>2. s[i].slots \in Seq(Mod) /\ s[i].caller \in Region
  BY <1>1 DEF Frame
<1>3. s[i].pos \in DOMAIN s[i].slots
  BY <1>1 DEF FrameOK
<1>4. At(s[i]) \in Mod
  BY <1>2, <1>3 DEF At
<1>5. ModRegion[At(s[i])] \in Subtree[s[i].caller]
  BY <1>1, <1>3 DEF FrameOK, At
<1> QED BY <1>2, <1>4, <1>5, ModAssumption

\* What a dispatch can enter is at or below the region of every listener that waits
\* for it.
LEMMA Reach ==
  ASSUME NEW s \in Seq(Frame), \A k \in DOMAIN s : FrameOK(s[k]), Nests(s),
         NEW j \in DOMAIN s, NEW i \in 1 .. j - 1, s[i].inside,
         NEW r \in Subtree[s[j].caller]
  PROVE  r \in Subtree[ModRegion[At(s[i])]]
<1>1. i \in DOMAIN s
  OBVIOUS
<1>2. ModRegion[At(s[i])] \in Region
  BY <1>1, AtFacts
<1>3. s[j].caller \in Subtree[ModRegion[At(s[i])]]
  BY DEF Nests
<1> QED BY <1>2, <1>3, SubtreeAssumption

\* The top dispatch changes, but not its caller.
LEMMA NestsKeeps ==
  ASSUME NEW s \in Seq(Frame), Nests(s), NEW z, DOMAIN z = DOMAIN s,
         \A i \in DOMAIN s : z[i].caller = s[i].caller,
         \A i \in 1 .. Len(s) - 1 : At(z[i]) = At(s[i])
  PROVE  Nests(z)
<1> SUFFICES ASSUME NEW j \in DOMAIN z, NEW i \in 1 .. j - 1
             PROVE  z[j].caller \in Subtree[ModRegion[At(z[i])]]
  BY DEF Nests
<1>1. i \in 1 .. Len(s) - 1 /\ j \in DOMAIN s
  OBVIOUS
<1>2. At(z[i]) = At(s[i]) /\ z[j].caller = s[j].caller
  BY <1>1
<1>3. s[j].caller \in Subtree[ModRegion[At(s[i])]]
  BY <1>1 DEF Nests
<1> QED BY <1>2, <1>3

\* Another thread has written the shared variables.
LEMMA OtherKeeps ==
  ASSUME NEW u, NEW s, NEW c, NEW lr, NEW lp, NEW cl, NEW ad, NEW rs,
         ThreadInv(u, s, c, lr, lp, cl, ad, rs),
         NEW ad2, ad2 = ad \/ ad2.by # u,
         NEW rs2, \A l \in Library : rs2[l] = rs[l] \/ rs2[l].by # u
  PROVE  ThreadInv(u, s, c, lr, lp, cl, ad2, rs2)
<1> USE DEF ThreadInv
<1>1. Shows(u, s, lr, lp, ad2)
  BY DEF Shows
<1>2. ASSUME ~cl PROVE FromBelow(u, s, rs2)
  <2> SUFFICES ASSUME NEW i \in DOMAIN s, s[i].inside PROVE OwnOrBelow(u, At(s[i]), rs2)
    BY DEF FromBelow
  <2>1. ModLibrary[At(s[i])] \in Library
    BY AtFacts
  <2>2. OwnOrBelow(u, At(s[i]), rs)
    BY <1>2 DEF FromBelow
  <2> QED BY <2>1, <2>2 DEF OwnOrBelow
<1> QED BY <1>1, <1>2

\* The caller is marked: its listener has made a call.
Mark(s) == IF s = <<>> THEN <<>> ELSE [s EXCEPT ![Len(s)].nested = TRUE]

LEMMA MarkFacts ==
  ASSUME NEW u, NEW s, NEW c, NEW lr, NEW lp, NEW cl, NEW ad, NEW rs,
         ThreadInv(u, s, c, lr, lp, cl, ad, rs), s # <<>> => TopOf(s).inside
  PROVE  /\ Mark(s) \in Seq(Frame) /\ Len(Mark(s)) = Len(s) /\ DOMAIN Mark(s) = DOMAIN s
         /\ \A i \in DOMAIN s : Mark(s)[i].inside /\ Mark(s)[i].nested /\ FrameOK(Mark(s)[i])
         /\ ~cl => Chained(Mark(s)) /\ InOwn(Mark(s), c)
         /\ ~cl => Nests(Mark(s)) /\ FromBelow(u, Mark(s), rs)
<1> USE DEF ThreadInv
<1>1. CASE s = <<>>
  <2>1. Mark(s) = <<>> /\ Mark(s) = s
    BY <1>1 DEF Mark
  <2>2. Chained(Mark(s)) /\ InOwn(Mark(s), c)
    BY <2>1 DEF Chained, InOwn
  <2>3. Mark(s) \in Seq(Frame) /\ Len(Mark(s)) = Len(s) /\ DOMAIN Mark(s) = DOMAIN s
    BY <2>1
  <2>4. DOMAIN s = {}
    BY <1>1, SMTT(30)
  <2>5. Nests(Mark(s)) /\ FromBelow(u, Mark(s), rs)
    BY <2>1, <2>4, SMTT(30) DEF Nests, FromBelow
  <2> QED BY <2>2, <2>3, <2>4, <2>5
<1>2. CASE s # <<>>
  <2> DEFINE g == [TopOf(s) EXCEPT !.nested = TRUE]
             z == [s EXCEPT ![Len(s)] = g]
  <2>1. TopOf(s) \in Frame /\ Len(s) \in DOMAIN s /\ TopOf(s) = s[Len(s)] /\ FrameOK(TopOf(s))
        /\ Len(s) \in Nat
    BY <1>2, TopFacts
  <2>2. /\ g \in Frame /\ g.nested /\ g.inside = TopOf(s).inside /\ g.pos = TopOf(s).pos
        /\ g.retp = TopOf(s).retp /\ g.slots = TopOf(s).slots /\ g.reg = TopOf(s).reg /\ g.ret = TopOf(s).ret
        /\ g.self = TopOf(s).self /\ g.caller = TopOf(s).caller /\ g.prev = TopOf(s).prev
    <3> PICK f \in Frame : f = TopOf(s)
      BY <2>1
    <3> QED BY DEF Frame
  <2>3. Mark(s) = z
    BY <1>2 DEF Mark, TopOf
  <2> HIDE DEF g
  <2>4. /\ z \in Seq(Frame) /\ Len(z) = Len(s) /\ DOMAIN z = DOMAIN s /\ z # <<>>
        /\ TopOf(z) = g /\ z[Len(s)] = g
        /\ \A i \in DOMAIN s : i # Len(s) => z[i] = s[i]
        /\ \A i \in 1 .. Len(s) - 1 : i \in DOMAIN s /\ i # Len(s) /\ z[i] = s[i]
    BY <1>2, <2>2, NewTop
  <2> HIDE DEF z
  <2>5. ASSUME NEW i \in DOMAIN s PROVE z[i].inside /\ z[i].nested /\ FrameOK(z[i])
    <3>1. CASE i = Len(s)
      <4>1. z[i] = g /\ g.inside /\ g.nested
        BY <1>2, <2>2, <2>4, <3>1
      <4>2. TopOf(s).pos \in DOMAIN TopOf(s).slots
        BY <1>2, <2>1 DEF FrameOK
      <4>3. FrameOK(g)
        BY <2>1, <2>2, <4>2, FrameSame, SMTT(30)
      <4> QED BY <4>1, <4>3, SMTT(30)
    <3>2. CASE i # Len(s)
      <4>1. i \in 1 .. Len(s) - 1
        BY <3>2
      <4> QED BY <2>4, <3>2, <4>1 DEF Waiting
    <3> QED BY <3>1, <3>2
  <2>6. ASSUME ~cl PROVE Chained(z) /\ InOwn(z, c)
    <3>1. \A i \in DOMAIN s : z[i].prev = s[i].prev /\ z[i].caller = s[i].caller /\ At(z[i]) = At(s[i])
      BY <2>1, <2>2, <2>4, ZenonT(40) DEF At
    <3>2. \A i \in 1 .. Len(s) - 1 : i \in DOMAIN s /\ i + 1 \in DOMAIN s
      BY <2>1
    <3>3. Chained(z)
      BY <2>4, <2>6, <3>1, <3>2, ZenonT(40) DEF Chained
    <3>4. InOwn(z, c)
      BY <1>2, <2>1, <2>2, <2>4, <2>6 DEF InOwn, At
    <3> QED BY <3>3, <3>4, SMTT(30)
  <2>7. ASSUME ~cl PROVE Nests(z) /\ FromBelow(u, z, rs)
    <3>1. \A i \in DOMAIN s : /\ z[i].caller = s[i].caller /\ At(z[i]) = At(s[i])
                             /\ z[i].inside = s[i].inside
      BY <2>1, <2>2, <2>4, ZenonT(40) DEF At
    <3>2. \A i \in 1 .. Len(s) - 1 : At(z[i]) = At(s[i])
      BY <2>4, <3>1
    <3>3. Nests(z)
      BY <2>4, <2>7, <3>1, <3>2, NestsKeeps
    <3>4. FromBelow(u, z, rs)
      BY <2>4, <2>7, <3>1 DEF FromBelow
    <3> QED BY <3>3, <3>4
  <2> QED BY <2>3, <2>4, <2>5, <2>6, <2>7
<1> QED BY <1>1, <1>2

\* xy_dispatch has passed the gate: a new dispatch is on top.
LEMMA CallKeeps ==
  ASSUME NEW u, NEW s, NEW c, NEW lr, NEW lp, NEW cl, NEW ad, NEW rs,
         ThreadInv(u, s, c, lr, lp, cl, ad, rs), s # <<>> => TopOf(s).inside,
         Len(s) < MaxDepth,
         NEW f \in Frame, FrameOK(f), f.pos = 1, ~f.inside, f.caller = c, f.prev = c,
         NEW ad2, ad2.reg = f.reg
  PROVE  ThreadInv(u, Append(Mark(s), f), c, 0, Publish(f.retp, Len(s) + 1), cl, ad2, rs)
<1> USE DEF ThreadInv
<1> DEFINE n == Len(s)
           z == Append(Mark(s), f)
<1>1. /\ Mark(s) \in Seq(Frame) /\ Len(Mark(s)) = n /\ DOMAIN Mark(s) = DOMAIN s
      /\ \A i \in DOMAIN s : Mark(s)[i].inside /\ Mark(s)[i].nested /\ FrameOK(Mark(s)[i])
      /\ ~cl => Chained(Mark(s)) /\ InOwn(Mark(s), c)
      /\ ~cl => Nests(Mark(s)) /\ FromBelow(u, Mark(s), rs)
  BY MarkFacts
<1>2. n \in Nat /\ DOMAIN s = 1 .. n /\ n < MaxDepth
  OBVIOUS
<1> HIDE DEF n
<1>3. /\ z \in Seq(Frame) /\ Len(z) = n + 1 /\ DOMAIN z = 1 .. n + 1 /\ z[n + 1] = f
      /\ \A i \in 1 .. n : z[i] = Mark(s)[i]
  BY <1>1, <1>2
<1> HIDE DEF z
<1>4. TopOf(z) = f /\ z # <<>>
  BY <1>2, <1>3 DEF TopOf
<1>5. \A i \in DOMAIN z : FrameOK(z[i])
  BY <1>1, <1>2, <1>3
<1>6. Waiting(z)
  <2>1. Len(z) - 1 = n
    BY <1>2, <1>3
  <2>2. \A i \in 1 .. n : z[i].inside /\ z[i].nested
    BY <1>1, <1>2, <1>3
  <2> QED BY <2>1, <2>2 DEF Waiting
<1>7. ASSUME ~cl PROVE Chained(z) /\ InOwn(z, c)
  <2>1. \A i \in DOMAIN z : z[i].prev = z[i].caller
    BY <1>1, <1>2, <1>3, <1>7 DEF Chained
  <2>2. ASSUME NEW i \in 1 .. n PROVE z[i + 1].caller = ModRegion[At(z[i])]
    <3>1. CASE i = n
      <4>1. Mark(s) # <<>> /\ TopOf(Mark(s)) = Mark(s)[n] /\ Mark(s)[n].inside
        BY <1>1, <1>2, <3>1 DEF TopOf
      <4>2. c = ModRegion[At(Mark(s)[n])]
        BY <1>1, <1>7, <4>1 DEF InOwn
      <4> QED BY <1>2, <1>3, <3>1, <4>2
    <3>2. CASE i # n
      <4>1. i \in 1 .. n - 1 /\ i + 1 \in 1 .. n
        BY <1>2, <3>2
      <4> QED BY <1>1, <1>3, <1>7, <4>1 DEF Chained
    <3> QED BY <3>1, <3>2
  <2>3. InOwn(z, c)
    BY <1>4 DEF InOwn
  <2> QED BY <1>2, <1>3, <2>1, <2>2, <2>3 DEF Chained
<1>8. Shows(u, z, 0, Publish(f.retp, n + 1), ad2)
  BY <1>3, <1>4 DEF Shows
<1>9. ASSUME ~cl PROVE Nests(z) /\ FromBelow(u, z, rs)
  <2>1. ASSUME NEW j \in DOMAIN z, NEW i \in 1 .. j - 1
        PROVE  z[j].caller \in Subtree[ModRegion[At(z[i])]]
    <3>1. i \in 1 .. n /\ i \in DOMAIN s /\ z[i] = Mark(s)[i] /\ Mark(s)[i].inside
      BY <1>1, <1>2, <1>3
    <3>2. CASE j # n + 1
      <4>1. j \in DOMAIN Mark(s) /\ z[j] = Mark(s)[j]
        BY <1>1, <1>2, <1>3, <3>2
      <4> QED BY <1>1, <1>9, <3>1, <4>1 DEF Nests
    <3>3. CASE j = n + 1
      <4>1. n \in DOMAIN Mark(s) /\ Mark(s) # <<>> /\ TopOf(Mark(s)) = Mark(s)[n] /\ Mark(s)[n].inside
        BY <1>1, <1>2, <3>1 DEF TopOf
      <4>2. c = ModRegion[At(Mark(s)[n])]
        BY <1>1, <1>9, <4>1 DEF InOwn
      <4>3. z[j].caller = c
        BY <1>3, <3>3
      <4>4. CASE i = n
        <5>1. c \in Region
          BY <1>1, <4>1, <4>2, AtFacts
        <5> QED BY <3>1, <4>2, <4>3, <4>4, <5>1, SubtreeAssumption
      <4>5. CASE i # n
        <5>1. i \in 1 .. n - 1
          BY <1>2, <3>1, <4>5
        <5>2. c \in Subtree[Mark(s)[n].caller]
          BY <1>1, <4>1, <4>2, AtFacts
        <5>3. c \in Subtree[ModRegion[At(Mark(s)[i])]]
          BY <1>1, <1>9, <3>1, <4>1, <5>1, <5>2, Reach
        <5> QED BY <3>1, <4>3, <5>3
      <4> QED BY <4>4, <4>5
    <3> QED BY <3>2, <3>3
  <2>2. FromBelow(u, z, rs)
    BY <1>1, <1>2, <1>3, <1>9 DEF FromBelow
  <2> QED BY <2>1, <2>2 DEF Nests
<1>10. Len(z) <= MaxDepth /\ Publish(f.retp, n + 1) \in DOMAIN z \cup {0, RetBuf}
  BY <1>2, <1>3, BoundAssumption DEF Publish
<1>11. ThreadInv(u, z, c, 0, Publish(f.retp, n + 1), cl, ad2, rs)
  BY <1>3, <1>5, <1>6, <1>7, <1>8, <1>9, <1>10
<1> QED BY <1>11 DEF n, z

\* xy_dispatch fails at the gate.
LEMMA RefusedKeeps ==
  ASSUME NEW u, NEW s, NEW c, NEW lr, NEW lp, NEW cl, NEW ad, NEW rs,
         ThreadInv(u, s, c, lr, lp, cl, ad, rs), s # <<>> => TopOf(s).inside, NEW ad2
  PROVE  ThreadInv(u, Mark(s), c, 0, 0, cl, ad2, rs)
<1> USE DEF ThreadInv
<1> DEFINE z == Mark(s)
<1>1. /\ z \in Seq(Frame) /\ Len(z) = Len(s) /\ DOMAIN z = DOMAIN s
      /\ \A i \in DOMAIN s : z[i].inside /\ z[i].nested /\ FrameOK(z[i])
      /\ ~cl => Chained(z) /\ InOwn(z, c)
      /\ ~cl => Nests(z) /\ FromBelow(u, z, rs)
  BY MarkFacts
<1> HIDE DEF z
<1>2. Waiting(z)
  BY <1>1 DEF Waiting
<1>3. z # <<>> => TopOf(z).inside /\ TopOf(z).nested
  <2>1. z # <<>> => Len(z) \in DOMAIN z
    BY <1>1
  <2> QED BY <1>1, <2>1 DEF TopOf
<1>4. Shows(u, z, 0, 0, ad2)
  BY <1>3 DEF Shows
<1>5. ThreadInv(u, z, c, 0, 0, cl, ad2, rs)
  BY <1>1, <1>2, <1>4
<1> QED BY <1>5 DEF z

\* A listener m is entered, and writes the state of its library: it is at or below every
\* listener that waits for it.
LEMMA EnterBelow ==
  ASSUME NEW u, NEW s \in Seq(Frame), \A i \in DOMAIN s : FrameOK(s[i]), Nests(s),
         NEW rs, FromBelow(u, s, rs), Len(s) \in DOMAIN s,
         NEW z \in Seq(Frame), \A i \in DOMAIN z : FrameOK(z[i]), DOMAIN z = DOMAIN s,
         \A i \in DOMAIN s : z[i].caller = s[i].caller /\ At(z[i]) = At(s[i]),
         \A i \in DOMAIN s : i # Len(s) => z[i] = s[i],
         NEW m \in Mod, ModRegion[m] \in Region, At(z[Len(s)]) = m,
         ModRegion[m] \in Subtree[s[Len(s)].caller],
         NEW rs2, rs2[ModLibrary[m]].of = m,
         \A l \in Library : l # ModLibrary[m] => rs2[l] = rs[l]
  PROVE  FromBelow(u, z, rs2)
<1> SUFFICES ASSUME NEW i \in DOMAIN z, z[i].inside PROVE OwnOrBelow(u, At(z[i]), rs2)
  BY DEF FromBelow
<1>1. /\ At(z[i]) = At(s[i]) /\ ModLibrary[At(z[i])] \in Library
      /\ ModRegion[At(z[i])] \in Region
  BY AtFacts
<1>2. CASE ModLibrary[At(z[i])] # ModLibrary[m]
  <2>1. i # Len(s)
    BY <1>2
  <2>2. s[i].inside
    BY <2>1
  <2>3. OwnOrBelow(u, At(s[i]), rs)
    BY <2>2 DEF FromBelow
  <2>4. rs2[ModLibrary[At(z[i])]] = rs[ModLibrary[At(z[i])]]
    BY <1>1, <1>2
  <2> QED BY <1>1, <2>3, <2>4 DEF OwnOrBelow
<1>3. CASE ModLibrary[At(z[i])] = ModLibrary[m]
  <2>1. ModRegion[m] \in Subtree[ModRegion[At(z[i])]]
    <3>1. CASE i = Len(s)
      BY <3>1, SubtreeAssumption
    <3>2. CASE i # Len(s)
      <4>1. i \in 1 .. Len(s) - 1 /\ s[i].inside
        BY <3>2
      <4>2. ModRegion[m] \in Subtree[ModRegion[At(s[i])]]
        BY <4>1, Reach
      <4> QED BY <1>1, <4>2
    <3> QED BY <3>1, <3>2
  <2> QED BY <1>3, <2>1 DEF OwnOrBelow
<1> QED BY <1>2, <1>3

\* A listener is entered: the current region becomes its own.
LEMMA EnterKeeps ==
  ASSUME NEW u, NEW s, NEW c, NEW lr, NEW lp, NEW cl, NEW ad, NEW rs,
         ThreadInv(u, s, c, lr, lp, cl, ad, rs), s # <<>>, c \in Region,
         ~TopOf(s).inside, TopOf(s).pos <= Len(TopOf(s).slots),
         NEW c2, c2 = IF RegionChanged(TopOf(s)) THEN ModRegion[At(TopOf(s))] ELSE c,
         NEW rs2, rs2[ModLibrary[At(TopOf(s))]].of = At(TopOf(s)),
         \A l \in Library : l # ModLibrary[At(TopOf(s))] => rs2[l] = rs[l]
  PROVE  ThreadInv(u, [s EXCEPT ![Len(s)] = [TopOf(s) EXCEPT !.inside = TRUE, !.prev = c,
                                                             !.nested = FALSE]],
                   c2, lr, lp, cl, ad, rs2)
<1> USE DEF ThreadInv
<1> DEFINE g == [TopOf(s) EXCEPT !.inside = TRUE, !.prev = c, !.nested = FALSE]
           z == [s EXCEPT ![Len(s)] = g]
<1>1. TopOf(s) \in Frame /\ TopOf(s) = s[Len(s)] /\ FrameOK(TopOf(s)) /\ Len(s) \in DOMAIN s
      /\ TopOf(s).pos \in DOMAIN TopOf(s).slots /\ Len(s) \in Nat
  BY TopFacts
<1>2. /\ g \in Frame /\ g.inside /\ ~g.nested /\ g.prev = c /\ g.pos = TopOf(s).pos
      /\ g.retp = TopOf(s).retp /\ g.slots = TopOf(s).slots /\ g.reg = TopOf(s).reg /\ g.ret = TopOf(s).ret
      /\ g.self = TopOf(s).self /\ g.caller = TopOf(s).caller
  <2> PICK f \in Frame : f = TopOf(s)
    BY <1>1
  <2> QED BY DEF Frame
<1> HIDE DEF g
<1>3. /\ z \in Seq(Frame) /\ Len(z) = Len(s) /\ DOMAIN z = DOMAIN s /\ z # <<>>
      /\ TopOf(z) = g /\ z[Len(s)] = g
      /\ \A i \in DOMAIN s : i # Len(s) => z[i] = s[i]
      /\ \A i \in 1 .. Len(s) - 1 : i \in DOMAIN s /\ i # Len(s) /\ z[i] = s[i]
  BY <1>2, NewTop
<1> HIDE DEF z
<1>4. At(g) = At(TopOf(s))
  BY <1>2 DEF At
<1>5. FrameOK(g)
  BY <1>1, <1>2, FrameSame, SMTT(30)
<1>6. Waiting(z) /\ \A i \in DOMAIN z : FrameOK(z[i])
  BY <1>3, <1>5 DEF Waiting
<1>7. ASSUME ~cl PROVE Chained(z) /\ InOwn(z, c2)
  <2>1. c = TopOf(s).caller
    BY <1>7, SMTT(30) DEF InOwn
  <2>2. \A i \in DOMAIN s : z[i].prev = z[i].caller /\ z[i].caller = s[i].caller /\ At(z[i]) = At(s[i])
    BY <1>1, <1>2, <1>3, <1>4, <1>7, <2>1, ZenonT(40) DEF Chained
  <2>3. \A i \in 1 .. Len(s) - 1 : i \in DOMAIN s /\ i + 1 \in DOMAIN s
    BY <1>1
  <2>4. Chained(z)
    BY <1>3, <1>7, <2>2, <2>3 DEF Chained
  <2>5. c2 = ModRegion[At(g)]
    <3>1. CASE RegionChanged(TopOf(s))
      BY <1>4, <3>1
    <3>2. CASE ~RegionChanged(TopOf(s))
      BY <1>1, <1>4, <2>1, <3>2, SMTT(30) DEF RegionChanged, FrameOK, At
    <3> QED BY <3>1, <3>2
  <2>6. InOwn(z, c2)
    BY <1>2, <1>3, <2>5 DEF InOwn
  <2> QED BY <2>4, <2>6
<1>8. Shows(u, z, lr, lp, ad)
  BY <1>2, <1>3 DEF Shows
<1>9. ASSUME ~cl PROVE Nests(z) /\ FromBelow(u, z, rs2)
  <2> DEFINE m == At(TopOf(s))
  <2>1. \A i \in DOMAIN s : z[i].caller = s[i].caller /\ At(z[i]) = At(s[i])
    BY <1>1, <1>2, <1>3, <1>4, ZenonT(40) DEF At
  <2>2. Nests(z)
    <3>1. \A i \in 1 .. Len(s) - 1 : At(z[i]) = At(s[i])
      BY <1>3, <2>1
    <3> QED BY <1>3, <1>9, <2>1, <3>1, NestsKeeps
  <2>3. m \in Mod /\ ModRegion[m] \in Region /\ ModRegion[m] \in Subtree[TopOf(s).caller]
    <3>1. z[Len(s)].inside /\ At(z[Len(s)]) = m /\ z[Len(s)].caller = TopOf(s).caller
      BY <1>1, <1>2, <1>3, <1>4
    <3>2. z \in Seq(Frame) /\ Len(s) \in DOMAIN z /\ \A i \in DOMAIN z : FrameOK(z[i])
      BY <1>1, <1>3, <1>6
    <3> HIDE DEF ThreadInv
    <3> QED BY <3>1, <3>2, AtFacts, SMTT(30)
  <2>4. rs2[ModLibrary[m]].of = m /\ \A l \in Library : l # ModLibrary[m] => rs2[l] = rs[l]
    OBVIOUS
  <2> HIDE DEF m
  <2>5. FromBelow(u, z, rs2)
    <3>1. /\ s \in Seq(Frame) /\ \A i \in DOMAIN s : FrameOK(s[i])
          /\ FromBelow(u, s, rs) /\ Nests(s)
      BY <1>9
    <3>2. At(z[Len(s)]) = m /\ z[Len(s)].inside
      BY <1>2, <1>3, <1>4 DEF m
    <3>3. ModRegion[m] \in Subtree[s[Len(s)].caller]
      BY <1>1, <2>3, SMTT(30)
    <3>4. /\ Len(s) \in DOMAIN s /\ z \in Seq(Frame) /\ DOMAIN z = DOMAIN s
          /\ \A i \in DOMAIN z : FrameOK(z[i])
          /\ \A i \in DOMAIN s : i # Len(s) => z[i] = s[i]
      BY <1>1, <1>3, <1>6
    <3> HIDE DEF ThreadInv
    <3> QED BY ONLY <2>1, <2>3, <2>4, <3>1, <3>2, <3>3, <3>4, EnterBelow, SMTT(40)
  <2> QED BY <2>2, <2>5
<1>10. ThreadInv(u, z, c2, lr, lp, cl, ad, rs2)
  BY <1>3, <1>6, <1>7, <1>8, <1>9
<1> QED BY <1>10 DEF g, z

\* A listener claims a region.
LEMMA ClaimKeeps ==
  ASSUME NEW u, NEW s, NEW c, NEW lr, NEW lp, NEW cl, NEW ad, NEW rs,
         ThreadInv(u, s, c, lr, lp, cl, ad, rs), NEW c2
  PROVE  ThreadInv(u, s, c2, lr, lp, TRUE, ad, rs)
  BY DEF ThreadInv

\* What a listener that returns leaves of its dispatch.
LEMMA LeftFacts ==
  ASSUME NEW f \in Frame, NEW v \in Value
  PROVE  LET g == [f EXCEPT !.inside = FALSE, !.pos = @ + 1, !.ret = v]
         IN  /\ g \in Frame /\ ~g.inside /\ g.pos = f.pos + 1 /\ g.ret = v
             /\ g.slots = f.slots /\ g.reg = f.reg
             /\ g.self = f.self /\ g.retp = f.retp /\ g.caller = f.caller /\ g.prev = f.prev
<1> DEFINE g1 == [f EXCEPT !.inside = FALSE]
           g2 == [g1 EXCEPT !.pos = @ + 1]
           g == [f EXCEPT !.inside = FALSE, !.pos = @ + 1, !.ret = v]
<1>1. /\ g1 \in Frame /\ ~g1.inside /\ g1.pos = f.pos /\ g1.slots = f.slots /\ g1.reg = f.reg
      /\ g1.self = f.self /\ g1.retp = f.retp /\ g1.caller = f.caller /\ g1.prev = f.prev
  BY DEF Frame
<1> HIDE DEF g1
<1>2. /\ g2 \in Frame /\ ~g2.inside /\ g2.pos = f.pos + 1 /\ g2.slots = f.slots /\ g2.reg = f.reg
      /\ g2.self = f.self /\ g2.retp = f.retp /\ g2.caller = f.caller /\ g2.prev = f.prev
  BY <1>1 DEF Frame
<1>3. g = [g2 EXCEPT !.ret = v]
  BY DEF g1
<1> HIDE DEF g2, g
<1>4. /\ g \in Frame /\ ~g.inside /\ g.pos = f.pos + 1 /\ g.ret = v
      /\ g.slots = f.slots /\ g.reg = f.reg
      /\ g.self = f.self /\ g.retp = f.retp /\ g.caller = f.caller /\ g.prev = f.prev
  BY <1>2, <1>3 DEF Frame
<1> QED BY <1>4 DEF g

\* A listener returns: its value is published and the region of the caller is back.
LEMMA LeaveKeeps ==
  ASSUME NEW u, NEW s, NEW c, NEW lr, NEW lp, NEW cl, NEW ad, NEW rs,
         ThreadInv(u, s, c, lr, lp, cl, ad, rs), s # <<>>, TopOf(s).inside,
         NEW c2, c2 = IF RegionChanged(TopOf(s)) THEN TopOf(s).prev ELSE c,
         NEW ad2, ad2.reg = TopOf(s).reg
  PROVE  ThreadInv(u, [s EXCEPT ![Len(s)] = Returned(TopOf(s))], c2, TopOf(s).pos,
                   Publish(TopOf(s).retp, Len(s)), cl, ad2, rs)
<1> USE DEF ThreadInv
<1> DEFINE g == Returned(TopOf(s))
           z == [s EXCEPT ![Len(s)] = g]
<1>1. TopOf(s) \in Frame /\ TopOf(s) = s[Len(s)] /\ FrameOK(TopOf(s)) /\ Len(s) \in DOMAIN s
      /\ TopOf(s).pos \in DOMAIN TopOf(s).slots /\ Len(s) \in Nat
      /\ Len(TopOf(s).slots) \in Nat /\ DOMAIN TopOf(s).slots = 1 .. Len(TopOf(s).slots)
      /\ At(TopOf(s)) \in Mod
  <2>1. FrameOK(TopOf(s))
    BY TopFacts
  <2>2. TopOf(s).pos \in DOMAIN TopOf(s).slots
    BY <2>1 DEF FrameOK
  <2> QED BY <2>2, TopFacts
<1>2. TopOf(s).pos \in Nat /\ TopOf(s).pos >= 1 /\ TopOf(s).reg \in Hook
  BY <1>1 DEF Frame
<1>3. /\ g \in Frame /\ ~g.inside /\ g.pos = TopOf(s).pos + 1
      /\ g.slots = TopOf(s).slots /\ g.reg = TopOf(s).reg
      /\ g.retp = TopOf(s).retp
      /\ g.retp => g.ret = <<TopOf(s).reg, At(TopOf(s))>>
      /\ g.self = TopOf(s).self /\ g.caller = TopOf(s).caller /\ g.prev = TopOf(s).prev
  <2>1. <<TopOf(s).reg, At(TopOf(s))>> \in Value
    BY <1>1, <1>2 DEF Value
  <2> HIDE DEF ThreadInv
  <2>2. PICK f \in Frame : f = TopOf(s)
    BY <1>1
  <2>3. PICK v \in Value : v = IF f.retp THEN <<f.reg, At(f)>> ELSE f.ret
    BY <2>1, <2>2 DEF Frame
  <2>4. g = [f EXCEPT !.inside = FALSE, !.pos = @ + 1, !.ret = v]
    BY <2>2, <2>3 DEF Returned, At, Frame
  <2> HIDE DEF g
  <2>5. /\ g \in Frame /\ ~g.inside /\ g.pos = f.pos + 1 /\ g.ret = v
        /\ g.slots = f.slots /\ g.reg = f.reg
        /\ g.self = f.self /\ g.retp = f.retp /\ g.caller = f.caller /\ g.prev = f.prev
    BY <2>4, LeftFacts
  <2> QED BY <2>2, <2>3, <2>5
<1> HIDE DEF g
<1>4. /\ z \in Seq(Frame) /\ Len(z) = Len(s) /\ DOMAIN z = DOMAIN s /\ z # <<>>
      /\ TopOf(z) = g /\ z[Len(s)] = g
      /\ \A i \in DOMAIN s : i # Len(s) => z[i] = s[i]
      /\ \A i \in 1 .. Len(s) - 1 : i \in DOMAIN s /\ i # Len(s) /\ z[i] = s[i]
  BY <1>3, NewTop
<1> HIDE DEF z
<1>5. FrameOK(g)
  <2>1. g.pos \in 1 .. Len(g.slots) + 1 /\ g.pos - 1 = TopOf(s).pos
    BY <1>1, <1>2, <1>3, SMTT(30)
  <2>2. g.retp => g.ret = <<g.reg, g.slots[g.pos - 1]>>
    BY <1>3, <2>1, SMTT(30) DEF At
  <2>3. /\ g.self => \A i \in DOMAIN g.slots : ModRegion[g.slots[i]] = g.caller
        /\ \A i \in DOMAIN g.slots : ModRegion[g.slots[i]] \in Subtree[g.caller]
    BY <1>1, <1>3, SMTT(30) DEF FrameOK
  <2> QED BY <1>3, <2>1, <2>2, <2>3, SMTT(30) DEF FrameOK
<1>6. Waiting(z) /\ \A i \in DOMAIN z : FrameOK(z[i])
  BY <1>4, <1>5 DEF Waiting
<1>7. ASSUME ~cl PROVE Chained(z) /\ InOwn(z, c2)
  <2>1. \A i \in DOMAIN s : z[i].prev = z[i].caller /\ z[i].caller = s[i].caller
    BY <1>1, <1>3, <1>4, <1>7, ZenonT(40) DEF Chained
  <2>2. \A i \in 1 .. Len(s) - 1 : i \in DOMAIN s /\ i + 1 \in DOMAIN s
    BY <1>1
  <2>3. Chained(z)
    BY <1>4, <1>7, <2>1, <2>2 DEF Chained
  <2>4. c2 = TopOf(s).caller
    <3>1. CASE RegionChanged(TopOf(s))
      BY <1>1, <1>7, <3>1 DEF Chained
    <3>2. CASE ~RegionChanged(TopOf(s))
      <4>1. c = ModRegion[At(TopOf(s))]
        BY <1>7 DEF InOwn
      <4> QED BY <1>1, <3>2, <4>1 DEF RegionChanged, FrameOK, At
    <3> QED BY <3>1, <3>2
  <2>5. InOwn(z, c2)
    BY <1>3, <1>4, <2>4 DEF InOwn
  <2> QED BY <2>3, <2>5
<1>8. Shows(u, z, TopOf(s).pos, Publish(TopOf(s).retp, Len(s)), ad2)
  <2> HIDE DEF ThreadInv
  <2>1. /\ Len(z) = Len(s) /\ ad2.reg = TopOf(z).reg /\ TopOf(z).pos = TopOf(s).pos + 1
        /\ TopOf(z).retp = TopOf(s).retp
    BY <1>3, <1>4
  <2>2. TopOf(z).pos - 1 = TopOf(s).pos
    BY <1>2, <2>1, SMTT(30)
  <2> QED BY <2>1, <2>2, SMTT(30) DEF Shows
<1>9. ASSUME ~cl PROVE Nests(z) /\ FromBelow(u, z, rs)
  <2>1. \A i \in DOMAIN s : z[i].caller = s[i].caller
    BY <1>1, <1>3, <1>4, ZenonT(40)
  <2>2. Nests(z)
    BY <1>4, <1>9, <2>1, NestsKeeps
  <2>3. \A i \in DOMAIN z : z[i].inside => z[i] = s[i] /\ i \in DOMAIN s
    BY <1>3, <1>4
  <2>4. FromBelow(u, z, rs)
    BY <1>9, <2>3, SMTT(30) DEF FromBelow
  <2> QED BY <2>2, <2>4
<1>10. Publish(TopOf(s).retp, Len(s)) \in DOMAIN z \cup {0, RetBuf}
  BY <1>1, <1>4 DEF Publish
<1>11. ThreadInv(u, z, c2, TopOf(s).pos, Publish(TopOf(s).retp, Len(s)), cl, ad2, rs)
  BY <1>1, <1>4, <1>6, <1>7, <1>8, <1>9, <1>10
<1> QED BY <1>11 DEF g, z

\* A dispatch ends: its result is in the buffer of the thread, and the listener that
\* called it, if any, goes on in its own region.
LEMMA FinishKeeps ==
  ASSUME NEW u, NEW s, NEW c, NEW lr, NEW lp, NEW cl, NEW ad, NEW rs,
         ThreadInv(u, s, c, lr, lp, cl, ad, rs), s # <<>>, ~TopOf(s).inside,
         cl \in BOOLEAN, NEW lr2, NEW lp2 \in {0, RetBuf}
  PROVE  ThreadInv(u, SubSeq(s, 1, Len(s) - 1), c, lr2, lp2, cl /\ Len(s) > 1, ad, rs)
<1> USE DEF ThreadInv
<1> DEFINE n == Len(s)
           z == SubSeq(s, 1, n - 1)
<1>1. n \in Nat /\ n >= 1 /\ n <= MaxDepth /\ DOMAIN s = 1 .. n /\ TopOf(s) = s[n]
  BY DEF TopOf
<1>2. z \in Seq(Frame) /\ Len(z) = n - 1 /\ DOMAIN z = 1 .. n - 1
  BY <1>1
<1>3. \A i \in 1 .. n - 1 : z[i] = s[i] /\ i \in DOMAIN s
  BY <1>1
<1> HIDE DEF n, z
<1>4. \A i \in DOMAIN z : FrameOK(z[i])
  BY <1>2, <1>3
<1>5. \A i \in 1 .. n - 1 : z[i].inside /\ z[i].nested
  BY <1>3 DEF Waiting, n
<1>6. Waiting(z)
  BY <1>1, <1>2, <1>5 DEF Waiting
<1>7. z # <<>> => /\ TopOf(z) = s[n - 1] /\ n - 1 \in 1 .. n - 1 /\ n > 1
                  /\ TopOf(z).inside /\ TopOf(z).nested
  BY <1>1, <1>2, <1>3, <1>5 DEF TopOf
<1>8. ASSUME ~(cl /\ n > 1) PROVE Chained(z) /\ InOwn(z, c)
  <2>1. CASE z = <<>>
    BY <1>1, <1>2, <2>1 DEF Chained, InOwn
  <2>2. CASE z # <<>>
    <3>1. ~cl /\ Chained(s) /\ c = s[n].caller
      BY <1>1, <1>7, <1>8, <2>2 DEF InOwn
    <3>2. \A i \in DOMAIN z : z[i].prev = z[i].caller
      BY <1>2, <1>3, <3>1 DEF Chained
    <3>3. \A i \in 1 .. n - 2 : z[i + 1].caller = ModRegion[At(z[i])]
      <4>1. \A i \in 1 .. n - 2 : i \in 1 .. n - 1 /\ i + 1 \in 1 .. n - 1
        BY <1>1
      <4> QED BY <1>3, <3>1, <4>1 DEF Chained, n
    <3>4. Chained(z)
      <4>1. Len(z) - 1 = n - 2
        BY <1>1, <1>2
      <4> QED BY <3>2, <3>3, <4>1 DEF Chained
    <3>5. s[n].caller = ModRegion[At(s[n - 1])]
      <4>1. n - 1 \in 1 .. Len(s) - 1 /\ (n - 1) + 1 = n
        BY <1>1, <1>7, <2>2 DEF n
      <4> QED BY <3>1, <4>1 DEF Chained
    <3>6. InOwn(z, c)
      BY <1>7, <2>2, <3>1, <3>5 DEF InOwn
    <3> QED BY <3>4, <3>6
  <2> QED BY <2>1, <2>2
<1>9. Shows(u, z, lr2, lp2, ad)
  BY <1>7 DEF Shows
<1>10. ASSUME ~(cl /\ n > 1) PROVE Nests(z) /\ FromBelow(u, z, rs)
  <2>1. CASE z = <<>>
    BY <1>1, <1>2, <2>1 DEF Nests, FromBelow
  <2>2. CASE z # <<>>
    <3>1. ~cl
      BY <1>7, <1>10, <2>2
    <3>2. \A j \in 1 .. n - 1 : \A i \in 1 .. j - 1 : i \in 1 .. n - 1
      BY <1>1
    <3>3. Nests(z)
      BY <1>2, <1>3, <3>1, <3>2 DEF Nests
    <3>4. FromBelow(u, z, rs)
      BY <1>2, <1>3, <3>1 DEF FromBelow
    <3> QED BY <3>3, <3>4
  <2> QED BY <2>1, <2>2
<1>11. Len(z) <= MaxDepth
  BY <1>1, <1>2, BoundAssumption
<1>12. ThreadInv(u, z, c, lr2, lp2, cl /\ n > 1, ad, rs)
  BY <1>2, <1>4, <1>6, <1>8, <1>9, <1>10, <1>11
<1> QED BY <1>12 DEF n, z

(***************************************************************************)
(* The steps                                                               *)
(***************************************************************************)

\* A step of thread t keeps the invariant if it does so for t: of what the others look
\* at it changes the shared variables only, and leaves its name there.
LEMMA OneThread ==
  ASSUME IInv, VarTypes', NEW t \in Thread,
         \A u \in Thread \ {t} : /\ stack'[u] = stack[u] /\ current'[u] = current[u]
                                 /\ last_ran'[u] = last_ran[u] /\ last_retp'[u] = last_retp[u]
                                 /\ claimed'[u] = claimed[u],
         adapter' = adapter \/ adapter'.by = t,
         \A l \in Library : region_state'[l] = region_state[l] \/ region_state'[l].by = t,
         ThreadInv(t, stack'[t], current'[t].entry, last_ran'[t], last_retp'[t], claimed'[t],
                   adapter', region_state')
  PROVE  IInv'
<1>1. ASSUME NEW u \in Thread, u # t
      PROVE  ThreadInv(u, stack'[u], current'[u].entry, last_ran'[u], last_retp'[u], claimed'[u],
                       adapter', region_state')
  <2>1. ThreadInv(u, stack[u], current[u].entry, last_ran[u], last_retp[u], claimed[u],
                  adapter, region_state)
    BY DEF IInv
  <2>2. adapter' = adapter \/ adapter'.by # u
    BY <1>1
  <2>3. \A l \in Library : region_state'[l] = region_state[l] \/ region_state'[l].by # u
    BY <1>1
  <2>4. ThreadInv(u, stack[u], current[u].entry, last_ran[u], last_retp[u], claimed[u],
                  adapter', region_state')
    <3>1. PICK s, c, lr, lp, cl, ad, rs, ad2, rs2 :
            /\ s = stack[u] /\ c = current[u].entry /\ lr = last_ran[u] /\ lp = last_retp[u]
            /\ cl = claimed[u] /\ ad = adapter /\ rs = region_state
            /\ ad2 = adapter' /\ rs2 = region_state'
      OBVIOUS
    <3>2. /\ ThreadInv(u, s, c, lr, lp, cl, ad, rs) /\ (ad2 = ad \/ ad2.by # u)
          /\ \A l \in Library : rs2[l] = rs[l] \/ rs2[l].by # u
      BY <2>1, <2>2, <2>3, <3>1
    <3>3. ThreadInv(u, s, c, lr, lp, cl, ad2, rs2)
      BY <3>2, OtherKeeps
    <3> QED BY <3>1, <3>3
  <2>5. /\ stack'[u] = stack[u] /\ current'[u] = current[u]
        /\ last_ran'[u] = last_ran[u] /\ last_retp'[u] = last_retp[u]
        /\ claimed'[u] = claimed[u]
    BY <1>1
  <2> QED BY <2>4, <2>5
<1>2. \A u \in Thread :
        ThreadInv(u, stack'[u], current'[u].entry, last_ran'[u], last_retp'[u], claimed'[u],
                  adapter', region_state')
  BY <1>1
<1> QED BY <1>2 DEF IInv

\* The listeners of a dispatch are modules at or below the caller, those of xy_call_self
\* modules of the caller.
LEMMA SlotsFacts ==
  ASSUME NEW r \in Region, NEW h \in Hook, NEW self \in BOOLEAN
  PROVE  /\ Slots(r, h, self) \in Seq(Mod)
         /\ self => \A i \in DOMAIN Slots(r, h, self) : ModRegion[Slots(r, h, self)[i]] = r
         /\ \A i \in DOMAIN Slots(r, h, self) : ModRegion[Slots(r, h, self)[i]] \in Subtree[r]
<1> DEFINE w == Vector[<<r, h>>]
           own == {m \in Mod : ModRegion[m] = r}
<1>1. w \in Seq(Mod) /\ \A i \in DOMAIN w : ModRegion[w[i]] \in Subtree[r]
  BY VectorAssumption
<1> HIDE DEF w
<1>2. CASE ~self
  BY <1>1, <1>2 DEF Slots, w
<1>3. CASE self
  <2>1. Slots(r, h, self) = Filter(w, own)
    BY <1>3 DEF Slots, w
  <2> HIDE DEF own
  <2>2. /\ Filter(w, own) \in Seq(Mod)
        /\ \A j \in DOMAIN Filter(w, own) :
             Filter(w, own)[j] \in own /\ \E i \in DOMAIN w : w[i] = Filter(w, own)[j]
    BY <1>1, FilterFacts
  <2>3. \A m \in own : ModRegion[m] = r
    BY DEF own
  <2>4. \A j \in DOMAIN Filter(w, own) : ModRegion[Filter(w, own)[j]] = r
    BY <2>2, <2>3
  <2>5. r \in Subtree[r]
    BY SubtreeAssumption
  <2> QED BY <2>1, <2>2, <2>4, <2>5
<1> QED BY <1>2, <1>3

\* The dispatch that a call puts on the stack.
LEMMA NewFrame ==
  ASSUME NEW c \in [id : Ids, entry : Region], NEW h \in Hook, NEW self \in BOOLEAN,
         NEW retp \in BOOLEAN
  PROVE  LET f == NewDispatch(c, h, self, retp)
         IN  /\ f \in Frame /\ FrameOK(f) /\ f.pos = 1 /\ ~f.inside /\ f.caller = c.entry
             /\ f.prev = c.entry /\ f.reg = h /\ f.retp = retp
<1> DEFINE v == Slots(c.entry, h, self)
           f == NewDispatch(c, h, self, retp)
<1>1. c.id \in Ids /\ c.entry \in Region
  OBVIOUS
<1>2. /\ v \in Seq(Mod) /\ (self => \A i \in DOMAIN v : ModRegion[v[i]] = c.entry)
      /\ \A i \in DOMAIN v : ModRegion[v[i]] \in Subtree[c.entry]
  BY <1>1, SlotsFacts
<1> HIDE DEF v
<1>3. /\ f.reg = h /\ f.caller = c.entry /\ f.self = self /\ f.slots = v /\ f.pos = 1
      /\ ~f.inside /\ f.prev = c.entry /\ f.retp = retp
  BY DEF NewDispatch, FirstSlot, v
<1>4. f \in Frame
  <2>1. <<>> \in Value /\ 1 \in Nat
    BY DEF Value
  <2> QED BY <1>1, <1>2, <2>1 DEF Frame, NewDispatch, FirstSlot, v
<1> HIDE DEF f
<1>5. FrameOK(f)
  <2>1. 1 \in 1 .. Len(v) + 1
    BY <1>2
  <2> QED BY <1>2, <1>3, <2>1 DEF FrameOK
<1> QED BY <1>3, <1>4, <1>5 DEF f

\* A call that passes the gate.
LEMMA CallStep ==
  ASSUME IInv, NEW t \in Thread, NEW h \in Hook, NEW self \in BOOLEAN, NEW retp \in BOOLEAN,
         Call(t, h, self, retp)
  PROVE  IInv'
<1>1. PICK f : f = NewDispatch(current[t], h, self, retp)
  OBVIOUS
<1>2. /\ f \in Frame /\ FrameOK(f) /\ f.pos = 1 /\ ~f.inside /\ f.caller = current[t].entry
      /\ f.prev = current[t].entry /\ f.reg = h /\ f.retp = retp
  <2>1. current[t] \in [id : Ids, entry : Region]
    BY DEF IInv, VarTypes
  <2> QED BY <1>1, <2>1, NewFrame
<1>3. /\ stack[t] # <<>> => TopOf(stack[t]).inside
      /\ Len(stack[t]) < MaxDepth
      /\ stack' = [stack EXCEPT ![t] = Append(Mark(stack[t]), f)]
      /\ last_ran' = [last_ran EXCEPT ![t] = 0]
      /\ last_retp' = [last_retp EXCEPT ![t] = Publish(retp, Len(stack[t]) + 1)]
      /\ adapter' = [reg |-> h, by |-> t]
      /\ UNCHANGED <<current, retbuf, region_state, claimed>>
  BY <1>1 DEF Call, MayCall, Top, TopOf, Depth, MarkNested, Mark
<1>4. ThreadInv(t, stack[t], current[t].entry, last_ran[t], last_retp[t], claimed[t],
                adapter, region_state)
  BY DEF IInv
<1>5. /\ stack'[t] = Append(Mark(stack[t]), f) /\ last_ran'[t] = 0
      /\ last_retp'[t] = Publish(f.retp, Len(stack[t]) + 1) /\ adapter'.reg = f.reg
  BY <1>2, <1>3 DEF IInv, VarTypes
<1>6. ThreadInv(t, Append(Mark(stack[t]), f), current[t].entry, 0,
                Publish(f.retp, Len(stack[t]) + 1), claimed[t], adapter', region_state)
  BY <1>2, <1>3, <1>4, <1>5, CallKeeps
<1>7. ThreadInv(t, stack'[t], current'[t].entry, last_ran'[t], last_retp'[t], claimed'[t],
                adapter', region_state')
  BY <1>3, <1>5, <1>6
<1>8. VarTypes'
  <2>1. stack' \in [Thread -> Seq(Frame)]
    BY <1>3, <1>5, <1>7 DEF IInv, VarTypes, ThreadInv
  <2>2. Publish(retp, Len(stack[t]) + 1) \in 0 .. RetBuf
    <3>1. Len(stack[t]) \in Nat
      BY DEF IInv, VarTypes
    <3> QED BY <1>3, <3>1, BoundAssumption DEF RetBuf, Publish
  <2>3. last_retp' \in [Thread -> 0 .. RetBuf]
    BY <1>3, <2>2 DEF IInv, VarTypes
  <2>4. RetBuf' = RetBuf
    BY DEF RetBuf
  <2> QED BY <1>3, <2>1, <2>3, <2>4 DEF IInv, VarTypes
<1>9. adapter'.by = t
  BY <1>3
<1>10. \A u \in Thread \ {t} : /\ stack'[u] = stack[u] /\ current'[u] = current[u]
                               /\ last_ran'[u] = last_ran[u] /\ last_retp'[u] = last_retp[u]
                               /\ claimed'[u] = claimed[u]
  BY <1>3 DEF IInv, VarTypes
<1> QED BY <1>3, <1>7, <1>8, <1>9, <1>10, OneThread

\* A call that the gate refuses.
LEMMA RefusedStep ==
  ASSUME IInv, NEW t \in Thread, NEW h \in Hook, CallRefused(t, h)
  PROVE  IInv'
<1>1. /\ stack[t] # <<>> => TopOf(stack[t]).inside
      /\ stack' = [stack EXCEPT ![t] = Mark(stack[t])]
      /\ last_ran' = [last_ran EXCEPT ![t] = 0]
      /\ last_retp' = [last_retp EXCEPT ![t] = 0]
      /\ adapter' = [reg |-> h, by |-> t]
      /\ UNCHANGED <<current, retbuf, region_state, claimed>>
  BY DEF CallRefused, MayCall, Top, TopOf, MarkNested, Mark
<1>2. ThreadInv(t, stack[t], current[t].entry, last_ran[t], last_retp[t], claimed[t],
                adapter, region_state)
  BY DEF IInv
<1>3. stack'[t] = Mark(stack[t]) /\ last_ran'[t] = 0 /\ last_retp'[t] = 0
  BY <1>1 DEF IInv, VarTypes
<1>4. ThreadInv(t, Mark(stack[t]), current[t].entry, 0, 0, claimed[t], adapter', region_state)
  BY <1>1, <1>2, RefusedKeeps
<1>5. ThreadInv(t, stack'[t], current'[t].entry, last_ran'[t], last_retp'[t], claimed'[t],
                adapter', region_state')
  BY <1>1, <1>3, <1>4
<1>6. VarTypes'
  <2>1. stack' \in [Thread -> Seq(Frame)]
    BY <1>1, <1>3, <1>5 DEF IInv, VarTypes, ThreadInv
  <2>2. 0 \in 0 .. RetBuf /\ RetBuf' = RetBuf
    BY BoundAssumption DEF RetBuf
  <2>3. last_retp' \in [Thread -> 0 .. RetBuf]
    BY <1>1, <2>2 DEF IInv, VarTypes
  <2> QED BY <1>1, <2>1, <2>2, <2>3 DEF IInv, VarTypes
<1>7. adapter'.by = t
  BY <1>1
<1>8. \A u \in Thread \ {t} : /\ stack'[u] = stack[u] /\ current'[u] = current[u]
                              /\ last_ran'[u] = last_ran[u] /\ last_retp'[u] = last_retp[u]
                              /\ claimed'[u] = claimed[u]
  BY <1>1 DEF IInv, VarTypes
<1> QED BY <1>1, <1>5, <1>6, <1>7, <1>8, OneThread

\* A listener is entered.
LEMMA EnterStep ==
  ASSUME IInv, NEW t \in Thread, Enter(t)
  PROVE  IInv'
<1> DEFINE s == stack[t]
<1>1. PICK z : z = [s EXCEPT ![Len(s)] = [TopOf(s) EXCEPT !.inside = TRUE, !.prev = current[t].entry,
                                                          !.nested = FALSE]]
  BY Zenon
<1>2. PICK m : m = At(TopOf(s))
  OBVIOUS
<1>3. /\ s # <<>> /\ ~TopOf(s).inside /\ TopOf(s).pos <= Len(TopOf(s).slots)
      /\ stack' = [stack EXCEPT ![t] = z]
      /\ IF RegionChanged(TopOf(s))
         THEN current' = [current EXCEPT ![t] = [id |-> RegionId[CtxRegion[ModLibrary[m]]],
                                                entry |-> ModRegion[m]]]
         ELSE UNCHANGED current
      /\ region_state' = [region_state EXCEPT ![ModLibrary[m]] = [of |-> m, by |-> t]]
      /\ UNCHANGED <<last_ran, last_retp, retbuf, adapter, claimed>>
  BY <1>1, <1>2 DEF Enter, SetTop, Top, TopOf, At, SetState, set_current_region, IInv, VarTypes
<1>4. ThreadInv(t, s, current[t].entry, last_ran[t], last_retp[t], claimed[t],
                adapter, region_state)
  BY DEF IInv
<1>5. m \in Mod /\ ModRegion[m] \in Region /\ ModLibrary[m] \in Library
      /\ CtxRegion[ModLibrary[m]] \in Region
  <2>1. m \in Mod
    BY <1>2, <1>3, <1>4, TopFacts DEF ThreadInv
  <2> QED BY <2>1, ModAssumption
<1>6. /\ region_state'[ModLibrary[m]].of = m /\ region_state' \in [Library -> Ctx]
      /\ \A l \in Library : l # ModLibrary[m] => region_state'[l] = region_state[l]
  BY <1>3, <1>5 DEF IInv, VarTypes, Ctx
<1>7. current[t].entry \in Region
  BY DEF IInv, VarTypes
<1>8. /\ current' \in [Thread -> [id : Ids, entry : Region]]
      /\ current'[t].entry = IF RegionChanged(TopOf(s)) THEN ModRegion[m] ELSE current[t].entry
      /\ \A u \in Thread \ {t} : current'[u] = current[u]
  <2>1. CASE RegionChanged(TopOf(s))
    <3>1. current' = [current EXCEPT ![t] = [id |-> RegionId[CtxRegion[ModLibrary[m]]],
                                             entry |-> ModRegion[m]]]
      BY <1>3, <2>1
    <3>2. RegionId[CtxRegion[ModLibrary[m]]] \in Ids
      BY <1>5 DEF Ids
    <3> QED BY <1>5, <2>1, <3>1, <3>2 DEF IInv, VarTypes
  <2>2. CASE ~RegionChanged(TopOf(s))
    BY <1>3, <2>2 DEF IInv, VarTypes
  <2> QED BY <2>1, <2>2
<1>9. ThreadInv(t, z, current'[t].entry, last_ran[t], last_retp[t], claimed[t],
                adapter, region_state')
  <2> HIDE DEF s
  <2>1. PICK c2, rs2 : c2 = current'[t].entry /\ rs2 = region_state'
    OBVIOUS
  <2>2. /\ c2 = IF RegionChanged(TopOf(s)) THEN ModRegion[At(TopOf(s))] ELSE current[t].entry
        /\ rs2[ModLibrary[At(TopOf(s))]].of = At(TopOf(s))
        /\ \A l \in Library : l # ModLibrary[At(TopOf(s))] => rs2[l] = region_state[l]
    BY <1>2, <1>6, <1>8, <2>1
  <2>3. s # <<>> /\ ~TopOf(s).inside /\ TopOf(s).pos <= Len(TopOf(s).slots)
    BY <1>3
  <2>4. ThreadInv(t, [s EXCEPT ![Len(s)] = [TopOf(s) EXCEPT !.inside = TRUE,
                                              !.prev = current[t].entry, !.nested = FALSE]],
                  c2, last_ran[t], last_retp[t], claimed[t], adapter, rs2)
    BY <1>4, <1>7, <2>2, <2>3, EnterKeeps
  <2> QED BY <1>1, <2>1, <2>4
<1>10. stack'[t] = z
  BY <1>3 DEF IInv, VarTypes
<1>11. ThreadInv(t, stack'[t], current'[t].entry, last_ran'[t], last_retp'[t], claimed'[t],
                 adapter', region_state')
  BY <1>3, <1>9, <1>10
<1>12. VarTypes'
  <2>1. stack' \in [Thread -> Seq(Frame)]
    BY <1>3, <1>9 DEF IInv, VarTypes, ThreadInv
  <2>2. RetBuf' = RetBuf
    BY DEF RetBuf
  <2> QED BY <1>3, <1>6, <1>8, <2>1, <2>2 DEF IInv, VarTypes
<1>13. \A l \in Library : region_state'[l] = region_state[l] \/ region_state'[l].by = t
  BY <1>3, <1>5 DEF IInv, VarTypes
<1>14. \A u \in Thread \ {t} : /\ stack'[u] = stack[u] /\ current'[u] = current[u]
                               /\ last_ran'[u] = last_ran[u] /\ last_retp'[u] = last_retp[u]
                               /\ claimed'[u] = claimed[u]
  BY <1>3, <1>8 DEF IInv, VarTypes
<1> QED BY <1>3, <1>11, <1>12, <1>13, <1>14, OneThread

\* A listener claims a region.
LEMMA ClaimStep ==
  ASSUME IInv, NEW t \in Thread, NEW r \in Claimable, ClaimAt(t, r)
  PROVE  IInv'
<1>1. /\ current' = [current EXCEPT ![t] = [id |-> RegionId[r], entry |-> r]]
      /\ claimed' = [claimed EXCEPT ![t] = TRUE]
      /\ UNCHANGED <<stack, last_ran, last_retp, retbuf, adapter, region_state>>
  BY DEF ClaimAt, set_current_region
<1>2. r \in Region /\ RegionId[r] \in Ids
  BY ClaimableAssumption DEF Ids
<1>3. claimed'[t] = TRUE /\ current'[t].entry = r
  BY <1>1 DEF IInv, VarTypes
<1>4. ThreadInv(t, stack[t], r, last_ran[t], last_retp[t], TRUE, adapter, region_state)
  <2>1. ThreadInv(t, stack[t], current[t].entry, last_ran[t], last_retp[t], claimed[t],
                  adapter, region_state)
    BY DEF IInv
  <2> QED BY <2>1, ClaimKeeps
<1>5. ThreadInv(t, stack'[t], current'[t].entry, last_ran'[t], last_retp'[t], claimed'[t],
                adapter', region_state')
  BY <1>1, <1>3, <1>4
<1>6. VarTypes'
  <2>1. RetBuf' = RetBuf
    BY DEF RetBuf
  <2>2. current' \in [Thread -> [id : Ids, entry : Region]] /\ claimed' \in [Thread -> BOOLEAN]
    BY <1>1, <1>2 DEF IInv, VarTypes
  <2> QED BY <1>1, <2>1, <2>2 DEF IInv, VarTypes
<1>7. \A u \in Thread \ {t} : /\ stack'[u] = stack[u] /\ current'[u] = current[u]
                              /\ last_ran'[u] = last_ran[u] /\ last_retp'[u] = last_retp[u]
                              /\ claimed'[u] = claimed[u]
  BY <1>1 DEF IInv, VarTypes
<1> QED BY <1>1, <1>5, <1>6, <1>7, OneThread

\* A listener returns.
LEMMA LeaveStep ==
  ASSUME IInv, NEW t \in Thread, Leave(t)
  PROVE  IInv'
<1> DEFINE s == stack[t]
<1>1. PICK z : z = [s EXCEPT ![Len(s)] = Returned(TopOf(s))]
  OBVIOUS
<1>2. PICK f : f = TopOf(s)
  OBVIOUS
<1>3. /\ s # <<>> /\ f.inside
      /\ stack' = [stack EXCEPT ![t] = z]
      /\ IF RegionChanged(f)
         THEN current' = [current EXCEPT ![t] = [id |-> f.id, entry |-> f.prev]]
         ELSE UNCHANGED current
      /\ last_ran' = [last_ran EXCEPT ![t] = f.pos]
      /\ last_retp' = [last_retp EXCEPT ![t] = Publish(f.retp, Len(s))]
      /\ adapter' = [reg |-> f.reg, by |-> t]
      /\ UNCHANGED <<retbuf, region_state, claimed>>
  BY <1>1, <1>2 DEF Leave, Inside, SetTop, Top, TopOf, At, Depth, xy_last_publish, set_current_region,
                    IInv, VarTypes
<1>4. ThreadInv(t, s, current[t].entry, last_ran[t], last_retp[t], claimed[t],
                adapter, region_state)
  BY DEF IInv
<1>5. f \in Frame /\ f.reg \in Hook /\ f.id \in Ids /\ f.prev \in Region /\ f.pos \in Nat
  <2>1. f \in Frame
    BY <1>2, <1>3, <1>4, TopFacts DEF ThreadInv
  <2> QED BY <2>1 DEF Frame
<1>6. /\ current' \in [Thread -> [id : Ids, entry : Region]]
      /\ current'[t].entry = IF RegionChanged(f) THEN f.prev ELSE current[t].entry
      /\ \A u \in Thread \ {t} : current'[u] = current[u]
  <2>1. CASE RegionChanged(f)
    <3>1. current' = [current EXCEPT ![t] = [id |-> f.id, entry |-> f.prev]]
      BY <1>3, <2>1
    <3> QED BY <1>5, <2>1, <3>1 DEF IInv, VarTypes
  <2>2. CASE ~RegionChanged(f)
    BY <1>3, <2>2 DEF IInv, VarTypes
  <2> QED BY <2>1, <2>2
<1>7. stack'[t] = z /\ last_ran'[t] = f.pos /\ last_retp'[t] = Publish(f.retp, Len(s)) /\ adapter'.reg = f.reg
      /\ adapter'.by = t
  BY <1>3 DEF IInv, VarTypes
<1>8. ThreadInv(t, z, current'[t].entry, f.pos, Publish(f.retp, Len(s)), claimed[t], adapter',
                region_state)
  <2> HIDE DEF s
  <2>1. PICK c2, ad2 : c2 = current'[t].entry /\ ad2 = adapter'
    OBVIOUS
  <2>2. /\ s # <<>> /\ TopOf(s).inside /\ ad2.reg = TopOf(s).reg
        /\ c2 = IF RegionChanged(TopOf(s)) THEN TopOf(s).prev ELSE current[t].entry
    BY <1>2, <1>3, <1>6, <1>7, <2>1
  <2>3. ThreadInv(t, [s EXCEPT ![Len(s)] = Returned(TopOf(s))], c2, TopOf(s).pos,
                  Publish(TopOf(s).retp, Len(s)), claimed[t], ad2, region_state)
    BY <1>4, <2>2, LeaveKeeps
  <2> QED BY <1>1, <1>2, <2>1, <2>3
<1>9. ThreadInv(t, stack'[t], current'[t].entry, last_ran'[t], last_retp'[t], claimed'[t],
                adapter', region_state')
  BY <1>3, <1>7, <1>8
<1>10. VarTypes'
  <2>1. stack' \in [Thread -> Seq(Frame)]
    BY <1>3, <1>8 DEF IInv, VarTypes, ThreadInv
  <2>2. Publish(f.retp, Len(s)) \in 0 .. RetBuf
    BY <1>4, BoundAssumption DEF ThreadInv, RetBuf, Publish
  <2>3. last_retp' \in [Thread -> 0 .. RetBuf]
    BY <1>3, <2>2 DEF IInv, VarTypes
  <2>4. RetBuf' = RetBuf
    BY DEF RetBuf
  <2> QED BY <1>3, <1>5, <1>6, <2>1, <2>3, <2>4 DEF IInv, VarTypes
<1>11. \A u \in Thread \ {t} : /\ stack'[u] = stack[u] /\ current'[u] = current[u]
                               /\ last_ran'[u] = last_ran[u] /\ last_retp'[u] = last_retp[u]
                               /\ claimed'[u] = claimed[u]
  BY <1>3, <1>6 DEF IInv, VarTypes
<1> QED BY <1>3, <1>7, <1>9, <1>10, <1>11, OneThread

\* A dispatch ends.
LEMMA FinishStep ==
  ASSUME IInv, NEW t \in Thread, Finish(t)
  PROVE  IInv'
<1> DEFINE s == stack[t]
<1>1. PICK z : z = SubSeq(s, 1, Len(s) - 1)
  OBVIOUS
<1>2. PICK f : f = TopOf(s)
  OBVIOUS
<1>3. PICK ran, kept, lp : /\ ran = Len(f.slots)
                           /\ kept = (ran # 0 /\ f.retp)
                           /\ lp = IF kept THEN RetBuf ELSE 0
  OBVIOUS
<1>4. PICK cl : cl = (claimed[t] /\ Len(s) > 1)
  OBVIOUS
<1>5. /\ s # <<>> /\ ~f.inside
      /\ stack' = [stack EXCEPT ![t] = z]
      /\ last_ran' = [last_ran EXCEPT ![t] = ran]
      /\ last_retp' = [last_retp EXCEPT ![t] = lp]
      /\ retbuf' = [retbuf EXCEPT ![t] = IF kept THEN f.ret ELSE @]
      /\ claimed' = [claimed EXCEPT ![t] = cl]
      /\ UNCHANGED <<current, adapter, region_state>>
  BY <1>1, <1>2, <1>3, <1>4 DEF Finish, Top, TopOf, Depth, xy_set_last_ret, IInv, VarTypes
<1>6. ThreadInv(t, s, current[t].entry, last_ran[t], last_retp[t], claimed[t],
                adapter, region_state)
  BY DEF IInv
<1>7. f \in Frame /\ f.ret \in Value /\ ran \in Nat /\ lp \in {0, RetBuf} /\ cl \in BOOLEAN
  <2>1. f \in Frame /\ f.slots \in Seq(Mod)
    BY <1>2, <1>5, <1>6, TopFacts DEF ThreadInv
  <2> QED BY <1>3, <1>4, <2>1 DEF Frame
<1>8. stack'[t] = z /\ last_ran'[t] = ran /\ last_retp'[t] = lp /\ claimed'[t] = cl
  BY <1>5 DEF IInv, VarTypes
<1>9. ThreadInv(t, z, current[t].entry, ran, lp, cl, adapter, region_state)
  <2>1. claimed[t] \in BOOLEAN
    BY DEF IInv, VarTypes
  <2> HIDE DEF s
  <2>2. ThreadInv(t, SubSeq(s, 1, Len(s) - 1), current[t].entry, ran, lp, claimed[t] /\ Len(s) > 1,
                  adapter, region_state)
    BY <1>2, <1>5, <1>6, <1>7, <2>1, FinishKeeps
  <2> QED BY <1>1, <1>4, <2>2
<1>10. ThreadInv(t, stack'[t], current'[t].entry, last_ran'[t], last_retp'[t], claimed'[t],
                 adapter', region_state')
  BY <1>5, <1>8, <1>9
<1>11. VarTypes'
  <2>1. stack' \in [Thread -> Seq(Frame)]
    BY <1>5, <1>9 DEF IInv, VarTypes, ThreadInv
  <2>2. lp \in 0 .. RetBuf /\ RetBuf' = RetBuf
    BY <1>7, BoundAssumption DEF RetBuf
  <2>3. last_retp' \in [Thread -> 0 .. RetBuf] /\ claimed' \in [Thread -> BOOLEAN]
    BY <1>5, <1>7, <2>2 DEF IInv, VarTypes
  <2>4. retbuf' \in [Thread -> Value] /\ last_ran' \in [Thread -> Nat]
    BY <1>5, <1>7 DEF IInv, VarTypes
  <2> QED BY <1>5, <2>1, <2>2, <2>3, <2>4 DEF IInv, VarTypes
<1>12. \A u \in Thread \ {t} : /\ stack'[u] = stack[u] /\ current'[u] = current[u]
                               /\ last_ran'[u] = last_ran[u] /\ last_retp'[u] = last_retp[u]
                               /\ claimed'[u] = claimed[u]
  BY <1>5 DEF IInv, VarTypes
<1> QED BY <1>5, <1>10, <1>11, <1>12, OneThread

(***************************************************************************)
(* The invariant holds                                                     *)
(***************************************************************************)

\* No dispatch runs at first.
LEMMA InitInv ==
  ASSUME Init
  PROVE  IInv
<1>1. VarTypes
  <2>1. stack \in [Thread -> Seq(Frame)] /\ claimed \in [Thread -> BOOLEAN]
    BY DEF Init
  <2>2. current \in [Thread -> [id : Ids, entry : Region]]
    BY HomeAssumption DEF Init, Ids
  <2>3. last_ran \in [Thread -> Nat] /\ last_retp \in [Thread -> 0 .. RetBuf]
    BY BoundAssumption DEF Init, RetBuf
  <2>4. retbuf \in [Thread -> Value]
    BY DEF Init, Value
  <2>5. adapter \in [reg : Hook \cup {NoHook}, by : Thread]
    BY DEF Init
  <2>6. region_state \in [Library -> Ctx]
    BY DEF Init, Ctx
  <2> QED BY <2>1, <2>2, <2>3, <2>4, <2>5, <2>6 DEF VarTypes
<1>2. ASSUME NEW u \in Thread
      PROVE  ThreadInv(u, stack[u], current[u].entry, last_ran[u], last_retp[u], claimed[u],
                       adapter, region_state)
  <2>1. stack[u] = <<>> /\ last_retp[u] = 0
    BY DEF Init
  <2>2. Chained(<<>>) /\ Waiting(<<>>) /\ <<>> \in Seq(Frame) /\ Len(<<>>) <= MaxDepth
    BY BoundAssumption DEF Chained, Waiting
  <2>3. Nests(<<>>) /\ FromBelow(u, <<>>, region_state)
    BY DEF Nests, FromBelow
  <2> QED BY <2>1, <2>2, <2>3 DEF ThreadInv, InOwn, Shows
<1> QED BY <1>1, <1>2 DEF IInv

\* Every step keeps the invariant.
LEMMA Step ==
  ASSUME IInv, [Next]_vars
  PROVE  IInv'
<1>1. CASE UNCHANGED vars
  <2>1. /\ stack' = stack /\ current' = current /\ last_ran' = last_ran /\ last_retp' = last_retp
        /\ retbuf' = retbuf /\ adapter' = adapter /\ region_state' = region_state
        /\ claimed' = claimed
    BY <1>1 DEF vars
  <2>2. RetBuf' = RetBuf
    BY DEF RetBuf
  <2>3. VarTypes'
    BY <2>1, <2>2 DEF IInv, VarTypes
  <2> QED BY <2>1, <2>3 DEF IInv
<1>2. ASSUME NEW t \in Thread,
             \/ \E h \in Hook, self, retp \in BOOLEAN : Call(t, h, self, retp)
             \/ \E h \in Hook : CallRefused(t, h)
             \/ Enter(t)
             \/ \E r \in Claimable : ClaimAt(t, r)
             \/ Leave(t)
             \/ Finish(t)
      PROVE  IInv'
  BY <1>2, CallStep, RefusedStep, EnterStep, ClaimStep, LeaveStep, FinishStep
<1> QED BY <1>1, <1>2 DEF Next

\* IInv is an invariant.
LEMMA Invariance == Spec => []IInv
<1>1. Init => IInv
  BY InitInv
<1>2. IInv /\ [Next]_vars => IInv'
  BY Step
<1> QED BY <1>1, <1>2, PTL DEF Spec

(***************************************************************************)
(* The theorems                                                            *)
(***************************************************************************)

\* What the invariant says of a thread that runs a dispatch.
LEMMA ThreadFacts ==
  ASSUME IInv, NEW t \in Thread
  PROVE  /\ ThreadInv(t, stack[t], current[t].entry, last_ran[t], last_retp[t], claimed[t],
                      adapter, region_state)
         /\ Depth(t) = Len(stack[t])
         /\ stack[t] # <<>> => /\ Top(t) = TopOf(stack[t])
                              /\ TopOf(stack[t]) \in Frame /\ FrameOK(TopOf(stack[t]))
                              /\ Len(stack[t]) \in DOMAIN stack[t]
                              /\ Len(stack[t]) \in Nat
  BY TopFacts DEF IInv, ThreadInv, Top, TopOf, Depth

\* Every variable has its type: in particular no loop of xy_dispatch runs past its
\* vector, and no more dispatches are nested than the model allows.
THEOREM TypeCorrect == Spec => []TypeOK
<1>1. ASSUME IInv PROVE TypeOK
  <2>1. ASSUME NEW t \in Thread
        PROVE  /\ Len(stack[t]) <= MaxDepth
               /\ \A i \in DOMAIN stack[t] :
                    LET f == stack[t][i]
                    IN f.reg \in Hook /\ f.ret \in Value /\ f.pos \in 1 .. Len(f.slots) + 1
    <3>1. stack[t] \in Seq(Frame) /\ Len(stack[t]) <= MaxDepth
          /\ \A i \in DOMAIN stack[t] : FrameOK(stack[t][i])
      BY <1>1, ThreadFacts DEF ThreadInv
    <3>2. \A i \in DOMAIN stack[t] : stack[t][i] \in Frame
      BY <3>1
    <3> QED BY <3>1, <3>2 DEF Frame, FrameOK
  <2> QED BY <1>1, <2>1 DEF IInv, VarTypes, TypeOK, Ids, Ctx
<1> QED BY <1>1, Invariance, PTL

\* The pointer behind xy_last never leads to the variable of a dispatch that has
\* returned, at any depth of nesting (xy_set_last_ret, xy_last_publish).
THEOREM NoDanglingCorrect == Spec => []NoDanglingResult
<1>1. ASSUME IInv PROVE NoDanglingResult
  BY <1>1, ThreadFacts DEF ThreadInv, NoDanglingResult
<1> QED BY <1>1, Invariance, PTL

\* A listener reads the value of its predecessor through xy_last, whatever calls that
\* one has nested (xy_dispatch, xy_last_publish).
THEOREM LastCorrect == Spec => []LastIsPredecessor
<1>1. ASSUME IInv PROVE LastIsPredecessor
  <2> SUFFICES ASSUME NEW t \in Thread, Inside(t), ~Top(t).nested
               PROVE  /\ xy_last(t) = IF Top(t).pos = 1 THEN NotFound
                                      ELSE IF Top(t).retp
                                      THEN <<Top(t).reg, Top(t).slots[Top(t).pos - 1]>>
                                      ELSE Unwritten
                      /\ adapter.by = t => adapter.reg = Top(t).reg
    BY DEF LastIsPredecessor
  <2> DEFINE f == Top(t)
  <2>1. /\ stack[t] # <<>> /\ f = TopOf(stack[t]) /\ f \in Frame /\ FrameOK(f)
        /\ Len(stack[t]) \in DOMAIN stack[t] /\ Len(stack[t]) \in Nat
        /\ ThreadInv(t, stack[t], current[t].entry, last_ran[t], last_retp[t], claimed[t],
                     adapter, region_state)
    BY <1>1, ThreadFacts DEF Inside
  <2>2. /\ last_ran[t] = f.pos - 1 /\ last_retp[t] = Publish(f.retp, Len(stack[t]))
        /\ adapter.by = t => adapter.reg = f.reg
    BY <2>1 DEF ThreadInv, Shows
  <2>3. f.pos \in Nat /\ f.pos >= 1 /\ (f.pos > 1 /\ f.retp => f.ret = <<f.reg, f.slots[f.pos - 1]>>)
    BY <2>1 DEF Frame, FrameOK
  <2>4. f.retp => last_retp[t] # 0 /\ Deref(t) = f.ret
    <3>1. Len(stack[t]) # RetBuf /\ Len(stack[t]) # 0
      BY <2>1, BoundAssumption DEF ThreadInv, RetBuf
    <3>2. stack[t][Len(stack[t])] = f
      BY <2>1 DEF TopOf
    <3> QED BY <2>1, <2>2, <3>1, <3>2 DEF Deref, Publish
  <2>5. ~f.retp => last_retp[t] = 0
    BY <2>2 DEF Publish
  <2> HIDE DEF f
  <2>6. xy_last(t) = IF f.pos = 1 THEN NotFound
                     ELSE IF f.retp THEN <<f.reg, f.slots[f.pos - 1]>> ELSE Unwritten
    <3>1. CASE f.pos = 1
      <4>1. last_ran[t] = 0
        BY <2>2, <3>1
      <4> QED BY <3>1, <4>1 DEF xy_last
    <3>2. CASE f.pos # 1
      <4>1. last_ran[t] # 0 /\ f.pos > 1
        BY <2>2, <2>3, <3>2
      <4> QED BY <2>3, <2>4, <2>5, <3>2, <4>1 DEF xy_last
    <3> QED BY <3>1, <3>2
  <2> QED BY <2>2, <2>6 DEF f
<1> QED BY <1>1, Invariance, PTL

\* Unless somebody claims a region, listeners run in the region of their module and
\* every dispatch gives its caller's region back (xy_dispatch, set_current_region).
THEOREM OwnRegionCorrect == Spec => []RunsInOwnRegion
<1>1. ASSUME IInv PROVE RunsInOwnRegion
  <2> SUFFICES ASSUME NEW t \in Thread, ~claimed[t]
               PROVE  IF Inside(t) THEN current[t].entry = ModRegion[Top(t).slots[Top(t).pos]]
                      ELSE stack[t] # <<>> => current[t].entry = Top(t).caller
    BY DEF RunsInOwnRegion
  <2>1. InOwn(stack[t], current[t].entry)
    BY <1>1, ThreadFacts, SMTT(30) DEF ThreadInv
  <2> QED BY <2>1 DEF InOwn, Inside, Top, TopOf, At
<1> QED BY <1>1, Invariance, PTL

\* Whatever a listener and those below it have called, xy.region_state in the ctx that
\* all entries of a library share is that of an entry at or below the listener's region,
\* unless somebody claimed a region or another thread wrote it (xy_dispatch).
THEOREM StateCorrect == Spec => []StateFromBelow
<1>1. ASSUME IInv PROVE StateFromBelow
  <2> SUFFICES ASSUME NEW t \in Thread, Inside(t), ~claimed[t]
               PROVE  OwnOrBelow(t, Top(t).slots[Top(t).pos], region_state)
    BY DEF StateFromBelow, OwnOrBelow
  <2>1. FromBelow(t, stack[t], region_state)
    BY <1>1, ThreadFacts DEF ThreadInv
  <2>2. /\ Top(t) = stack[t][Len(stack[t])] /\ Top(t).inside
        /\ Len(stack[t]) \in DOMAIN stack[t]
    BY <1>1, ThreadFacts DEF Inside, Top
  <2> QED BY <2>1, <2>2 DEF FromBelow, At
<1> QED BY <1>1, Invariance, PTL
===============================================================================
