---------------------------- MODULE XyWatchProofs -----------------------------
(***************************************************************************)
(* Proofs about XyWatch, for any number of host threads, files, starts and *)
(* updates.  The types and the agreement of the table with the kernel hold *)
(* whoever starts and stops the watcher; RunningIsAlive if one thread does.*)
(***************************************************************************)
EXTENDS XyWatch, FiniteSetTheorems, TLAPS

(***************************************************************************)
(* The first invariant: an inotify instance, and the table against it.     *)
(***************************************************************************)

\* The kernel sends no IN_MOVED_TO to those who watch a file.
Event == [wd : Nat, mask : {"IN_CLOSE_WRITE", "IN_IGNORED"}]

Watches == UNION {[D -> File] : D \in SUBSET Nat}
Instance == [open : BOOLEAN, woken : BOOLEAN, next : Nat \ {0}, queue : Seq(Event),
             watch : Watches]

\* The descriptors given out so far are below next, which the bound limits.
InstanceOK(k) ==
  /\ k \in Instance
  /\ k.next <= MaxWds + 1
  /\ DOMAIN k.watch \subseteq 1 .. k.next - 1

\* Table e lists what instance k watches, under descriptors that k has given out
\* and that no two files share.
Agree(e, k) ==
  /\ \A wd \in DOMAIN k.watch : k.watch[wd] \in DOMAIN e /\ e[k.watch[wd]] = wd
  /\ \A f \in DOMAIN e : e[f] < k.next
  /\ \A f, g \in DOMAIN e : e[f] = e[g] /\ e[f] # 0 => f = g

TableOK(e) ==
  /\ e \in [DOMAIN e -> 0 .. MaxWds]
  /\ DOMAIN e \subseteq File
  /\ IsFiniteSet(DOMAIN e)
  /\ Cardinality(DOMAIN e) <= XY_WATCH_MAX

WatcherOK ==
  /\ watcher \in [Start -> {"none", "top", "select", "events", "reload", "reloading", "exited"}]
  /\ rfds \in [Start -> 0 .. MaxStarts]
  /\ copy \in [Start -> File \cup {NoFile}]
  /\ evbuf \in [Start -> Seq(Event)]
  /\ \A g \in Start : watcher[g] = "select" => rfds[g] # 0

GlobalsOK ==
  /\ mu \in 0 .. MaxStarts
  /\ running \in BOOLEAN
  /\ fds \in 0 .. MaxStarts
  /\ thread \in 0 .. MaxStarts
  /\ TableOK(entries)

HostsOK ==
  /\ host \in [Host -> {"idle", "stopping", "joining"}]
  /\ joins \in [Host -> 0 .. MaxStarts]

KernelOK ==
  /\ kernel = [g \in Start |-> kernel[g]]
  /\ \A g \in Start : InstanceOK(kernel[g])

TInv ==
  /\ GlobalsOK
  /\ HostsOK
  /\ WatcherOK
  /\ KernelOK
  /\ fds # 0 => Agree(entries, kernel[fds])

\* A new instance and a closed one.
LEMMA NewInstance ==
  /\ InstanceOK(inotify_init1)
  /\ InstanceOK(Closed)
  /\ ~Closed.open
  /\ inotify_init1.open /\ ~inotify_init1.woken
<1>1. MaxWds \in Nat
  BY BoundAssumption
<1>2. [wd \in {} |-> NoFile] \in [{} -> File] /\ {} \in SUBSET Nat
  OBVIOUS
<1>3. [wd \in {} |-> NoFile] \in Watches
  BY <1>2 DEF Watches
<1>4. <<>> \in Seq(Event)
  OBVIOUS
<1>5. inotify_init1 \in Instance
  BY <1>3, <1>4 DEF inotify_init1, Instance
<1>6. Closed \in Instance
  BY <1>5 DEF Closed, Instance
<1> QED BY <1>1, <1>5, <1>6 DEF inotify_init1, Closed, InstanceOK

\* The descriptor that WdOf names is one of those of the file.
LEMMA WdOfIs ==
  ASSUME NEW k, NEW f, WdsOf(k, f) # {}
  PROVE  WdOf(k, f) \in DOMAIN k.watch /\ k.watch[WdOf(k, f)] = f
<1>1. WdOf(k, f) \in WdsOf(k, f)
  BY DEF WdOf
<1> QED BY <1>1 DEF WdsOf

\* What a function over descriptors is, as a watch of an instance.
LEMMA WatchIs ==
  ASSUME NEW w
  PROVE  w \in Watches <=>
           /\ w = [d \in DOMAIN w |-> w[d]]
           /\ DOMAIN w \subseteq Nat
           /\ \A d \in DOMAIN w : w[d] \in File
<1>1. ASSUME w \in Watches
      PROVE  /\ w = [d \in DOMAIN w |-> w[d]]
             /\ DOMAIN w \subseteq Nat
             /\ \A d \in DOMAIN w : w[d] \in File
  <2>1. PICK D \in SUBSET Nat : w \in [D -> File]
    BY <1>1 DEF Watches
  <2> QED BY <2>1
<1>2. ASSUME /\ w = [d \in DOMAIN w |-> w[d]]
             /\ DOMAIN w \subseteq Nat
             /\ \A d \in DOMAIN w : w[d] \in File
      PROVE  w \in Watches
  <2>1. w \in [DOMAIN w -> File] /\ DOMAIN w \in SUBSET Nat
    BY <1>2
  <2> QED BY <2>1 DEF Watches
<1> QED BY <1>1, <1>2

\* What an operation of the kernel leaves alone.
Calm(k, l) == l.open = k.open /\ l.woken = k.woken

\* inotify_add_watch gives a file a descriptor: its old one, or the next.
LEMMA AddWatchIs ==
  ASSUME NEW k, InstanceOK(k), k.next <= MaxWds, NEW f \in File
  PROVE  /\ InstanceOK(inotify_add_watch(k, f))
         /\ Calm(k, inotify_add_watch(k, f))
         /\ WdOf(inotify_add_watch(k, f), f) \in 1 .. MaxWds
<1>1. MaxWds \in Nat /\ k \in Instance /\ k.next \in Nat \ {0}
  BY BoundAssumption DEF InstanceOK, Instance
<1>2. CASE WdsOf(k, f) # {}
  <2>1. inotify_add_watch(k, f) = k
    BY <1>2 DEF inotify_add_watch
  <2> QED BY <1>1, <1>2, <2>1, WdOfIs DEF InstanceOK, Calm
<1>3. CASE WdsOf(k, f) = {}
  <2>1. PICK w : w = [wd \in DOMAIN k.watch \cup {k.next} |->
                       IF wd = k.next THEN f ELSE k.watch[wd]]
    OBVIOUS
  <2>2. inotify_add_watch(k, f) = [k EXCEPT !.next = k.next + 1, !.watch = w]
    BY <1>3, <2>1 DEF inotify_add_watch
  <2>3. w \in Watches
    <3>1. k.watch \in Watches
      BY <1>1 DEF Instance
    <3> QED BY <1>1, <2>1, <3>1, WatchIs
  <2>4. inotify_add_watch(k, f) \in Instance
    <3>1. PICK j : j = [k EXCEPT !.next = k.next + 1]
      OBVIOUS
    <3>2. j \in Instance
      BY <1>1, <3>1 DEF Instance
    <3>3. inotify_add_watch(k, f) = [j EXCEPT !.watch = w]
      BY <2>2, <3>1
    <3> QED BY <2>3, <3>2, <3>3 DEF Instance
  <2>5. PICK l : l = inotify_add_watch(k, f)
    OBVIOUS
  <2>6. l.next = k.next + 1 /\ l.watch = w /\ l.open = k.open /\ l.woken = k.woken
    BY <1>1, <2>2, <2>5 DEF Instance
  <2>7. InstanceOK(l)
    BY <1>1, <2>1, <2>4, <2>5, <2>6 DEF InstanceOK
  <2>8. k.next \in WdsOf(l, f)
    BY <2>1, <2>6 DEF WdsOf
  <2>9. WdOf(l, f) \in DOMAIN l.watch
    BY <2>8, WdOfIs
  <2> QED BY <1>1, <2>5, <2>6, <2>7, <2>9 DEF Calm, InstanceOK
<1> QED BY <1>2, <1>3

\* inotify_rm_watch takes one descriptor out.
LEMMA RmWatchIs ==
  ASSUME NEW k, InstanceOK(k), NEW wd
  PROVE  /\ InstanceOK(inotify_rm_watch(k, wd))
         /\ Calm(k, inotify_rm_watch(k, wd))
         /\ inotify_rm_watch(k, wd).next = k.next
         /\ DOMAIN inotify_rm_watch(k, wd).watch = DOMAIN k.watch \ {wd}
         /\ \A d \in DOMAIN k.watch \ {wd} : inotify_rm_watch(k, wd).watch[d] = k.watch[d]
<1>1. k \in Instance /\ k.watch \in Watches
  BY DEF InstanceOK, Instance
<1>2. PICK w : w = [d \in DOMAIN k.watch \ {wd} |-> k.watch[d]]
  OBVIOUS
<1>3. w \in Watches
  BY <1>1, <1>2, WatchIs
<1>4. PICK l : l = inotify_rm_watch(k, wd)
  OBVIOUS
<1>5. l \in Instance /\ l.next = k.next /\ l.watch = w /\ l.open = k.open /\ l.woken = k.woken
  BY <1>1, <1>2, <1>3, <1>4 DEF inotify_rm_watch, Instance
<1> QED BY <1>2, <1>4, <1>5 DEF InstanceOK, Calm

\* Queued only touches the queue.
LEMMA QueuedIs ==
  ASSUME NEW k, InstanceOK(k), NEW ev \in Event
  PROVE  /\ InstanceOK(Queued(k, ev))
         /\ Calm(k, Queued(k, ev))
         /\ Queued(k, ev).next = k.next
         /\ Queued(k, ev).watch = k.watch
<1>1. k \in Instance /\ k.queue \in Seq(Event)
  BY DEF InstanceOK, Instance
<1>2. CASE Queued(k, ev) = k
  BY <1>2 DEF Calm
<1>3. CASE Queued(k, ev) = [k EXCEPT !.queue = Append(k.queue, ev)]
  <2>1. Append(k.queue, ev) \in Seq(Event)
    BY <1>1
  <2>2. PICK q : q = Append(k.queue, ev)
    OBVIOUS
  <2>3. PICK l : l = Queued(k, ev)
    OBVIOUS
  <2>4. l \in Instance /\ l.next = k.next /\ l.watch = k.watch /\ l.open = k.open /\ l.woken = k.woken
    BY <1>1, <1>3, <2>1, <2>2, <2>3 DEF Instance
  <2> QED BY <2>3, <2>4 DEF InstanceOK, Calm
<1> QED BY <1>2, <1>3 DEF Queued

\* What happens to an instance that is not opened, woken or closed: it stays one, and
\* goes on to agree with table e.
Follows(e, k, l) ==
  /\ InstanceOK(l)
  /\ Calm(k, l)
  /\ Agree(e, k) => Agree(e, l)

\* Events come and go, and a watch ends, without the table being touched.
LEMMA KernelFollows ==
  ASSUME NEW e, NEW k, InstanceOK(k)
  PROVE  /\ Follows(e, k, k)
         /\ \A ev \in Event : Follows(e, k, Queued(k, ev))
         /\ \A wd : Follows(e, k, inotify_rm_watch(k, wd))
         /\ \A ev \in Event, wd \in Nat : Follows(e, k, inotify_rm_watch(Queued(k, ev), wd))
         /\ Follows(e, k, [k EXCEPT !.queue = <<>>])
<1>1. Follows(e, k, k)
  BY DEF Follows, Calm
<1>2. ASSUME NEW ev \in Event PROVE Follows(e, k, Queued(k, ev))
  BY QueuedIs DEF Follows, Agree
<1>3. ASSUME NEW l, InstanceOK(l), NEW wd PROVE Follows(e, l, inotify_rm_watch(l, wd))
  BY <1>3, RmWatchIs DEF Follows, Agree
<1>4. ASSUME NEW ev \in Event, NEW wd \in Nat
      PROVE  Follows(e, k, inotify_rm_watch(Queued(k, ev), wd))
  <2>1. PICK l : l = Queued(k, ev)
    OBVIOUS
  <2>2. Follows(e, k, l) /\ InstanceOK(l)
    BY <1>2, <2>1 DEF Follows
  <2>3. PICK j : j = inotify_rm_watch(l, wd)
    OBVIOUS
  <2>4. Follows(e, l, j)
    BY <1>3, <2>2, <2>3
  <2> QED BY <2>1, <2>2, <2>3, <2>4 DEF Follows, Calm
<1>5. Follows(e, k, [k EXCEPT !.queue = <<>>])
  <2>1. k \in Instance /\ <<>> \in Seq(Event)
    BY DEF InstanceOK
  <2>2. PICK q : q = <<>>
    OBVIOUS
  <2>3. PICK l : l = [k EXCEPT !.queue = q]
    OBVIOUS
  <2>4. l \in Instance /\ l.next = k.next /\ l.watch = k.watch /\ l.open = k.open /\ l.woken = k.woken
    BY <2>1, <2>2, <2>3 DEF Instance
  <2> QED BY <2>2, <2>3, <2>4 DEF Follows, Calm, InstanceOK, Agree
<1> QED BY <1>1, <1>2, <1>3, <1>4, <1>5

\* The table with descriptor wd for file f.
With(e, f, wd) == [g \in DOMAIN e \cup {f} |-> IF g = f THEN wd ELSE e[g]]

\* The table without file f.
Less(e, f) == [g \in DOMAIN e \ {f} |-> e[g]]

\* A file that the table does not have gets a descriptor that no other has: the
\* instance does not watch it, so the descriptor is a new one.
LEMMA AddAgrees ==
  ASSUME NEW e, TableOK(e), NEW k, InstanceOK(k), k.next <= MaxWds, Agree(e, k),
         NEW f \in File, f \notin DOMAIN e
  PROVE  Agree(With(e, f, WdOf(inotify_add_watch(k, f), f)), inotify_add_watch(k, f))
<1>1. k \in Instance /\ k.next \in Nat \ {0}
  BY DEF InstanceOK, Instance
<1>2. WdsOf(k, f) = {}
  BY DEF Agree, WdsOf
<1>3. PICK w : w = [wd \in DOMAIN k.watch \cup {k.next} |->
                     IF wd = k.next THEN f ELSE k.watch[wd]]
  OBVIOUS
<1>4. PICK l : l = inotify_add_watch(k, f)
  OBVIOUS
<1>5. l = [k EXCEPT !.next = k.next + 1, !.watch = w]
  BY <1>2, <1>3, <1>4 DEF inotify_add_watch
<1>6. l.next = k.next + 1 /\ l.watch = w
  BY <1>1, <1>5 DEF Instance
<1>7. \A d \in DOMAIN k.watch : d \in Nat /\ d < k.next /\ k.watch[d] # f
  BY <1>1, <1>2 DEF WdsOf, InstanceOK
<1>8. WdsOf(l, f) = {k.next}
  BY <1>3, <1>6, <1>7 DEF WdsOf
<1>9. WdOf(l, f) = k.next
  BY <1>8 DEF WdOf
<1>10. PICK d : d = With(e, f, k.next)
  OBVIOUS
<1>11. /\ DOMAIN d = DOMAIN e \cup {f}
       /\ d[f] = k.next
       /\ \A g \in DOMAIN e : d[g] = e[g]
  BY <1>10 DEF With
<1>12. \A g \in DOMAIN e : e[g] \in Nat /\ e[g] < k.next
  BY DEF TableOK, Agree
<1>13. \A wd \in DOMAIN w : w[wd] \in DOMAIN d /\ d[w[wd]] = wd
  BY <1>3, <1>7, <1>11 DEF Agree
<1>14. \A g \in DOMAIN d : d[g] < k.next + 1
  BY <1>1, <1>11, <1>12
<1>15. \A g, h \in DOMAIN d : d[g] = d[h] /\ d[g] # 0 => g = h
  BY <1>1, <1>11, <1>12 DEF Agree
<1> QED BY <1>4, <1>6, <1>9, <1>10, <1>13, <1>14, <1>15 DEF Agree

\* A file that cannot be watched is listed without a descriptor.
LEMMA AddMissing ==
  ASSUME NEW e, NEW k, InstanceOK(k), Agree(e, k), NEW f, f \notin DOMAIN e
  PROVE  Agree(With(e, f, 0), k)
<1>1. k.next \in Nat \ {0}
  BY DEF InstanceOK, Instance
<1> QED BY <1>1 DEF Agree, With

\* An entry with a descriptor goes together with its watch; one without has none.
LEMMA RemoveAgrees ==
  ASSUME NEW e, NEW k, InstanceOK(k), Agree(e, k), NEW f \in DOMAIN e,
         NEW l, l = IF e[f] # 0 THEN inotify_rm_watch(k, e[f]) ELSE k
  PROVE  Agree(Less(e, f), l)
<1>1. \A d \in DOMAIN k.watch : d # 0
  <2>1. k.next \in Nat /\ DOMAIN k.watch \subseteq 1 .. k.next - 1
    BY DEF InstanceOK, Instance
  <2> QED BY <2>1
<1>2. CASE e[f] = 0
  BY <1>1, <1>2 DEF Agree, Less
<1>3. CASE e[f] # 0
  <2>1. /\ l.next = k.next
        /\ DOMAIN l.watch = DOMAIN k.watch \ {e[f]}
        /\ \A d \in DOMAIN k.watch \ {e[f]} : l.watch[d] = k.watch[d]
    BY <1>3, RmWatchIs
  <2> QED BY <2>1 DEF Agree, Less
<1> QED BY <1>2, <1>3

\* The table keeps its type when a file is added, while there is room, or removed.
LEMMA TableKeeps ==
  ASSUME NEW e, TableOK(e), NEW f \in File
  PROVE  /\ Cardinality(DOMAIN e) < XY_WATCH_MAX =>
              \A wd \in 0 .. MaxWds : TableOK(With(e, f, wd))
         /\ TableOK(Less(e, f))
<1>1. XY_WATCH_MAX \in Nat
  BY BoundAssumption
<1>2. IsFiniteSet(DOMAIN e) /\ Cardinality(DOMAIN e) \in Nat
  BY FS_CardinalityType DEF TableOK
<1>3. ASSUME Cardinality(DOMAIN e) < XY_WATCH_MAX, NEW wd \in 0 .. MaxWds
      PROVE  TableOK(With(e, f, wd))
  <2>1. /\ IsFiniteSet(DOMAIN e \cup {f})
        /\ Cardinality(DOMAIN e \cup {f}) <= XY_WATCH_MAX
    <3>1. /\ IsFiniteSet(DOMAIN e \cup {f})
          /\ Cardinality(DOMAIN e \cup {f}) =
                IF f \in DOMAIN e THEN Cardinality(DOMAIN e) ELSE Cardinality(DOMAIN e) + 1
      BY <1>2, FS_AddElement
    <3> QED BY <1>1, <1>2, <1>3, <3>1
  <2>2. DOMAIN With(e, f, wd) = DOMAIN e \cup {f}
    BY DEF With
  <2>3. With(e, f, wd) \in [DOMAIN e \cup {f} -> 0 .. MaxWds]
    BY DEF With, TableOK
  <2> QED BY <2>1, <2>2, <2>3 DEF TableOK
<1>4. TableOK(Less(e, f))
  <2>1. /\ IsFiniteSet(DOMAIN e \ {f})
        /\ Cardinality(DOMAIN e \ {f}) <= XY_WATCH_MAX
    <3>1. /\ IsFiniteSet(DOMAIN e \ {f})
          /\ Cardinality(DOMAIN e \ {f}) <= Cardinality(DOMAIN e)
          /\ Cardinality(DOMAIN e \ {f}) \in Nat
      BY <1>2, FS_Subset, FS_CardinalityType, DOMAIN e \ {f} \subseteq DOMAIN e
    <3> QED BY <1>1, <1>2, <3>1 DEF TableOK
  <2>2. DOMAIN Less(e, f) = DOMAIN e \ {f}
    BY DEF Less
  <2>3. Less(e, f) \in [DOMAIN e \ {f} -> 0 .. MaxWds]
    BY DEF Less, TableOK
  <2> QED BY <2>1, <2>2, <2>3 DEF TableOK
<1> QED BY <1>3, <1>4

\* The start: a new instance with the existing files in some order, and a table that
\* agrees with it.
LEMMA RewatchKeeps ==
  ASSUME TableOK(entries), NEW ok \in SUBSET DOMAIN entries, NEW order \in Rewatches(ok)
  PROVE  /\ InstanceOK(Rewatched(order))
         /\ Calm(inotify_init1, Rewatched(order))
         /\ TableOK(RewatchedWds(order))
         /\ Agree(RewatchedWds(order), Rewatched(order))
<1>1. MaxWds \in Nat /\ XY_WATCH_MAX \in Nat /\ XY_WATCH_MAX <= MaxWds
  BY BoundAssumption
<1>2. PICK n : n = Cardinality(ok)
  OBVIOUS
<1>3. n \in Nat /\ n <= MaxWds
  <2>1. IsFiniteSet(DOMAIN entries) /\ Cardinality(DOMAIN entries) <= XY_WATCH_MAX
    BY DEF TableOK
  <2>2. IsFiniteSet(ok) /\ Cardinality(ok) <= Cardinality(DOMAIN entries)
    BY <2>1, FS_Subset
  <2>3. Cardinality(ok) \in Nat /\ Cardinality(DOMAIN entries) \in Nat
    BY <2>1, <2>2, FS_CardinalityType
  <2> QED BY <1>1, <1>2, <2>1, <2>2, <2>3
<1>4. /\ order \in [1 .. n -> ok]
      /\ \A i, j \in 1 .. n : order[i] = order[j] => i = j
  BY <1>2 DEF Rewatches, Bijection, Injection, IsInjective
<1>5. Len(order) = n
  BY <1>3, <1>4
<1>6. order \in Watches
  <2>1. ok \subseteq File
    BY DEF TableOK
  <2> QED BY <1>3, <1>4, <2>1, WatchIs
<1>7. PICK l : l = Rewatched(order)
  OBVIOUS
<1>8. /\ l \in Instance /\ l.next = n + 1 /\ l.watch = order
      /\ l.open = inotify_init1.open /\ l.woken = inotify_init1.woken
  <2>1. inotify_init1 \in Instance
    BY NewInstance DEF InstanceOK
  <2>2. PICK k : k = [inotify_init1 EXCEPT !.next = n + 1]
    OBVIOUS
  <2>3. k \in Instance /\ k.next = n + 1 /\ k.open = inotify_init1.open /\ k.woken = inotify_init1.woken
    BY <1>3, <2>1, <2>2 DEF Instance
  <2>4. l = [k EXCEPT !.watch = order]
    BY <1>5, <1>7, <2>2 DEF Rewatched
  <2> QED BY <1>6, <2>3, <2>4 DEF Instance
<1>9. InstanceOK(l) /\ Calm(inotify_init1, l)
  BY <1>1, <1>3, <1>4, <1>8 DEF InstanceOK, Calm
<1>10. PICK e : e = RewatchedWds(order)
  OBVIOUS
<1>11. DOMAIN e = DOMAIN entries
  BY <1>10 DEF RewatchedWds
<1>12. \A f \in DOMAIN entries :
         \/ e[f] = 0 /\ WdsOf(l, f) = {}
         \/ e[f] \in 1 .. n /\ order[e[f]] = f
  <2>1. SUFFICES ASSUME NEW f \in DOMAIN entries
                 PROVE  \/ e[f] = 0 /\ WdsOf(l, f) = {}
                        \/ e[f] \in 1 .. n /\ order[e[f]] = f
    OBVIOUS
  <2>2. e[f] = IF WdsOf(l, f) # {} THEN WdOf(l, f) ELSE 0
    BY <1>7, <1>10 DEF RewatchedWds
  <2>3. CASE WdsOf(l, f) = {}
    BY <2>2, <2>3
  <2>4. CASE WdsOf(l, f) # {}
    <3>1. WdOf(l, f) \in DOMAIN order /\ order[WdOf(l, f)] = f
      BY <1>8, <2>4, WdOfIs
    <3> QED BY <1>4, <2>2, <2>4, <3>1
  <2> QED BY <2>3, <2>4
<1>13. \A wd \in 1 .. n : order[wd] \in DOMAIN e /\ e[order[wd]] = wd
  <2>1. SUFFICES ASSUME NEW wd \in 1 .. n
                 PROVE  order[wd] \in DOMAIN e /\ e[order[wd]] = wd
    OBVIOUS
  <2>2. order[wd] \in DOMAIN entries
    BY <1>4
  <2>3. wd \in WdsOf(l, order[wd])
    BY <1>4, <1>8 DEF WdsOf
  <2> QED BY <1>4, <1>11, <1>12, <2>2, <2>3
<1>14. TableOK(e)
  <2>1. e \in [DOMAIN e -> 0 .. MaxWds]
    <3>1. e = [f \in DOMAIN e |-> e[f]]
      BY <1>10 DEF RewatchedWds
    <3>2. \A f \in DOMAIN e : e[f] \in 0 .. MaxWds
      BY <1>1, <1>3, <1>11, <1>12
    <3> QED BY <3>1, <3>2
  <2> QED BY <1>11, <2>1 DEF TableOK
<1>15. Agree(e, l)
  <2>1. \A wd \in DOMAIN l.watch : l.watch[wd] \in DOMAIN e /\ e[l.watch[wd]] = wd
    BY <1>4, <1>8, <1>13
  <2>2. \A f \in DOMAIN e : e[f] < l.next
    BY <1>3, <1>8, <1>11, <1>12
  <2>3. \A f, g \in DOMAIN e : e[f] = e[g] /\ e[f] # 0 => f = g
    BY <1>11, <1>12
  <2> QED BY <2>1, <2>2, <2>3 DEF Agree
<1> QED BY <1>7, <1>9, <1>10, <1>14, <1>15

(***************************************************************************)
(* The steps that touch the kernel or the table.                           *)
(***************************************************************************)

\* A step of the kernel that leaves the table alone.
KernelStep == kernel' = [g \in Start |-> kernel'[g]]
              /\ \A g \in Start : Follows(entries, kernel[g], kernel'[g])

\* It keeps what the invariant says of both.
LEMMA KernelStepKeeps ==
  ASSUME TInv, KernelStep, UNCHANGED <<fds, entries>>
  PROVE  KernelOK' /\ (fds # 0 => Agree(entries, kernel[fds]))'
<1>1. KernelOK'
  BY DEF KernelStep, KernelOK, Follows
<1>2. fds \in 0 .. MaxStarts
  BY DEF TInv, GlobalsOK
<1>3. ASSUME fds # 0 PROVE Agree(entries, kernel'[fds])
  <2>1. fds \in Start
    BY <1>2, <1>3 DEF Start
  <2>2. PICK k, l : k = kernel[fds] /\ l = kernel'[fds]
    OBVIOUS
  <2>3. Follows(entries, k, l) /\ Agree(entries, k)
    BY <1>3, <2>1, <2>2 DEF KernelStep, TInv
  <2> QED BY <2>2, <2>3 DEF Follows
<1> QED BY <1>1, <1>3

\* Files are written and replaced, and events are read.
LEMMA UpdateStep ==
  ASSUME TInv, NEW f \in File, Update(f) \/ Replace(f)
  PROVE  KernelStep
<1>1. PICK W : W = {g \in Start : kernel[g].open /\ WdsOf(kernel[g], f) # {}}
  OBVIOUS
<1>2. \A g \in Start : InstanceOK(kernel[g])
  BY DEF TInv, KernelOK
<1>3. ASSUME NEW g \in W
      PROVE  /\ WdOf(kernel[g], f) \in Nat
             /\ [wd |-> WdOf(kernel[g], f), mask |-> "IN_CLOSE_WRITE"] \in Event
             /\ [wd |-> WdOf(kernel[g], f), mask |-> "IN_IGNORED"] \in Event
  <2>1. g \in Start /\ WdsOf(kernel[g], f) # {}
    BY <1>1
  <2>2. WdOf(kernel[g], f) \in DOMAIN kernel[g].watch
    BY <2>1, WdOfIs
  <2>3. DOMAIN kernel[g].watch \subseteq 1 .. kernel[g].next - 1 /\ kernel[g].next \in Nat
    BY <1>2, <2>1 DEF InstanceOK, Instance
  <2>4. WdOf(kernel[g], f) \in Nat
    BY <2>2, <2>3
  <2> QED BY <2>4 DEF Event
<1>4. CASE Update(f)
  <2>1. kernel' = [g \in Start |->
          IF g \notin W THEN kernel[g]
          ELSE Queued(kernel[g], [wd |-> WdOf(kernel[g], f), mask |-> "IN_CLOSE_WRITE"])]
    BY <1>1, <1>4 DEF Update
  <2>2. ASSUME NEW g \in Start PROVE Follows(entries, kernel[g], kernel'[g])
    <3>1. CASE g \notin W
      BY <1>2, <2>1, <3>1, KernelFollows
    <3>2. CASE g \in W
      BY <1>2, <1>3, <2>1, <3>2, KernelFollows
    <3> QED BY <3>1, <3>2
  <2> QED BY <2>1, <2>2 DEF KernelStep
<1>5. CASE Replace(f)
  <2>1. kernel' = [g \in Start |->
          IF g \notin W THEN kernel[g]
          ELSE inotify_rm_watch(Queued(kernel[g], [wd |-> WdOf(kernel[g], f), mask |-> "IN_IGNORED"]),
                                WdOf(kernel[g], f))]
    BY <1>1, <1>5 DEF Replace
  <2>2. ASSUME NEW g \in Start PROVE Follows(entries, kernel[g], kernel'[g])
    <3>1. CASE g \notin W
      BY <1>2, <2>1, <3>1, KernelFollows
    <3>2. CASE g \in W
      BY <1>2, <1>3, <2>1, <3>2, KernelFollows
    <3> QED BY <3>1, <3>2
  <2> QED BY <2>1, <2>2 DEF KernelStep
<1> QED BY <1>4, <1>5

\* A read empties the queue of an instance, or reads nothing.
LEMMA ReadStep ==
  ASSUME TInv, NEW g \in Start, Read(g)
  PROVE  KernelStep
<1>1. \A s \in Start : InstanceOK(kernel[s])
  BY DEF TInv, KernelOK
<1>2. kernel = [s \in Start |-> kernel[s]]
  BY DEF TInv, KernelOK
<1>3. CASE kernel' = kernel
  BY <1>1, <1>2, <1>3, KernelFollows DEF KernelStep
<1>4. CASE kernel' = [kernel EXCEPT ![fds].queue = <<>>]
  <2>1. kernel' = [s \in Start |-> IF s = fds THEN [kernel[s] EXCEPT !.queue = <<>>] ELSE kernel[s]]
    BY <1>2, <1>4
  <2>2. ASSUME NEW s \in Start PROVE Follows(entries, kernel[s], kernel'[s])
    <3>1. CASE s = fds
      <4>1. kernel'[s] = [kernel[s] EXCEPT !.queue = <<>>]
        BY <2>1, <3>1
      <4> QED BY <1>1, <4>1, KernelFollows
    <3>2. CASE s # fds
      BY <1>1, <2>1, <3>2, KernelFollows
    <3> QED BY <3>1, <3>2
  <2> QED BY <2>1, <2>2 DEF KernelStep
<1> QED BY <1>3, <1>4 DEF Read

\* A host adds a file: with a descriptor if there is an instance and the file exists.
LEMMA AddStep ==
  ASSUME TInv, NEW h \in Host, NEW f \in File, xy_watch_add(h, f)
  PROVE  /\ TableOK(entries')
         /\ KernelOK'
         /\ (fds # 0 => Agree(entries, kernel[fds]))'
         /\ \A g \in Start : Calm(kernel[g], kernel'[g])
<1>1. PICK exists \in BOOLEAN : entry_rewatch(f, exists)
  BY DEF xy_watch_add
<1>2. /\ f \notin DOMAIN entries /\ Cardinality(DOMAIN entries) < XY_WATCH_MAX
      /\ UNCHANGED fds
  BY DEF xy_watch_add
<1>3. /\ TableOK(entries) /\ fds \in 0 .. MaxStarts
      /\ kernel = [g \in Start |-> kernel[g]]
      /\ \A g \in Start : InstanceOK(kernel[g])
      /\ fds # 0 => Agree(entries, kernel[fds])
      /\ 0 \in 0 .. MaxWds
  BY BoundAssumption DEF TInv, GlobalsOK, KernelOK
<1>4. CASE fds # 0 /\ exists
  <2>1. fds \in Start
    BY <1>3, <1>4 DEF Start
  <2>2. PICK k : k = kernel[fds]
    OBVIOUS
  <2>3. PICK l : l = inotify_add_watch(k, f)
    OBVIOUS
  <2>4. /\ entries' = With(entries, f, WdOf(l, f))
        /\ k.next <= MaxWds
        /\ kernel' = [kernel EXCEPT ![fds] = l]
    BY <1>1, <1>4, <2>2, <2>3 DEF entry_rewatch, With
  <2>5. InstanceOK(k) /\ Agree(entries, k)
    BY <1>3, <1>4, <2>1, <2>2
  <2>6. InstanceOK(l) /\ Calm(k, l) /\ WdOf(l, f) \in 1 .. MaxWds
    BY <2>3, <2>4, <2>5, AddWatchIs
  <2>7. Agree(entries', l)
    BY <1>2, <1>3, <2>3, <2>4, <2>5, AddAgrees
  <2>8. TableOK(entries')
    <3>1. WdOf(l, f) \in 0 .. MaxWds
      BY <2>6
    <3> QED BY <1>2, <1>3, <2>4, <3>1, TableKeeps
  <2>9. /\ kernel' = [g \in Start |-> kernel'[g]]
        /\ kernel'[fds] = l
        /\ \A g \in Start : g # fds => kernel'[g] = kernel[g]
    BY <1>3, <2>1, <2>4
  <2>10. KernelOK'
    BY <1>3, <2>6, <2>9 DEF KernelOK
  <2>11. \A g \in Start : Calm(kernel[g], kernel'[g])
    BY <2>2, <2>6, <2>9 DEF Calm
  <2> QED BY <1>2, <2>7, <2>8, <2>9, <2>10, <2>11
<1>5. CASE ~(fds # 0 /\ exists)
  <2>1. entries' = With(entries, f, 0) /\ UNCHANGED kernel
    BY <1>1, <1>2, <1>5 DEF entry_rewatch, With
  <2>2. TableOK(entries')
    BY <1>2, <1>3, <2>1, TableKeeps
  <2>3. KernelOK'
    BY <1>3, <2>1 DEF KernelOK
  <2>4. ASSUME fds # 0 PROVE Agree(entries', kernel[fds])
    <3>1. fds \in Start
      BY <1>3, <2>4 DEF Start
    <3> QED BY <1>2, <1>3, <2>1, <2>4, <3>1, AddMissing
  <2>5. \A g \in Start : Calm(kernel[g], kernel'[g])
    BY <2>1 DEF Calm
  <2> QED BY <1>2, <2>1, <2>2, <2>3, <2>4, <2>5
<1> QED BY <1>4, <1>5

\* A host removes a file, and its watch with it.
LEMMA RemoveStep ==
  ASSUME TInv, NEW h \in Host, NEW f \in File, xy_watch_remove(h, f)
  PROVE  /\ TableOK(entries')
         /\ KernelOK'
         /\ (fds # 0 => Agree(entries, kernel[fds]))'
         /\ \A g \in Start : Calm(kernel[g], kernel'[g])
<1>1. /\ f \in DOMAIN entries
      /\ entries' = Less(entries, f)
      /\ kernel' = IF fds # 0 /\ entries[f] # 0
                   THEN [kernel EXCEPT ![fds] = inotify_rm_watch(kernel[fds], entries[f])]
                   ELSE kernel
      /\ UNCHANGED fds
  BY DEF xy_watch_remove, Less
<1>2. /\ TableOK(entries) /\ fds \in 0 .. MaxStarts
      /\ kernel = [g \in Start |-> kernel[g]]
      /\ \A g \in Start : InstanceOK(kernel[g])
      /\ fds # 0 => Agree(entries, kernel[fds])
  BY DEF TInv, GlobalsOK, KernelOK
<1>3. TableOK(entries')
  BY <1>1, <1>2, TableKeeps
<1>4. CASE fds = 0
  <2>1. kernel' = kernel
    BY <1>1, <1>4
  <2> QED BY <1>1, <1>2, <1>3, <1>4, <2>1 DEF KernelOK, Calm
<1>5. CASE fds # 0
  <2>1. fds \in Start
    BY <1>2, <1>5 DEF Start
  <2>2. PICK k : k = kernel[fds]
    OBVIOUS
  <2>3. PICK l : l = IF entries[f] # 0 THEN inotify_rm_watch(k, entries[f]) ELSE k
    OBVIOUS
  <2>4. kernel' = [g \in Start |-> IF g = fds THEN l ELSE kernel[g]]
    BY <1>1, <1>2, <1>5, <2>1, <2>2, <2>3
  <2>5. InstanceOK(k) /\ Agree(entries, k)
    BY <1>2, <1>5, <2>1, <2>2
  <2>6. InstanceOK(l) /\ Calm(k, l)
    BY <2>3, <2>5, RmWatchIs DEF Calm
  <2>7. Agree(entries', l)
    BY <1>1, <2>3, <2>5, RemoveAgrees
  <2>8. KernelOK'
    BY <1>2, <2>4, <2>6 DEF KernelOK
  <2>9. \A g \in Start : Calm(kernel[g], kernel'[g])
    BY <2>2, <2>4, <2>6 DEF Calm
  <2> QED BY <1>1, <1>3, <2>1, <2>4, <2>7, <2>8, <2>9
<1> QED BY <1>4, <1>5

\* A start, with or without a thread, fills the table anew.
LEMMA StartStep ==
  ASSUME TInv, NEW h \in Host, xy_watch_start(h)
  PROVE  /\ TInv'
         /\ kernel'[thread'].open /\ ~kernel'[thread'].woken
         /\ \A g \in Start : g # thread' => kernel'[g] = kernel[g]
<1>1. TableOK(entries) /\ thread \in 0 .. MaxStarts /\ MaxStarts \in Nat
  BY BoundAssumption DEF TInv, GlobalsOK
<1>2. PICK g : g = thread + 1
  OBVIOUS
<1>3. /\ g \in Start
      /\ fds' = g /\ thread' = g /\ running' = TRUE /\ mu' = mu
      /\ watcher' = [watcher EXCEPT ![g] = "top"]
      /\ UNCHANGED <<host, joins, rfds, evbuf, copy>>
  BY <1>2 DEF xy_watch_start, hostVars
<1>4. PICK ok, order :
        /\ ok \in SUBSET DOMAIN entries /\ order \in Rewatches(ok)
        /\ kernel' = [kernel EXCEPT ![g] = Rewatched(order)]
        /\ entries' = RewatchedWds(order)
  BY <1>2 DEF xy_watch_start
<1>5. PICK l : l = Rewatched(order)
  OBVIOUS
<1>6. InstanceOK(l) /\ Calm(inotify_init1, l) /\ TableOK(entries') /\ Agree(entries', l)
  BY <1>1, <1>4, <1>5, RewatchKeeps
<1>7. kernel' = [s \in Start |-> IF s = g THEN l ELSE kernel[s]]
  BY <1>4, <1>5 DEF TInv, KernelOK
<1>8. KernelOK'
  BY <1>6, <1>7 DEF TInv, KernelOK
<1>9. GlobalsOK'
  BY <1>1, <1>3, <1>6 DEF TInv, GlobalsOK, Start
<1>10. HostsOK'
  BY <1>3 DEF TInv, HostsOK
<1>11. WatcherOK'
  BY <1>3 DEF TInv, WatcherOK
<1>12. Agree(entries', kernel'[fds'])
  BY <1>3, <1>6, <1>7
<1>13. kernel'[g].open /\ ~kernel'[g].woken
  BY <1>3, <1>6, <1>7, NewInstance DEF Calm
<1> QED BY <1>3, <1>7, <1>8, <1>9, <1>10, <1>11, <1>12, <1>13 DEF TInv

\* Every step keeps the first invariant, whoever calls.
LEMMA TInvStep == TInv /\ [Next]_vars => TInv'
<1> SUFFICES ASSUME TInv, [Next]_vars PROVE TInv'
  OBVIOUS
<1>0. /\ MaxStarts \in Nat /\ MaxWds \in Nat
      /\ \A x : x \in Start => x \in 0 .. MaxStarts /\ x # 0
  BY BoundAssumption DEF Start
<1>1. ASSUME NEW h \in Host, xy_watch_start(h) PROVE TInv'
  BY <1>1, StartStep
<1>2. ASSUME NEW h \in Host, xy_watch_start_fails(h) PROVE TInv'
  <2>1. PICK ok, order :
          /\ ok \in SUBSET DOMAIN entries /\ order \in Rewatches(ok)
          /\ entries' = RewatchedWds(order)
    BY <1>2 DEF xy_watch_start_fails
  <2>2. TableOK(entries')
    BY <2>1, RewatchKeeps DEF TInv, GlobalsOK
  <2>3. fds' = 0 /\ UNCHANGED <<mu, running, thread, host, joins, watcher, rfds, evbuf, copy, kernel>>
    BY <1>2 DEF xy_watch_start_fails, hostVars, watcherVars
  <2> QED BY <1>0, <2>2, <2>3 DEF TInv, GlobalsOK, HostsOK, WatcherOK, KernelOK
<1>3. ASSUME NEW h \in Host, xy_watch_stop(h) PROVE TInv'
  <2>1. /\ kernel' = [kernel EXCEPT ![fds].woken = TRUE] /\ running' = FALSE
        /\ host' = [host EXCEPT ![h] = "stopping"]
        /\ UNCHANGED <<mu, fds, thread, entries, joins, watcher, rfds, evbuf, copy>>
    BY <1>3 DEF xy_watch_stop, watcherVars
  <2>2. /\ kernel' = [g \in Start |-> kernel'[g]]
        /\ \A g \in Start : kernel'[g] = IF g = fds THEN [kernel[g] EXCEPT !.woken = TRUE] ELSE kernel[g]
    BY <2>1 DEF TInv, KernelOK
  <2>3. ASSUME NEW k, InstanceOK(k), NEW e, NEW l, l = [k EXCEPT !.woken = TRUE]
        PROVE  InstanceOK(l) /\ (Agree(e, k) => Agree(e, l))
    <3>1. l \in Instance /\ l.next = k.next /\ l.watch = k.watch
      BY <2>3 DEF InstanceOK, Instance
    <3> QED BY <2>3, <3>1 DEF InstanceOK, Agree
  <2>4. KernelOK'
    BY <2>2, <2>3 DEF TInv, KernelOK
  <2>5. (fds # 0 => Agree(entries, kernel[fds]))'
    <3>1. SUFFICES ASSUME fds # 0 PROVE Agree(entries, kernel'[fds])
      BY <2>1
    <3>2. fds \in Start
      BY <3>1 DEF TInv, GlobalsOK, Start
    <3>3. InstanceOK(kernel[fds]) /\ Agree(entries, kernel[fds])
      BY <3>1, <3>2 DEF TInv, KernelOK
    <3> QED BY <2>2, <2>3, <3>2, <3>3
  <2>6. GlobalsOK' /\ HostsOK' /\ WatcherOK'
    BY <2>1 DEF TInv, GlobalsOK, HostsOK, WatcherOK
  <2> QED BY <2>4, <2>5, <2>6 DEF TInv
<1>4. ASSUME NEW h \in Host, StopJoin(h) PROVE TInv'
  <2>1. /\ host' = [host EXCEPT ![h] = "joining"]
        /\ joins' = [joins EXCEPT ![h] = thread]
        /\ UNCHANGED <<mu, running, fds, thread, entries, watcher, rfds, evbuf, copy, kernel>>
    BY <1>4 DEF StopJoin, globals, watcherVars
  <2> QED BY <2>1 DEF TInv, GlobalsOK, HostsOK, WatcherOK, KernelOK
<1>5. ASSUME NEW h \in Host, StopClose(h) PROVE TInv'
  <2>1. /\ kernel' = IF fds = 0 THEN kernel ELSE [kernel EXCEPT ![fds] = Closed]
        /\ fds' = 0
        /\ entries' = [f \in DOMAIN entries |-> 0]
        /\ host' = [host EXCEPT ![h] = "idle"]
        /\ UNCHANGED <<mu, running, thread, joins, watcher, rfds, evbuf, copy>>
    BY <1>5 DEF StopClose, watcherVars
  <2>2. KernelOK'
    <3>1. \A g \in Start : kernel'[g] = Closed \/ kernel'[g] = kernel[g]
      BY <2>1 DEF TInv, KernelOK
    <3>2. kernel' = [g \in Start |-> kernel'[g]]
      BY <2>1 DEF TInv, KernelOK
    <3> QED BY <3>1, <3>2, NewInstance DEF TInv, KernelOK
  <2>3. TableOK(entries')
    <3>1. entries' \in [DOMAIN entries -> 0 .. MaxWds] /\ DOMAIN entries' = DOMAIN entries
      BY <1>0, <2>1
    <3> QED BY <3>1 DEF TInv, GlobalsOK, TableOK
  <2>4. GlobalsOK' /\ HostsOK' /\ WatcherOK'
    BY <1>0, <2>1, <2>3 DEF TInv, GlobalsOK, HostsOK, WatcherOK
  <2> QED BY <2>1, <2>2, <2>4 DEF TInv
<1>6. ASSUME NEW h \in Host, NEW f \in File, xy_watch_add(h, f) PROVE TInv'
  <2>1. UNCHANGED <<mu, running, fds, thread, host, joins, watcher, rfds, evbuf, copy>>
    BY <1>6 DEF xy_watch_add, hostVars, watcherVars
  <2>2. TableOK(entries') /\ KernelOK' /\ (fds # 0 => Agree(entries, kernel[fds]))'
    BY <1>6, AddStep
  <2> QED BY <2>1, <2>2 DEF TInv, GlobalsOK, HostsOK, WatcherOK
<1>7. ASSUME NEW h \in Host, NEW f \in File, xy_watch_remove(h, f) PROVE TInv'
  <2>1. UNCHANGED <<mu, running, fds, thread, host, joins, watcher, rfds, evbuf, copy>>
    BY <1>7 DEF xy_watch_remove, hostVars, watcherVars
  <2>2. TableOK(entries') /\ KernelOK' /\ (fds # 0 => Agree(entries, kernel[fds]))'
    BY <1>7, RemoveStep
  <2> QED BY <2>1, <2>2 DEF TInv, GlobalsOK, HostsOK, WatcherOK
<1>8. ASSUME NEW f \in File, Update(f) \/ Replace(f) PROVE TInv'
  <2>1. UNCHANGED <<mu, running, fds, thread, entries, host, joins, watcher, rfds, evbuf, copy>>
    BY <1>8 DEF Update, Replace, globals, hostVars, watcherVars
  <2>2. KernelOK' /\ (fds # 0 => Agree(entries, kernel[fds]))'
    BY <1>8, <2>1, UpdateStep, KernelStepKeeps
  <2> QED BY <2>1, <2>2 DEF TInv, GlobalsOK, HostsOK, WatcherOK
<1>9. ASSUME NEW g \in Start, WatcherStep(g) PROVE TInv'
  <2>1. CASE Select(g)
    <3>1. /\ rfds' = [rfds EXCEPT ![g] = fds]
          /\ watcher' = [watcher EXCEPT ![g] = IF fds = 0 THEN "exited" ELSE "select"]
          /\ UNCHANGED <<mu, running, fds, thread, entries, host, joins, evbuf, copy, kernel>>
      BY <2>1 DEF Select, globals, hostVars
    <3>2. WatcherOK'
      BY <3>1 DEF TInv, WatcherOK, GlobalsOK
    <3> QED BY <3>1, <3>2 DEF TInv, GlobalsOK, HostsOK, KernelOK
  <2>2. CASE Woken(g)
    <3>1. /\ watcher' = [watcher EXCEPT ![g] = IF rfds[g] = fds THEN "exited" ELSE "top"]
          /\ UNCHANGED <<mu, running, fds, thread, entries, host, joins, rfds, evbuf, copy, kernel>>
      BY <2>2 DEF Woken, globals, hostVars
    <3>2. WatcherOK'
      BY <3>1 DEF TInv, WatcherOK, GlobalsOK
    <3> QED BY <3>1, <3>2 DEF TInv, GlobalsOK, HostsOK, KernelOK
  <2>3. CASE Read(g)
    <3>1. UNCHANGED <<mu, running, fds, thread, entries, host, joins, rfds, copy>>
      BY <2>3 DEF Read, globals, hostVars
    <3>2. KernelOK' /\ (fds # 0 => Agree(entries, kernel[fds]))'
      BY <2>3, <3>1, ReadStep, KernelStepKeeps
    <3>3. WatcherOK'
      <4>1. rfds[g] \in Start
        BY <1>0, <2>3 DEF Read, TInv, WatcherOK, Start
      <4>2. CASE rfds[g] = fds
        <5>1. /\ evbuf' = [evbuf EXCEPT ![g] = kernel[fds].queue]
              /\ watcher' = [watcher EXCEPT ![g] = "events"]
          BY <2>3, <4>2 DEF Read
        <5>2. kernel[fds].queue \in Seq(Event)
          BY <4>1, <4>2 DEF TInv, KernelOK, InstanceOK, Instance
        <5> QED BY <3>1, <5>1, <5>2 DEF TInv, WatcherOK
      <4>3. CASE rfds[g] # fds
        BY <2>3, <3>1, <4>3 DEF Read, TInv, WatcherOK
      <4> QED BY <4>2, <4>3
    <3> QED BY <3>1, <3>2, <3>3 DEF TInv, GlobalsOK, HostsOK
  <2>4. ASSUME evbuf[g] # <<>>
        PROVE  Head(evbuf[g]) \in Event /\ Tail(evbuf[g]) \in Seq(Event)
    BY <2>4 DEF TInv, WatcherOK
  <2>5. CASE Skip(g)
    <3>1. /\ evbuf[g] # <<>> /\ evbuf' = [evbuf EXCEPT ![g] = Tail(evbuf[g])]
          /\ UNCHANGED <<mu, running, fds, thread, entries, host, joins, watcher, rfds, copy, kernel>>
      BY <2>5 DEF Skip, globals, hostVars
    <3>2. WatcherOK'
      BY <2>4, <3>1 DEF TInv, WatcherOK
    <3> QED BY <3>1, <3>2 DEF TInv, GlobalsOK, HostsOK, KernelOK
  <2>6. CASE Lookup(g)
    <3>1. Head(evbuf[g]).mask # "IN_MOVED_TO"
      BY <2>4, <2>6 DEF Lookup, Event
    <3>2. PICK f \in Entry(Head(evbuf[g])) :
            copy' = [copy EXCEPT ![g] = f] /\ UNCHANGED <<kernel, entries>>
      BY <2>6, <3>1 DEF Lookup
    <3>3. f \in File
      BY <3>2 DEF Entry, TInv, GlobalsOK, TableOK
    <3>4. /\ evbuf[g] # <<>> /\ evbuf' = [evbuf EXCEPT ![g] = Tail(evbuf[g])]
          /\ watcher' = [watcher EXCEPT ![g] = "reload"]
          /\ UNCHANGED <<mu, running, fds, thread, host, joins, rfds>>
      BY <2>6 DEF Lookup, hostVars
    <3>5. WatcherOK'
      BY <2>4, <3>2, <3>3, <3>4 DEF TInv, WatcherOK
    <3> QED BY <3>2, <3>4, <3>5 DEF TInv, GlobalsOK, HostsOK, KernelOK
  <2>7. CASE ReloadBegin(g)
    <3>1. /\ mu' = g
          /\ watcher' = [watcher EXCEPT ![g] = "reloading"]
          /\ UNCHANGED <<running, fds, thread, entries, host, joins, rfds, evbuf, copy, kernel>>
      BY <2>7 DEF ReloadBegin, hostVars
    <3> QED BY <1>0, <3>1 DEF TInv, GlobalsOK, HostsOK, WatcherOK, KernelOK
  <2>8. CASE ReloadEnd(g)
    <3>1. /\ mu' = 0
          /\ copy' = [copy EXCEPT ![g] = NoFile]
          /\ watcher' = [watcher EXCEPT ![g] = "events"]
          /\ UNCHANGED <<running, fds, thread, entries, host, joins, rfds, evbuf, kernel>>
      BY <2>8 DEF ReloadEnd, hostVars
    <3> QED BY <1>0, <3>1 DEF TInv, GlobalsOK, HostsOK, WatcherOK, KernelOK
  <2>9. CASE Again(g)
    <3>1. /\ watcher' = [watcher EXCEPT ![g] = "top"]
          /\ UNCHANGED <<mu, running, fds, thread, entries, host, joins, rfds, evbuf, copy, kernel>>
      BY <2>9 DEF Again, globals, hostVars
    <3> QED BY <3>1 DEF TInv, GlobalsOK, HostsOK, WatcherOK, KernelOK
  <2> QED BY <1>9, <2>1, <2>2, <2>3, <2>5, <2>6, <2>7, <2>8, <2>9 DEF WatcherStep
<1>10. CASE UNCHANGED vars
  BY <1>10 DEF vars, globals, hostVars, watcherVars, files, TInv, GlobalsOK, HostsOK, WatcherOK, KernelOK
<1> QED BY <1>1, <1>2, <1>3, <1>4, <1>5, <1>6, <1>7, <1>8, <1>9, <1>10 DEF Next

\* At the beginning nothing is open and the table is empty.
LEMMA TInvInit == Init => TInv
<1> SUFFICES ASSUME Init PROVE TInv
  OBVIOUS
<1>1. MaxStarts \in Nat /\ MaxWds \in Nat /\ XY_WATCH_MAX \in Nat
  BY BoundAssumption
<1>2. TableOK(entries)
  <2>1. entries = [f \in {} |-> 0]
    BY DEF Init
  <2>2. DOMAIN entries = {}
    BY <2>1
  <2>3. entries \in [{} -> 0 .. MaxWds]
    BY <2>1
  <2> QED BY <1>1, <2>2, <2>3, FS_EmptySet DEF TableOK
<1>3. GlobalsOK
  <2>1. mu = 0 /\ fds = 0 /\ thread = 0 /\ running = FALSE
    BY DEF Init
  <2>2. 0 \in 0 .. MaxStarts
    BY <1>1
  <2>3. running \in BOOLEAN
    BY <2>1
  <2> QED BY <1>2, <2>1, <2>2, <2>3, Zenon DEF GlobalsOK
<1>4. HostsOK
  BY <1>1 DEF Init, HostsOK
<1>5. WatcherOK
  BY <1>1 DEF Init, WatcherOK
<1>6. KernelOK
  BY NewInstance DEF Init, KernelOK
<1> QED BY <1>3, <1>4, <1>5, <1>6 DEF Init, TInv

\* The first invariant holds throughout.
THEOREM TypeInvariance == Spec => []TInv
<1>1. Init => TInv
  BY TInvInit
<1>2. TInv /\ [Next]_vars => TInv'
  BY TInvStep
<1> QED BY <1>1, <1>2, PTL DEF Spec

\* Type correctness.  The table keeps within XY_WATCH_MAX, whichever threads add and
\* remove files and start and stop the watcher.
THEOREM TypeCorrect == Spec => []TypeOK
<1>1. TInv => TypeOK
  BY DEF TInv, GlobalsOK, HostsOK, WatcherOK, TableOK, TypeOK
<1> QED BY <1>1, TypeInvariance, PTL

\* The table matches the kernel's: a descriptor in it never stands for another file,
\* and nothing is watched that it does not list.  This needs no rule on who starts and
\* stops the watcher.
THEOREM TableCorrect == Spec => []TableMatchesKernel
<1>1. TInv => TableMatchesKernel
  BY DEF TInv, Agree, TableMatchesKernel
<1> QED BY <1>1, TypeInvariance, PTL

(***************************************************************************)
(* The second invariant, for one thread that starts and stops the watcher. *)
(* A watcher thread that is not gone is the latest, and selects on its own *)
(* descriptors; these are the only ones open, and they are told to wake    *)
(* exactly while the thread that stops it is between its two sections.     *)
(***************************************************************************)

Gone(g) == watcher[g] \in {"none", "exited"}

\* The descriptors are those of the latest start and open, and the thread is told to
\* stop if b.
Up(b) ==
  /\ fds = thread
  /\ fds \in Start
  /\ kernel[fds].open
  /\ kernel[fds].woken <=> b

Lives ==
  /\ running => Up(FALSE) /\ ~Gone(thread) /\ \A h \in Host : host[h] = "idle"
  /\ ~running /\ (\A h \in Host : host[h] = "idle") => fds = 0
  /\ \A h \in Host : host[h] # "idle" =>
       /\ h \in Controller
       /\ Up(TRUE)
       /\ host[h] = "joining" => joins[h] = thread
  /\ \A g \in Start : g # fds => Gone(g) /\ ~kernel[g].open
  /\ \A g \in Start : watcher[g] = "select" => rfds[g] = g
  /\ mu # 0 => mu \in Start /\ watcher[mu] = "reloading"

AInv == TInv /\ Lives

\* A step of the kernel, or of a host on the table, does not open, wake or close.
LEMMA CalmStep ==
  ASSUME AInv, UNCHANGED <<mu, running, fds, thread, host, joins, watcher, rfds>>,
         \A g \in Start : Calm(kernel[g], kernel'[g])
  PROVE  Lives'
<1>1. \A g \in Start : kernel'[g].open = kernel[g].open /\ kernel'[g].woken = kernel[g].woken
  BY DEF Calm
<1> QED BY <1>1 DEF AInv, Lives, Up, Gone

\* A step of the watcher that ends nothing: the thread is not gone before or after,
\* and selects on its own descriptors if at all.
LEMMA ThreadStep ==
  ASSUME AInv, NEW g \in Start, ~Gone(g), NEW x, watcher' = [watcher EXCEPT ![g] = x],
         x \notin {"none", "exited"}, x = "select" => rfds'[g] = g,
         \A s \in Start : s # g => rfds'[s] = rfds[s],
         mu' # 0 => mu' \in Start /\ watcher'[mu'] = "reloading",
         \A s \in Start : Calm(kernel[s], kernel'[s]),
         UNCHANGED <<running, fds, thread, host, joins>>
  PROVE  Lives'
<1>1. \A s \in Start : kernel'[s].open = kernel[s].open /\ kernel'[s].woken = kernel[s].woken
  BY DEF Calm
<1>2. /\ watcher'[g] = x
      /\ \A s \in Start : s # g => watcher'[s] = watcher[s]
  BY DEF AInv, TInv, WatcherOK
<1>3. \A s \in Start : Gone(s)' <=> Gone(s)
  BY <1>2 DEF Gone
<1>4. thread' = thread /\ fds' = fds /\ running' = running /\ host' = host /\ joins' = joins
  OBVIOUS
<1>5. \A b \in BOOLEAN : Up(b) => Up(b)'
  BY <1>1, <1>4 DEF Up
<1>6. (running => Up(FALSE) /\ ~Gone(thread) /\ \A h \in Host : host[h] = "idle")'
  <2>1. ASSUME running PROVE Up(FALSE)' /\ ~Gone(thread)' /\ \A h \in Host : host[h] = "idle"
    <3>1. Up(FALSE) /\ ~Gone(thread) /\ \A h \in Host : host[h] = "idle"
      BY <2>1 DEF AInv, Lives
    <3>2. thread \in Start
      BY <3>1 DEF Up
    <3> QED BY <1>3, <1>4, <1>5, <3>1, <3>2 DEF Gone
  <2>2. running' <=> running
    BY <1>4
  <2>3. (\A h \in Host : host[h] = "idle")' <=> \A h \in Host : host[h] = "idle"
    BY <1>4
  <2> QED BY <2>1, <2>2, <2>3, Zenon
<1>7. (~running /\ (\A h \in Host : host[h] = "idle") => fds = 0)'
  BY <1>4 DEF AInv, Lives
<1>8. (\A h \in Host : host[h] # "idle" =>
         /\ h \in Controller
         /\ Up(TRUE)
         /\ host[h] = "joining" => joins[h] = thread)'
  BY <1>4, <1>5 DEF AInv, Lives
<1>9. (\A s \in Start : s # fds => Gone(s) /\ ~kernel[s].open)'
  BY <1>1, <1>3, <1>4 DEF AInv, Lives
<1>10. (\A s \in Start : watcher[s] = "select" => rfds[s] = s)'
  BY <1>2 DEF AInv, Lives
<1> QED BY <1>6, <1>7, <1>8, <1>9, <1>10 DEF Lives

\* Every step keeps the second invariant if one thread at most starts and stops the
\* watcher.
LEMMA LivesStep ==
  ASSUME \A c, d \in Controller : c = d
  PROVE  AInv /\ [Next]_vars => Lives'
<1> SUFFICES ASSUME AInv, [Next]_vars PROVE Lives'
  OBVIOUS
<1>a. TInv /\ TInv'
  BY TInvStep DEF AInv
<1>b. /\ MaxStarts \in Nat
      /\ \A x : x \in Start => x \in 0 .. MaxStarts /\ x # 0
      /\ fds \in 0 .. MaxStarts /\ thread \in 0 .. MaxStarts /\ running \in BOOLEAN
      /\ Controller \subseteq Host
  BY <1>a, BoundAssumption, ControllerAssumption DEF Start, TInv, GlobalsOK
<1>c. ASSUME NEW k, k \in Instance PROVE k.open \in BOOLEAN /\ k.woken \in BOOLEAN
  BY <1>c DEF Instance
<1>d. \A g \in Start : kernel[g].open \in BOOLEAN /\ kernel[g].woken \in BOOLEAN
  BY <1>a, <1>c DEF TInv, KernelOK, InstanceOK
<1>e. ASSUME NEW h \in Controller, host[h] = "idle"
      PROVE  \A d \in Host : host[d] = "idle"
  BY <1>e DEF AInv, Lives
<1>f. ASSUME NEW g \in Start, ~Gone(g) PROVE g = fds /\ fds # 0
  BY <1>b, <1>f DEF AInv, Lives
<1>1. ASSUME NEW h \in Host, xy_watch_start(h) PROVE Lives'
  <2>1. /\ h \in Controller /\ host[h] = "idle" /\ mu = 0 /\ ~running
        /\ thread + 1 \in Start
        /\ fds' = thread + 1 /\ thread' = thread + 1 /\ running' = TRUE /\ mu' = mu
        /\ watcher' = [watcher EXCEPT ![thread + 1] = "top"]
        /\ UNCHANGED <<host, joins, rfds>>
    BY <1>1 DEF xy_watch_start, hostVars, Unlocked
  <2>2. PICK g : g = thread + 1
    OBVIOUS
  <2>3. fds = 0 /\ \A d \in Host : host[d] = "idle"
    BY <1>e, <2>1 DEF AInv, Lives
  <2>4. /\ kernel'[g].open /\ ~kernel'[g].woken
        /\ \A s \in Start : s # g => kernel'[s] = kernel[s]
    BY <1>1, <1>a, <2>1, <2>2, StartStep
  <2>5. /\ watcher'[g] = "top"
        /\ \A s \in Start : s # g => watcher'[s] = watcher[s]
    BY <1>a, <2>1, <2>2 DEF TInv, WatcherOK
  <2>6. Up(FALSE)' /\ ~Gone(thread)'
    BY <2>1, <2>2, <2>4, <2>5 DEF Up, Gone
  <2>7. (\A s \in Start : s # fds => Gone(s) /\ ~kernel[s].open)'
    BY <1>b, <2>1, <2>2, <2>3, <2>4, <2>5 DEF AInv, Lives, Gone
  <2>8. (\A s \in Start : watcher[s] = "select" => rfds[s] = s)'
    BY <2>1, <2>5 DEF AInv, Lives
  <2>9. running' /\ (\A d \in Host : host[d] = "idle")' /\ mu' = 0
    BY <2>1, <2>3
  <2> QED BY <2>6, <2>7, <2>8, <2>9 DEF Lives
<1>2. ASSUME NEW h \in Host, xy_watch_start_fails(h) PROVE Lives'
  <2>1. /\ h \in Controller /\ host[h] = "idle" /\ ~running /\ fds' = 0
        /\ UNCHANGED <<mu, running, thread, host, joins, watcher, rfds, kernel>>
    BY <1>2 DEF xy_watch_start_fails, hostVars, watcherVars
  <2>2. fds = 0
    BY <1>e, <2>1 DEF AInv, Lives
  <2>3. fds' = fds
    BY <2>1, <2>2
  <2>4. \A g \in Start : Calm(kernel[g], kernel'[g])
    BY <2>1 DEF Calm
  <2> QED BY <2>1, <2>3, <2>4, CalmStep
<1>3. ASSUME NEW h \in Host, xy_watch_stop(h) PROVE Lives'
  <2>1. /\ h \in Controller /\ host[h] = "idle" /\ running
        /\ kernel' = [kernel EXCEPT ![fds].woken = TRUE] /\ running' = FALSE
        /\ host' = [host EXCEPT ![h] = "stopping"]
        /\ UNCHANGED <<mu, fds, thread, joins, watcher, rfds>>
    BY <1>3 DEF xy_watch_stop, watcherVars
  <2>2. Up(FALSE) /\ \A d \in Host : host[d] = "idle"
    BY <2>1 DEF AInv, Lives
  <2>3. /\ host'[h] = "stopping"
        /\ \A d \in Host : d # h => host'[d] = "idle"
    BY <1>a, <2>1, <2>2 DEF TInv, HostsOK
  <2>4. /\ kernel'[fds] = [kernel[fds] EXCEPT !.woken = TRUE]
        /\ \A s \in Start : s # fds => kernel'[s] = kernel[s]
    BY <1>a, <2>1, <2>2 DEF TInv, KernelOK, Up
  <2>5. kernel'[fds].woken /\ kernel'[fds].open
    <3>1. kernel[fds] \in Instance
      BY <1>a, <2>2 DEF TInv, KernelOK, InstanceOK, Up
    <3>2. kernel'[fds].woken = TRUE /\ kernel'[fds].open = kernel[fds].open
      BY <2>4, <3>1 DEF Instance
    <3> QED BY <2>2, <3>2 DEF Up
  <2>6. Up(TRUE)'
    BY <2>1, <2>2, <2>5 DEF Up
  <2>7. (\A s \in Start : s # fds => Gone(s) /\ ~kernel[s].open)'
    BY <2>1, <2>4 DEF AInv, Lives, Gone
  <2>8. (\A s \in Start : watcher[s] = "select" => rfds[s] = s)'
    BY <2>1 DEF AInv, Lives
  <2>9. (mu # 0 => mu \in Start /\ watcher[mu] = "reloading")'
    BY <2>1 DEF AInv, Lives
  <2>10. (\A d \in Host : host[d] # "idle" =>
            /\ d \in Controller
            /\ Up(TRUE)
            /\ host[d] = "joining" => joins[d] = thread)'
    BY <2>1, <2>3, <2>6
  <2>11. ~running' /\ ~(\A d \in Host : host'[d] = "idle")
    BY <2>1, <2>3
  <2> QED BY <2>7, <2>8, <2>9, <2>10, <2>11 DEF Lives
<1>4. ASSUME NEW h \in Host, StopJoin(h) PROVE Lives'
  <2>1. /\ host[h] = "stopping"
        /\ host' = [host EXCEPT ![h] = "joining"]
        /\ joins' = [joins EXCEPT ![h] = thread]
        /\ UNCHANGED <<mu, running, fds, thread, watcher, rfds, kernel>>
    BY <1>4 DEF StopJoin, globals, watcherVars
  <2>2. /\ host'[h] = "joining" /\ joins'[h] = thread
        /\ \A d \in Host : d # h => host'[d] = host[d] /\ joins'[d] = joins[d]
    BY <1>a, <2>1 DEF TInv, HostsOK
  <2>3. h \in Controller /\ Up(TRUE) /\ ~running
    BY <2>1 DEF AInv, Lives
  <2>4. Up(TRUE)'
    BY <2>1, <2>3 DEF Up
  <2>5. (\A d \in Host : host[d] # "idle" =>
            /\ d \in Controller
            /\ Up(TRUE)
            /\ host[d] = "joining" => joins[d] = thread)'
    BY <2>1, <2>2, <2>3, <2>4 DEF AInv, Lives
  <2>6. ~running' /\ ~(\A d \in Host : host'[d] = "idle")
    BY <2>1, <2>2, <2>3
  <2>7. /\ (\A s \in Start : s # fds => Gone(s) /\ ~kernel[s].open)'
        /\ (\A s \in Start : watcher[s] = "select" => rfds[s] = s)'
        /\ (mu # 0 => mu \in Start /\ watcher[mu] = "reloading")'
    BY <2>1 DEF AInv, Lives, Gone
  <2> QED BY <2>5, <2>6, <2>7 DEF Lives
<1>5. ASSUME NEW h \in Host, StopClose(h) PROVE Lives'
  <2>1. /\ host[h] = "joining" /\ watcher[joins[h]] = "exited"
        /\ kernel' = IF fds = 0 THEN kernel ELSE [kernel EXCEPT ![fds] = Closed]
        /\ fds' = 0
        /\ host' = [host EXCEPT ![h] = "idle"]
        /\ UNCHANGED <<mu, running, thread, joins, watcher, rfds>>
    BY <1>5 DEF StopClose, watcherVars
  <2>2. h \in Controller /\ Up(TRUE) /\ joins[h] = thread /\ ~running
    BY <2>1 DEF AInv, Lives
  <2>3. \A d \in Host : host'[d] = "idle"
    <3>1. \A d \in Host : d # h => host[d] = "idle"
      BY <2>2 DEF AInv, Lives
    <3> QED BY <1>a, <2>1, <3>1 DEF TInv, HostsOK
  <2>4. fds \in Start /\ watcher[fds] = "exited"
    BY <2>1, <2>2 DEF Up
  <2>5. /\ kernel'[fds] = Closed
        /\ \A s \in Start : s # fds => kernel'[s] = kernel[s]
    BY <1>a, <1>b, <2>1, <2>4 DEF TInv, KernelOK
  <2>6. \A s \in Start : Gone(s)' /\ ~kernel'[s].open
    <3>1. SUFFICES ASSUME NEW s \in Start PROVE Gone(s)' /\ ~kernel'[s].open
      OBVIOUS
    <3>2. CASE s = fds
      BY <2>1, <2>4, <2>5, <3>2, NewInstance DEF Gone
    <3>3. CASE s # fds
      BY <2>1, <2>5, <3>3 DEF AInv, Lives, Gone
    <3> QED BY <3>2, <3>3
  <2>7. (\A s \in Start : watcher[s] = "select" => rfds[s] = s)'
    BY <2>1 DEF AInv, Lives
  <2>8. (mu # 0 => mu \in Start /\ watcher[mu] = "reloading")'
    BY <2>1 DEF AInv, Lives
  <2>9. ~running' /\ fds' = 0
    BY <2>1, <2>2
  <2> QED BY <2>3, <2>6, <2>7, <2>8, <2>9 DEF Lives
<1>6. ASSUME NEW h \in Host, NEW f \in File, xy_watch_add(h, f) \/ xy_watch_remove(h, f) PROVE Lives'
  <2>1. UNCHANGED <<mu, running, fds, thread, host, joins, watcher, rfds>>
    BY <1>6 DEF xy_watch_add, xy_watch_remove, hostVars, watcherVars
  <2>2. \A g \in Start : Calm(kernel[g], kernel'[g])
    BY <1>6, <1>a, AddStep, RemoveStep
  <2> QED BY <2>1, <2>2, CalmStep
<1>7. ASSUME NEW f \in File, Update(f) \/ Replace(f) PROVE Lives'
  <2>1. UNCHANGED <<mu, running, fds, thread, host, joins, watcher, rfds>>
    BY <1>7 DEF Update, Replace, globals, hostVars, watcherVars
  <2>2. \A g \in Start : Calm(kernel[g], kernel'[g])
    BY <1>7, <1>a, UpdateStep DEF KernelStep, Follows
  <2> QED BY <2>1, <2>2, CalmStep
<1>8. ASSUME NEW g \in Start, WatcherStep(g) PROVE Lives'
  <2>a. \A s \in Start : Calm(kernel[s], kernel[s])
    BY DEF Calm
  <2>b. \A x : [watcher EXCEPT ![g] = x][g] = x
    BY <1>a DEF TInv, WatcherOK
  <2>c. \A x : \A s \in Start : s # g => [watcher EXCEPT ![g] = x][s] = watcher[s]
    BY <1>a DEF TInv, WatcherOK
  <2>d. ASSUME NEW x, watcher' = [watcher EXCEPT ![g] = x], watcher[g] # "reloading", mu' = mu
        PROVE  mu' # 0 => mu' \in Start /\ watcher'[mu'] = "reloading"
    BY <2>c, <2>d DEF AInv, Lives
  <2>1. CASE Select(g)
    <3>1. /\ watcher[g] = "top" /\ rfds' = [rfds EXCEPT ![g] = fds]
          /\ watcher' = [watcher EXCEPT ![g] = IF fds = 0 THEN "exited" ELSE "select"]
          /\ UNCHANGED <<mu, running, fds, thread, host, joins, kernel>>
      BY <2>1 DEF Select, globals, hostVars
    <3>2. ~Gone(g)
      BY <3>1 DEF Gone
    <3>3. g = fds /\ fds # 0
      BY <1>f, <3>2
    <3>4. watcher' = [watcher EXCEPT ![g] = "select"]
      BY <3>1, <3>3
    <3>5. rfds'[g] = g /\ \A s \in Start : s # g => rfds'[s] = rfds[s]
      BY <1>a, <3>1, <3>3 DEF TInv, WatcherOK
    <3> QED BY <2>a, <2>d, <3>1, <3>2, <3>4, <3>5, ThreadStep
  <2>2. CASE Woken(g)
    <3>1. /\ watcher[g] = "select" /\ kernel[rfds[g]].woken
          /\ watcher' = [watcher EXCEPT ![g] = IF rfds[g] = fds THEN "exited" ELSE "top"]
          /\ UNCHANGED <<mu, running, fds, thread, host, joins, rfds, kernel>>
      BY <2>2 DEF Woken, globals, hostVars
    <3>2. g = fds /\ fds # 0 /\ rfds[g] = g
      BY <1>f, <3>1 DEF Gone, AInv, Lives
    <3>3. ~running
      BY <3>1, <3>2 DEF AInv, Lives, Up
    <3>4. watcher' = [watcher EXCEPT ![g] = "exited"]
      BY <3>1, <3>2
    <3>5. watcher'[g] = "exited" /\ \A s \in Start : s # g => watcher'[s] = watcher[s]
      BY <2>b, <2>c, <3>4
    <3>6. (\A s \in Start : s # fds => Gone(s) /\ ~kernel[s].open)'
      BY <3>1, <3>2, <3>5 DEF AInv, Lives, Gone
    <3>7. (\A s \in Start : watcher[s] = "select" => rfds[s] = s)'
      BY <3>1, <3>5 DEF AInv, Lives
    <3>8. (mu # 0 => mu \in Start /\ watcher[mu] = "reloading")'
      BY <2>d, <3>1, <3>4
    <3>9. ~running' /\ ((\A h \in Host : host[h] = "idle") => fds = 0)'
      BY <3>1, <3>3 DEF AInv, Lives
    <3>10. (\A h \in Host : host[h] # "idle" =>
              /\ h \in Controller
              /\ Up(TRUE)
              /\ host[h] = "joining" => joins[h] = thread)'
      BY <3>1 DEF AInv, Lives, Up
    <3> QED BY <3>6, <3>7, <3>8, <3>9, <3>10 DEF Lives
  <2>3. CASE Read(g)
    <3>1. /\ watcher[g] = "select"
          /\ UNCHANGED <<mu, running, fds, thread, host, joins, rfds>>
      BY <2>3 DEF Read, globals, hostVars
    <3>2. ~Gone(g)
      BY <3>1 DEF Gone
    <3>3. \A s \in Start : Calm(kernel[s], kernel'[s])
      BY <1>a, <2>3, ReadStep DEF KernelStep, Follows
    <3>4. PICK x \in {"events", "top"} : watcher' = [watcher EXCEPT ![g] = x]
      BY <2>3 DEF Read
    <3> QED BY <2>d, <3>1, <3>2, <3>3, <3>4, ThreadStep
  <2>4. CASE Skip(g)
    <3>1. UNCHANGED <<mu, running, fds, thread, host, joins, watcher, rfds, kernel>>
      BY <2>4 DEF Skip, globals, hostVars
    <3> QED BY <2>a, <3>1, CalmStep
  <2>5. CASE Lookup(g)
    <3>1. /\ watcher[g] = "events" /\ watcher' = [watcher EXCEPT ![g] = "reload"]
          /\ UNCHANGED <<mu, running, fds, thread, host, joins, rfds>>
      BY <2>5 DEF Lookup, hostVars
    <3>2. ~Gone(g)
      BY <3>1 DEF Gone
    <3>3. kernel' = kernel
      <4>1. evbuf[g] \in Seq(Event) /\ evbuf[g] # <<>>
        BY <1>a, <2>5 DEF Lookup, TInv, WatcherOK
      <4>2. Head(evbuf[g]) \in Event
        BY <4>1
      <4> QED BY <2>5, <4>2 DEF Lookup, Event
    <3>4. mu' # 0 => mu' \in Start /\ watcher'[mu'] = "reloading"
      BY <2>d, <3>1
    <3>5. \A s \in Start : Calm(kernel[s], kernel'[s])
      BY <2>a, <3>3
    <3>6. \A s \in Start : s # g => rfds'[s] = rfds[s]
      BY <3>1
    <3>7. PICK x : x = "reload"
      OBVIOUS
    <3>8. /\ watcher' = [watcher EXCEPT ![g] = x]
          /\ x \notin {"none", "exited"} /\ x # "select"
          /\ UNCHANGED <<running, fds, thread, host, joins>>
      BY <3>1, <3>7
    <3> QED BY <3>2, <3>4, <3>5, <3>6, <3>8, ThreadStep
  <2>6. CASE ReloadBegin(g)
    <3>1. /\ watcher[g] = "reload" /\ watcher' = [watcher EXCEPT ![g] = "reloading"] /\ mu' = g
          /\ UNCHANGED <<running, fds, thread, host, joins, rfds, kernel>>
      BY <2>6 DEF ReloadBegin, hostVars
    <3>2. ~Gone(g)
      BY <3>1 DEF Gone
    <3>3. watcher'[mu'] = "reloading"
      BY <2>b, <3>1
    <3> QED BY <2>a, <3>1, <3>2, <3>3, ThreadStep
  <2>7. CASE ReloadEnd(g)
    <3>1. /\ watcher[g] = "reloading" /\ watcher' = [watcher EXCEPT ![g] = "events"] /\ mu' = 0
          /\ UNCHANGED <<running, fds, thread, host, joins, rfds, kernel>>
      BY <2>7 DEF ReloadEnd, hostVars
    <3>2. ~Gone(g)
      BY <3>1 DEF Gone
    <3> QED BY <2>a, <3>1, <3>2, ThreadStep
  <2>8. CASE Again(g)
    <3>1. /\ watcher[g] = "events" /\ watcher' = [watcher EXCEPT ![g] = "top"]
          /\ UNCHANGED <<mu, running, fds, thread, host, joins, rfds, kernel>>
      BY <2>8 DEF Again, globals, hostVars
    <3>2. ~Gone(g)
      BY <3>1 DEF Gone
    <3>3. mu' # 0 => mu' \in Start /\ watcher'[mu'] = "reloading"
      BY <2>d, <3>1
    <3>4. \A s \in Start : Calm(kernel[s], kernel'[s])
      BY <2>a, <3>1
    <3>5. \A s \in Start : s # g => rfds'[s] = rfds[s]
      BY <3>1
    <3>6. PICK x : x = "top"
      OBVIOUS
    <3>7. /\ watcher' = [watcher EXCEPT ![g] = x]
          /\ x \notin {"none", "exited"} /\ x # "select"
          /\ UNCHANGED <<running, fds, thread, host, joins>>
      BY <3>1, <3>6
    <3> QED BY <3>2, <3>3, <3>4, <3>5, <3>7, ThreadStep
  <2> QED BY <1>8, <2>1, <2>2, <2>3, <2>4, <2>5, <2>6, <2>7, <2>8 DEF WatcherStep
<1>9. CASE UNCHANGED vars
  <2>1. UNCHANGED <<mu, running, fds, thread, host, joins, watcher, rfds, kernel>>
    BY <1>9 DEF vars, globals, hostVars, watcherVars
  <2>2. \A s \in Start : Calm(kernel[s], kernel'[s])
    BY <2>1 DEF Calm
  <2> QED BY <2>1, <2>2, CalmStep
<1> QED BY <1>1, <1>2, <1>3, <1>4, <1>5, <1>6, <1>7, <1>8, <1>9 DEF Next

\* If at most one thread starts and stops the watcher, then a watcher that is said to
\* run has its thread and its open descriptors, and one that is said not to run has
\* left none, nor the lock, once its stop has returned.  Whatever the other threads do
\* to the table meanwhile makes no difference; the run race shows that the hypothesis
\* is needed.
THEOREM RunningCorrect ==
  ASSUME \A c, d \in Controller : c = d
  PROVE  Spec => []RunningIsAlive
<1>1. Init => AInv
  <2> SUFFICES ASSUME Init PROVE AInv
    OBVIOUS
  <2>1. TInv
    BY TInvInit
  <2>2. Lives
    <3>1. /\ mu = 0 /\ running = FALSE /\ fds = 0
          /\ \A h \in Host : host[h] = "idle"
          /\ \A g \in Start : watcher[g] = "none" /\ kernel[g] = Closed
      BY DEF Init
    <3> QED BY <3>1, NewInstance DEF Lives, Gone
  <2> QED BY <2>1, <2>2 DEF AInv
<1>2. AInv /\ [Next]_vars => AInv'
  BY TInvStep, LivesStep DEF AInv
<1>3. AInv => RunningIsAlive
  <2> SUFFICES ASSUME AInv PROVE RunningIsAlive
    OBVIOUS
  <2>1. ASSUME running
        PROVE  fds = thread /\ kernel[fds].open /\ ~kernel[fds].woken /\ watcher[thread] # "exited"
    BY <2>1 DEF AInv, Lives, Up, Gone
  <2>2. ASSUME ~running, \A h \in Host : host[h] = "idle"
        PROVE  /\ mu = 0
               /\ \A g \in Start : watcher[g] \in {"none", "exited"} /\ ~kernel[g].open
    <3>1. fds = 0
      BY <2>2 DEF AInv, Lives
    <3>2. \A g \in Start : g # fds
      BY <3>1, BoundAssumption DEF Start
    <3> QED BY <3>2 DEF AInv, Lives, Gone
  <2> QED BY <2>1, <2>2 DEF RunningIsAlive
<1> QED BY <1>1, <1>2, <1>3, PTL DEF Spec
===============================================================================
