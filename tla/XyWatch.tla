------------------------------- MODULE XyWatch --------------------------------
(***************************************************************************)
(* libxylem-watch: a background thread that reloads a module when its file *)
(* changes.                                                                *)
(*                                                                         *)
(* Host threads call xy_watch_start, _stop, _add and _remove; the watcher  *)
(* thread waits for events of the kernel's inotify queue and for the byte  *)
(* that _stop writes to a pipe.  A section of code under g_mu is one step, *)
(* except the one in which xy_reload runs module code.  Each start opens   *)
(* new descriptors and a new thread, numbered by their start.              *)
(*                                                                         *)
(* The files are different inodes and each has one spelling.  The kernel   *)
(* gives one watch to all names of an inode, the table has one entry per   *)
(* spelling: two names of one file are outside the model.                  *)
(***************************************************************************)
EXTENDS Integers, Sequences, SequencesExt, Functions, FiniteSets

CONSTANTS
  Host,          \* host threads
  Controller,    \* the host threads that start and stop the watcher
  File,          \* module files
  NoFile,        \* no file
  XY_WATCH_MAX,  \* 256 in the code
  MaxStarts,     \* bound: watcher threads created
  MaxWds,        \* bound: watch descriptors of one inotify instance, enough for the table
  MaxUpdates     \* bound: file updates

ASSUME ControllerAssumption == Controller \subseteq Host
ASSUME FileAssumption == NoFile \notin File
ASSUME BoundAssumption ==
  /\ {XY_WATCH_MAX, MaxStarts, MaxWds, MaxUpdates} \subseteq Nat
  /\ XY_WATCH_MAX <= MaxWds

Start == 1 .. MaxStarts

VARIABLES
  mu,        \* g_mu: the start number of the watcher that reloads under it, or 0
  running,   \* g_running
  fds,       \* g_ifd, g_pipe_r and g_pipe_w, or 0 for -1
  thread,    \* g_thread
  entries,   \* g_entries: watch descriptor by file, 0 for -1
  host,      \* per host thread: where it is in xy_watch_stop
  joins,     \* per host thread: the watcher that it waits for
  watcher,   \* per start: where the watcher thread is
  rfds,      \* per start: the descriptors the thread selects on
  evbuf,     \* per start: the events read and not yet handled
  copy,      \* per start: fname_copy
  kernel,    \* per start: the inotify instance and the pipe
  pending,   \* updates of a watched file after which no reload began and no stop ended
  updates    \* number of updates so far

globals == <<mu, running, fds, thread, entries>>
hostVars == <<host, joins>>
watcherVars == <<watcher, rfds, evbuf, copy>>
files == <<pending, updates>>
vars == <<globals, hostVars, watcherVars, kernel, files>>

(***************************************************************************)
(* The kernel's side                                                       *)
(***************************************************************************)

\* Watch descriptors of an instance are not used again.
inotify_init1 == [open |-> TRUE, woken |-> FALSE, next |-> 1, queue |-> <<>>,
                  watch |-> [wd \in {} |-> NoFile]]
Closed == [inotify_init1 EXCEPT !.open = FALSE]

WdsOf(k, f) == {wd \in DOMAIN k.watch : k.watch[wd] = f}
WdOf(k, f) == CHOOSE wd \in WdsOf(k, f) : TRUE

\* A file that is watched already keeps its descriptor.
inotify_add_watch(k, f) ==
  IF WdsOf(k, f) # {} THEN k
  ELSE [k EXCEPT !.next = k.next + 1,
                 !.watch = [wd \in DOMAIN k.watch \cup {k.next} |->
                              IF wd = k.next THEN f ELSE k.watch[wd]]]

inotify_rm_watch(k, wd) == [k EXCEPT !.watch = [d \in DOMAIN k.watch \ {wd} |-> k.watch[d]]]

\* An event equal to the last one in the queue is merged with it.
Queued(k, ev) ==
  IF k.queue # <<>> /\ Last(k.queue) = ev THEN k ELSE [k EXCEPT !.queue = Append(k.queue, ev)]

\* A file is written in place: every open instance that watches it has an event.
Update(f) ==
  LET watching == {g \in Start : kernel[g].open /\ WdsOf(kernel[g], f) # {}}
  IN /\ updates < MaxUpdates
     /\ updates' = updates + 1
     /\ pending' = pending \cup {[start |-> g, wd |-> WdOf(kernel[g], f), file |-> f] : g \in watching}
     /\ kernel' = [g \in Start |->
          IF g \notin watching THEN kernel[g]
          ELSE Queued(kernel[g], [wd |-> WdOf(kernel[g], f), mask |-> "IN_CLOSE_WRITE"])]
     /\ UNCHANGED <<globals, hostVars, watcherVars>>

\* Another file is renamed to its name.  The watch was on the file that is gone:
\* it ends with IN_IGNORED.  IN_MOVED_TO goes to those who watch a directory.
Replace(f) ==
  LET watching == {g \in Start : kernel[g].open /\ WdsOf(kernel[g], f) # {}}
  IN /\ updates < MaxUpdates
     /\ updates' = updates + 1
     /\ kernel' = [g \in Start |->
          IF g \notin watching THEN kernel[g]
          ELSE inotify_rm_watch(Queued(kernel[g], [wd |-> WdOf(kernel[g], f), mask |-> "IN_IGNORED"]),
                                WdOf(kernel[g], f))]
     /\ UNCHANGED <<globals, hostVars, watcherVars, pending>>

XY_WATCH_MASK == {"IN_CLOSE_WRITE", "IN_MOVED_TO"}

(***************************************************************************)
(* Host calls                                                              *)
(***************************************************************************)

Unlocked == mu = 0

\* What entry_rewatch makes of all entries in a new instance: the files in ok
\* exist and are numbered in the order of the table, the others get -1.
Rewatches(ok) == Bijection(1 .. Cardinality(ok), ok)
Rewatched(order) == [inotify_init1 EXCEPT !.next = Len(order) + 1, !.watch = order]
RewatchedWds(order) ==
  [f \in DOMAIN entries |->
     IF WdsOf(Rewatched(order), f) # {} THEN WdOf(Rewatched(order), f) ELSE 0]

xy_watch_start(h) ==
  LET g == thread + 1
  IN /\ h \in Controller
     /\ host[h] = "idle"
     /\ Unlocked
     /\ ~running
     /\ g \in Start
     /\ \E ok \in SUBSET DOMAIN entries : \E order \in Rewatches(ok) :
          /\ kernel' = [kernel EXCEPT ![g] = Rewatched(order)]
          /\ entries' = RewatchedWds(order)
     /\ fds' = g
     /\ thread' = g
     /\ running' = TRUE
     /\ watcher' = [watcher EXCEPT ![g] = "top"]
     /\ UNCHANGED <<mu, hostVars, rfds, evbuf, copy, files>>

\* No thread could be made: the descriptors are closed, the entries keep theirs.
xy_watch_start_fails(h) ==
  /\ h \in Controller
  /\ host[h] = "idle"
  /\ Unlocked
  /\ ~running
  /\ \E ok \in SUBSET DOMAIN entries : \E order \in Rewatches(ok) :
       entries' = RewatchedWds(order)
  /\ fds' = 0
  /\ UNCHANGED <<mu, running, thread, hostVars, watcherVars, kernel, files>>

\* Mutant: the flag is not cleared.
xy_watch_stop_keeps_flag(h) ==
  /\ h \in Controller
  /\ host[h] = "idle"
  /\ Unlocked
  /\ running
  /\ kernel' = [kernel EXCEPT ![fds].woken = TRUE]
  /\ host' = [host EXCEPT ![h] = "stopping"]
  /\ UNCHANGED <<mu, running, fds, thread, entries, joins, watcherVars, files>>

\* Mutant: the thread is not woken.
xy_watch_stop_silent(h) ==
  /\ h \in Controller
  /\ host[h] = "idle"
  /\ Unlocked
  /\ running
  /\ running' = FALSE
  /\ host' = [host EXCEPT ![h] = "stopping"]
  /\ UNCHANGED <<mu, fds, thread, entries, joins, watcherVars, kernel, files>>

\* First section of xy_watch_stop: the byte is written and the flag cleared.
xy_watch_stop(h) ==
  /\ h \in Controller
  /\ host[h] = "idle"
  /\ Unlocked
  /\ running
  /\ kernel' = [kernel EXCEPT ![fds].woken = TRUE]
  /\ running' = FALSE
  /\ host' = [host EXCEPT ![h] = "stopping"]
  /\ UNCHANGED <<mu, fds, thread, entries, joins, watcherVars, files>>

\* pthread_join(g_thread): the variable is read outside the lock.
StopJoin(h) ==
  /\ host[h] = "stopping"
  /\ host' = [host EXCEPT ![h] = "joining"]
  /\ joins' = [joins EXCEPT ![h] = thread]
  /\ UNCHANGED <<globals, watcherVars, kernel, files>>

\* The thread is gone: last section of xy_watch_stop.
StopClose(h) ==
  /\ host[h] = "joining"
  /\ watcher[joins[h]] = "exited"
  /\ Unlocked
  /\ kernel' = IF fds = 0 THEN kernel ELSE [kernel EXCEPT ![fds] = Closed]
  /\ pending' = {p \in pending : p.start # fds}
  /\ fds' = 0
  /\ entries' = [f \in DOMAIN entries |-> 0]
  /\ host' = [host EXCEPT ![h] = "idle"]
  /\ UNCHANGED <<mu, running, thread, joins, watcherVars, updates>>

\* Entry f, old or new, gets the descriptor of its file, or -1 if it does not
\* exist; without an instance an old one stays as it is and a new one has -1.
entry_rewatch(f, exists) ==
  LET k  == kernel[fds]
      wd == IF fds # 0 THEN IF exists THEN WdOf(inotify_add_watch(k, f), f) ELSE 0
            ELSE IF f \in DOMAIN entries THEN entries[f] ELSE 0
  IN /\ entries' = [g \in DOMAIN entries \cup {f} |-> IF g = f THEN wd ELSE entries[g]]
     /\ IF fds # 0 /\ exists
        THEN k.next <= MaxWds /\ kernel' = [kernel EXCEPT ![fds] = inotify_add_watch(k, f)]
        ELSE UNCHANGED kernel

\* Mutant: the size of the table is not tested.
xy_watch_add_unlimited(h, f) ==
  /\ host[h] = "idle"
  /\ Unlocked
  /\ f \notin DOMAIN entries
  /\ \E exists \in BOOLEAN : entry_rewatch(f, exists)
  /\ UNCHANGED <<mu, running, fds, thread, hostVars, watcherVars, files>>

xy_watch_add(h, f) ==
  /\ host[h] = "idle"
  /\ Unlocked
  /\ f \notin DOMAIN entries
  /\ Cardinality(DOMAIN entries) < XY_WATCH_MAX
  /\ \E exists \in BOOLEAN : entry_rewatch(f, exists)
  /\ UNCHANGED <<mu, running, fds, thread, hostVars, watcherVars, files>>

\* Mutant: the kernel goes on watching the file.
xy_watch_remove_entry_only(h, f) ==
  /\ host[h] = "idle"
  /\ Unlocked
  /\ f \in DOMAIN entries
  /\ entries' = [g \in DOMAIN entries \ {f} |-> entries[g]]
  /\ UNCHANGED <<mu, running, fds, thread, hostVars, watcherVars, kernel, files>>

xy_watch_remove(h, f) ==
  /\ host[h] = "idle"
  /\ Unlocked
  /\ f \in DOMAIN entries
  /\ kernel' = IF fds # 0 /\ entries[f] # 0
               THEN [kernel EXCEPT ![fds] = inotify_rm_watch(kernel[fds], entries[f])] ELSE kernel
  /\ entries' = [g \in DOMAIN entries \ {f} |-> entries[g]]
  /\ UNCHANGED <<mu, running, fds, thread, hostVars, watcherVars, files>>

(***************************************************************************)
(* The watcher thread                                                      *)
(***************************************************************************)

\* The top of the loop reads the descriptors, which are not protected by g_mu;
\* select fails if they are gone.
Select(g) ==
  /\ watcher[g] = "top"
  /\ rfds' = [rfds EXCEPT ![g] = fds]
  /\ watcher' = [watcher EXCEPT ![g] = IF fds = 0 THEN "exited" ELSE "select"]
  /\ UNCHANGED <<globals, hostVars, evbuf, copy, kernel, files>>

\* The stop byte is seen first; the bit tested is that of the descriptors of now.
Woken(g) ==
  /\ watcher[g] = "select"
  /\ kernel[rfds[g]].woken
  /\ watcher' = [watcher EXCEPT ![g] = IF rfds[g] = fds THEN "exited" ELSE "top"]
  /\ UNCHANGED <<globals, hostVars, rfds, evbuf, copy, kernel, files>>

Read(g) ==
  /\ watcher[g] = "select"
  /\ ~kernel[rfds[g]].woken
  /\ kernel[rfds[g]].queue # <<>>
  /\ IF rfds[g] = fds
     THEN /\ evbuf' = [evbuf EXCEPT ![g] = kernel[fds].queue]
          /\ kernel' = [kernel EXCEPT ![fds].queue = <<>>]
          /\ watcher' = [watcher EXCEPT ![g] = "events"]
     ELSE /\ watcher' = [watcher EXCEPT ![g] = "top"]
          /\ UNCHANGED <<evbuf, kernel>>
  /\ UNCHANGED <<globals, hostVars, rfds, copy, files>>

\* The next event of the buffer is skipped: not in the mask, or no entry has the
\* descriptor any more.
Entry(ev) == {f \in DOMAIN entries : entries[f] = ev.wd}
Relevant(ev) == ev.mask \in XY_WATCH_MASK /\ Entry(ev) # {}

\* Mutant: the rest of the buffer is lost with it.
Skip_rest(g) ==
  /\ watcher[g] = "events"
  /\ evbuf[g] # <<>>
  /\ Unlocked
  /\ ~Relevant(Head(evbuf[g]))
  /\ evbuf' = [evbuf EXCEPT ![g] = <<>>]
  /\ UNCHANGED <<globals, hostVars, watcher, rfds, copy, kernel, files>>

Skip(g) ==
  /\ watcher[g] = "events"
  /\ evbuf[g] # <<>>
  /\ Unlocked
  /\ ~Relevant(Head(evbuf[g]))
  /\ evbuf' = [evbuf EXCEPT ![g] = Tail(@)]
  /\ UNCHANGED <<globals, hostVars, watcher, rfds, copy, kernel, files>>

\* First section under g_mu: the file name is copied.  The file would be watched
\* again after IN_MOVED_TO, which the kernel does not send for a file.
Lookup(g) ==
  /\ watcher[g] = "events"
  /\ evbuf[g] # <<>>
  /\ Unlocked
  /\ LET ev == Head(evbuf[g])
     IN /\ Relevant(ev)
        /\ \E f \in Entry(ev) :
             /\ copy' = [copy EXCEPT ![g] = f]
             /\ IF ev.mask = "IN_MOVED_TO" THEN \E exists \in BOOLEAN : entry_rewatch(f, exists)
                ELSE UNCHANGED <<kernel, entries>>
  /\ evbuf' = [evbuf EXCEPT ![g] = Tail(@)]
  /\ watcher' = [watcher EXCEPT ![g] = "reload"]
  /\ UNCHANGED <<mu, running, fds, thread, hostVars, rfds, files>>

\* Second section: xy_reload, which runs module code under g_mu.
ReloadBegin(g) ==
  /\ watcher[g] = "reload"
  /\ Unlocked
  /\ mu' = g
  /\ pending' = {p \in pending : p.file # copy[g]}
  /\ watcher' = [watcher EXCEPT ![g] = "reloading"]
  /\ UNCHANGED <<running, fds, thread, entries, hostVars, rfds, evbuf, copy, kernel, updates>>

ReloadEnd(g) ==
  /\ watcher[g] = "reloading"
  /\ mu' = 0
  /\ copy' = [copy EXCEPT ![g] = NoFile]
  /\ watcher' = [watcher EXCEPT ![g] = "events"]
  /\ UNCHANGED <<running, fds, thread, entries, hostVars, rfds, evbuf, kernel, files>>

\* All events of the buffer are handled.
Again(g) ==
  /\ watcher[g] = "events"
  /\ evbuf[g] = <<>>
  /\ watcher' = [watcher EXCEPT ![g] = "top"]
  /\ UNCHANGED <<globals, hostVars, rfds, evbuf, copy, kernel, files>>

Init ==
  /\ mu = 0 /\ running = FALSE /\ fds = 0 /\ thread = 0
  /\ entries = [f \in {} |-> 0]
  /\ host = [h \in Host |-> "idle"]
  /\ joins = [h \in Host |-> 0]
  /\ watcher = [g \in Start |-> "none"]
  /\ rfds = [g \in Start |-> 0]
  /\ evbuf = [g \in Start |-> <<>>]
  /\ copy = [g \in Start |-> NoFile]
  /\ kernel = [g \in Start |-> Closed]
  /\ pending = {}
  /\ updates = 0

WatcherStep(g) ==
  \/ Select(g)
  \/ Woken(g)
  \/ Read(g)
  \/ Skip(g)
  \/ Lookup(g)
  \/ ReloadBegin(g)
  \/ ReloadEnd(g)
  \/ Again(g)

Next ==
  \/ \E h \in Host :
       \/ xy_watch_start(h)
       \/ xy_watch_start_fails(h)
       \/ xy_watch_stop(h)
       \/ StopJoin(h)
       \/ StopClose(h)
       \/ \E f \in File : xy_watch_add(h, f)
       \/ \E f \in File : xy_watch_remove(h, f)
  \/ \E g \in Start : WatcherStep(g)
  \/ \E f \in File : Update(f)
  \/ \E f \in File : Replace(f)

\* The watcher thread runs, a reload returns, and a host thread inside
\* xy_watch_stop goes on; nobody has to call anything.
Fairness ==
  /\ \A g \in Start : WF_vars(WatcherStep(g))
  /\ \A h \in Host : WF_vars(StopJoin(h)) /\ WF_vars(StopClose(h))

Spec == Init /\ [][Next]_vars /\ Fairness

(***************************************************************************)
(* Properties                                                              *)
(***************************************************************************)

\* Every variable has its type; the table keeps within XY_WATCH_MAX.
TypeOK ==
  /\ mu \in 0 .. MaxStarts
  /\ running \in BOOLEAN
  /\ fds \in 0 .. MaxStarts
  /\ thread \in 0 .. MaxStarts
  /\ entries \in [DOMAIN entries -> 0 .. MaxWds]
  /\ DOMAIN entries \subseteq File
  /\ Cardinality(DOMAIN entries) <= XY_WATCH_MAX
  /\ host \in [Host -> {"idle", "stopping", "joining"}]
  /\ joins \in [Host -> 0 .. MaxStarts]
  /\ watcher \in [Start -> {"none", "top", "select", "events", "reload", "reloading", "exited"}]
  /\ rfds \in [Start -> 0 .. MaxStarts]
  /\ copy \in [Start -> File \cup {NoFile}]

\* While the watcher is said to run, the descriptors it waits on are open, its
\* thread exists, and nobody has told it to stop; and when it is said not to run
\* and nobody is stopping it, no thread, no descriptor and no lock is left.
RunningIsAlive ==
  IF running
  THEN /\ fds = thread
       /\ kernel[fds].open
       /\ ~kernel[fds].woken
       /\ watcher[thread] # "exited"
  ELSE (\A h \in Host : host[h] = "idle") =>
         /\ mu = 0
         /\ \A g \in Start : watcher[g] \in {"none", "exited"} /\ ~kernel[g].open

\* While an instance is open, a descriptor in the table never stands for another
\* file there, and the instance watches nothing that the table does not know of:
\* an event that is handled reloads the file that changed, and a removed file
\* is not reloaded for an event that comes later.
TableMatchesKernel ==
  fds # 0 =>
    /\ \A wd \in DOMAIN kernel[fds].watch :
         /\ kernel[fds].watch[wd] \in DOMAIN entries
         /\ entries[kernel[fds].watch[wd]] = wd
    /\ \A f, g \in DOMAIN entries : entries[f] = entries[g] /\ entries[f] # 0 => f = g

\* An update of a watched file is followed by a reload of it that began later,
\* unless the watcher is stopped or the file is taken out of the watch set.
Awaited(f) ==
  \E p \in pending :
    p.file = f /\ running /\ fds = p.start /\ f \in DOMAIN entries /\ entries[f] = p.wd
UpdateReloaded == \A f \in File : Awaited(f) ~> ~Awaited(f)

\* xy_watch_stop returns, whatever the watcher is busy with.
StopReturns == \A h \in Host : host[h] # "idle" ~> host[h] = "idle"

(***************************************************************************)
(* What the header says                                                    *)
(***************************************************************************)

\* "Thread safety: all functions are safe to call from any thread": a running
\* watcher has its descriptors, also if two threads start and stop it.
SafeFromAnyThread == running => fds # 0 /\ kernel[fds].open
===============================================================================
