\* Two threads start and stop the watcher.
CONSTANTS
  Host = {c1, c2}
  Controller = {c1, c2}
  File = {f1}
  NoFile = NoFile
  MaxWds = 3
  XY_WATCH_MAX = 1
  MaxStarts = 2
  MaxUpdates = 0
SPECIFICATION Spec
INVARIANTS
  SafeFromAnyThread
CHECK_DEADLOCK FALSE
