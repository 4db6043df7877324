\* One thread starts and stops the watcher, two add and remove files.
CONSTANTS
  Host = {c1, c2}
  Controller = {c1}
  File = {f1, f2, f3}
  NoFile = NoFile
  MaxWds = 3
  XY_WATCH_MAX = 2
  MaxStarts = 2
  MaxUpdates = 2
SPECIFICATION Spec
INVARIANTS
  TypeOK
  RunningIsAlive
  TableMatchesKernel
PROPERTIES
  UpdateReloaded
  StopReturns
CHECK_DEADLOCK FALSE
