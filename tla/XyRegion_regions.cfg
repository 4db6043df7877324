\* Every order of claiming prefixes of up to two bits by claims and loads, with handlers
\* and gates, callbacks and dispatches two deep, before and after a shutdown.
CONSTANTS
  W = 2
  Thread = {t1}
  Main = t1
  Fns = {TRUE, FALSE}
  NoRegion = NoRegion
  Freed = Freed
  Tidy = TRUE
  MaxRegions = 3
  MaxFrames = 2
  MaxShutdowns = 1
SPECIFICATION Spec
INVARIANTS
  TypeOK
  ParentsNarrower
  KidsMatchParents
  CurrentSynced
  AncestorChainComplete
  SearchFindsDeepest
PROPERTIES
  ImplementsTree
