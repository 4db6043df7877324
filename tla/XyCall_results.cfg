\* Nested dispatches in two threads, with listeners that claim regions.
CONSTANTS
  Thread = {t1, t2}
  r0 = r0
  r1 = r1
  m0 = m0
  m1 = m1
  s1 = s1
  h1 = h1
  h2 = h2
  Region = {r0, r1}
  RegionId <- SameId
  Home = r0
  Mod = {m0, m1}
  ModRegion <- TwoMods
  Subtree <- ParentAndChild
  Library = {s1}
  ModLibrary <- OneLibrary
  CtxRegion <- Latest
  Hook = {h1, h2}
  Valued = {h1}
  Vector <- TreeVector
  Denied <- RootDenies
  Claimable = {r1}
  MaxDepth = 2
  NoHook = NoHook
SPECIFICATION Spec
SYMMETRY Threads
INVARIANTS
  TypeOK
  LastIsPredecessor
  NoDanglingResult
  RunsInOwnRegion
  
