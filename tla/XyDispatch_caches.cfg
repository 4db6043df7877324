\* Two libraries in three regions, one hook, up to two denies of either kind.
CONSTANTS
  TreeRoot = r0
  NoNode = NoNode
  r1 = r1
  r2 = r2
  s1 = s1
  s2 = s2
  h1 = h1
  Node = {r0, r1, r2}
  So = {s1, s2}
  Hook = {h1}
  Exports <- OneHook
  DenyTypes = {"hook", "module"}
  MaxLoaded = 2
  MaxDenies = 2
SPECIFICATION Spec
SYMMETRY EitherWay
INVARIANTS
  TypeOK
  NoDeadModule
  CacheComplete
  SubtreeCurrent
  GateSound
  Prewarmed
