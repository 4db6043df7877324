\* A deny in a parent of a region that has already called the hook.
CONSTANTS
  TreeRoot = r0
  NoNode = NoNode
  r1 = r1
  r2 = r2
  s1 = s1
  s2 = s2
  h1 = h1
  Node = {r0, r1}
  So = {s1}
  Hook = {h1}
  Exports <- OneLib
  DenyTypes = {"module"}
  MaxLoaded = 1
  MaxDenies = 1
SPECIFICATION Spec
INVARIANTS
  DenyHonoured
