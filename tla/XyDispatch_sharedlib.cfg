\* One library in two regions, unloaded from one of them.
CONSTANTS
  TreeRoot = r0
  NoNode = NoNode
  r1 = r1
  r2 = r2
  s1 = s1
  s2 = s2
  h1 = h1
  Node = {r0, r1}
  So = {s1}
  Hook = {h1}
  Exports <- OneLib
  DenyTypes = {}
  MaxLoaded = 2
  MaxDenies = 0
SPECIFICATION Spec
INVARIANTS
  ListenersCalled
