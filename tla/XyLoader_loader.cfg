\* Three libraries in two regions: s1 claims and can be copied, s3 has no ctx.
CONSTANTS
  Addr = {a1, a2, a3}
  NULL = NULL
  a1 = a1
  a2 = a2
  a3 = a3
  So = {s1, s2, s3}
  Region = {r0, r1}
  RootRegion = r0
  NoRegion = NoRegion
  HasCtx = {s1, s2}
  CanCopy = {s1}
  HasClaim = {s1}
  MaxRefs = 2
  MaxDepth = 3
  Gateable = {r0}
SPECIFICATION Spec
SYMMETRY AddrSymmetry
INVARIANTS
  TypeOK
  TablesAgree
  CountsCover
  ChildrenGo
  PositionAlive
