\* Two modules and a listener that unloads the other one.
CONSTANTS
  r0 = r0
  r1 = r1
  Region = {r0, r1}
  Walk <- TwoRegions
  FirstCap = 2
  MaxEntries = 2
  MaxDepth = 1
  Careful = FALSE
SPECIFICATION Spec
INVARIANTS
  UnloadInvalidates
