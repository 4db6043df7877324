\* Two regions, four loads, calls nested two deep, a vector that grows from two slots.
CONSTANTS
  r0 = r0
  r1 = r1
  Region = {r0, r1}
  Walk <- TwoRegions
  FirstCap = 2
  MaxEntries = 4
  MaxDepth = 2
  Careful = TRUE
SPECIFICATION Spec
INVARIANTS
  TypeOK
  LoopReadsAlive
  AllRanOnce
