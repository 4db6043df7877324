\* Two hook names and one that is too long, four adapters, two of them of one name, and
\* two loads of a side module.
CONSTANTS
  tick = tick
  draw = draw
  long = long
  listener = listener
  caller = caller
  definer = definer
  byhand = byhand
  Name = {tick, draw, long}
  Kept <- CutNames
  Adapter = {listener, caller, definer, byhand}
  AdName <- Names
  AdCall <- Calls
  FirstId <- Ids
  Listening = {listener, byhand, definer}
  Resultless = {byhand}
  XY_WASM_MAX_HOOKS = 2
  MaxListeners = 2
  MaxDepth = 2
  Module = {m1}
  Load = {l1, l2}
  NoLoad = NoLoad
SPECIFICATION Spec
INVARIANTS
  TypeOK
  RunsOwnHook
  RegisteredIsFound
  ChainIntact
  OneInstance
  UninstalledOnce
PROPERTIES
  EveryLoadSettles
