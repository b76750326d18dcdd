CONSTANTS
  c1 = c1
  c2 = c2
  c3 = c3
  c4 = c4
  main = main
  other = other
  Calls = {c1, c2, c3, c4}
  Guarded = {c1, c2}
  Loops = {main, other}
  LoopOf <- MCLoopOf
  MaxWorkers = 2
SPECIFICATION FairSpec
INVARIANTS SlotsAreHonest WaitsOnlyForOtherLoops
PROPERTY EveryCallLeaves
CHECK_DEADLOCK FALSE
