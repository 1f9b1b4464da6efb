SPECIFICATION Spec
CONSTANTS
  Worker = {w1, w2, w3}
  nMap = 2
  nReduce = 2
  MAP = MAP
  REDUCE = REDUCE
  DONE = DONE
  NoTask = NoTask
  MaxSlow = 2
  MaxCrashes = 1
SYMMETRY Symmetry
CHECK_DEADLOCK FALSE
INVARIANT PhasesComplete
