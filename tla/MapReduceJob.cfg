SPECIFICATION FairSpec
CONSTANTS
  Worker = {w1, w2, w3}
  nMap = 2
  nReduce = 2
  MAP = MAP
  REDUCE = REDUCE
  DONE = DONE
  NoTask = NoTask
  MaxSlow = 2
  MaxCrashes = 1
CHECK_DEADLOCK FALSE
INVARIANTS TypeOK OnePlace RenameSucceeds
PROPERTY JobEnds
CONSTRAINT EarlyThenQuiet
