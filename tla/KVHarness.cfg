SPECIFICATION MCSpec
CONSTANTS
  Req = {1, 2}
  Reliable = FALSE
  NoEnd = NoEnd
  Peer = {0, 1}
  Clerk = clerk
  MaxStarts = 2
  MaxPartitions = 1
INVARIANTS TypeOK AckedIsKept NoGhosts
PROPERTIES CallReturns HandlersEnd
CHECK_DEADLOCK FALSE
