CONSTANTS
  s1 = s1  s2 = s2  s3 = s3
  Server = {s1, s2, s3}
  None = None  Nil = Nil
  FOLLOWER = FOLLOWER  CANDIDATE = CANDIDATE  LEADER = LEADER
  Command = {c1}
  Contenders <- S1Only
  Applying = {s1, s2}
  Compacting = {s1}
  LateRejections = FALSE
  MaxIndex = 2
  MaxCrashes = 0
SPECIFICATION MCSpec
INVARIANT AppliedInOrder
CHECK_DEADLOCK FALSE
CONSTRAINT S2Behind
