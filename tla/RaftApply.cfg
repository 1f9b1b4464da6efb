CONSTANTS
  s1 = s1  s2 = s2  s3 = s3
  Server = {s1, s2}
  None = None  Nil = Nil
  FOLLOWER = FOLLOWER  CANDIDATE = CANDIDATE  LEADER = LEADER
  Command = {c1}
  Contenders <- S1Twice
  Applying = {s1, s2}
  Compacting = {s1, s2}
  LateRejections = FALSE
  MaxIndex = 2
  MaxCrashes = 0
SPECIFICATION MCFairSpec
PROPERTY AppliedEventually
CHECK_DEADLOCK FALSE
CONSTRAINT OneLeader
