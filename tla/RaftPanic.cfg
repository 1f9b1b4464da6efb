CONSTANTS
  s1 = s1  s2 = s2  s3 = s3
  Server = {s1, s2, s3}
  None = None  Nil = Nil
  FOLLOWER = FOLLOWER  CANDIDATE = CANDIDATE  LEADER = LEADER
  Command = {c1}
  Contenders <- S1ThenS2
  Applying = {s2}
  Compacting = {s2}
  LateRejections = FALSE
  MaxIndex = 2
  MaxCrashes = 0
SPECIFICATION MCSpec
INVARIANT NoPanic
CHECK_DEADLOCK FALSE
CONSTRAINT S1CutOff
