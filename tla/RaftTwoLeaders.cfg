CONSTANTS
  s1 = s1  s2 = s2  s3 = s3
  Server = {s1, s2, s3}
  None = None  Nil = Nil
  FOLLOWER = FOLLOWER  CANDIDATE = CANDIDATE  LEADER = LEADER
  Command = {c1}
  Contenders <- AnyoneTwice
  Applying = {}
  Compacting = {}
  LateRejections = TRUE
  MaxIndex = 0
  MaxCrashes = 0
SPECIFICATION Spec
INVARIANT OneLeaderPerTerm
CHECK_DEADLOCK FALSE
SYMMETRY Symmetry
