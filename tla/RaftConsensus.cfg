CONSTANTS
  s1 = s1  s2 = s2  s3 = s3
  Server = {s1, s2, s3}
  None = None  Nil = Nil
  FOLLOWER = FOLLOWER  CANDIDATE = CANDIDATE  LEADER = LEADER
  Command = {c1}
  Contenders <- S1ThenOthers
  Applying = {}
  Compacting = {}
  LateRejections = FALSE
  MaxIndex = 1
  MaxCrashes = 1
SPECIFICATION MCSpec
INVARIANTS TypeOK ElectionSafety Durable StateMachineSafety LeaderCompleteness MatchIndexSound
PROPERTY CommittedKept
CHECK_DEADLOCK FALSE
