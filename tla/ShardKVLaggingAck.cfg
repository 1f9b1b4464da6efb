CONSTANTS
    c1 = c1
    c2 = c2
    Nil = Nil
    Client = {c1}
    Program <- NoOperations
    Gid = {1, 2}
    Shard = {0, 1, 2, 3}
    Key <- Keys
    Key2Shard <- KeyToShard
    Configs <- JoinJoinMove
    MaxElections = 1
SPECIFICATION Spec
PROPERTY EveryConfiguration
CHECK_DEADLOCK FALSE
ACTION_CONSTRAINT QuietElections
