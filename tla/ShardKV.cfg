CONSTANTS
    c1 = c1
    c2 = c2
    Nil = Nil
    Client = {c1, c2}
    Program <- AppendAndGet
    Gid = {1, 2}
    Shard = {0, 1, 2, 3}
    Key <- Keys
    Key2Shard <- KeyToShard
    Configs <- JoinJoinMove
    MaxElections = 1
SPECIFICATION Spec
INVARIANTS TypeOK OneHolder ShardsMoveTogether
PROPERTIES Linearizable ConfiguredWhenServing CatchUp
CHECK_DEADLOCK FALSE
ACTION_CONSTRAINT QuietElections
