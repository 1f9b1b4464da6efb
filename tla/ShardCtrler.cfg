CONSTANTS
    admin = admin
    other = other
    None = None
    Client = {admin, other}
    Server <- Servers
    Op <- Ops
    NShards = 4
    MaxCalls = 3
    MaxFaults = 1
SPECIFICATION MCSpec
INVARIANTS TypeOK JoinEnds
PROPERTIES Linearizable JoinEvenAndMinimal LeaveMovesOrphans
CHECK_DEADLOCK FALSE
