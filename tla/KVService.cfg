CONSTANTS
    c1 = c1
    c2 = c2
    c3 = c3
    Client = {c1, c2}
    Key <- OneKey
    Nil = Nil
    Server <- Two
    Program <- AppendGetAppend
    MaxTerm = 2
    MaxCalls <- TwoAndOne
    TooBig = {1}
    MaxRestarts = 1
SPECIFICATION MCSpec
INVARIANTS TypeOK ReplicasAgree NeverBlocked
PROPERTY Linearizable
CHECK_DEADLOCK FALSE
