CONSTANTS
    c1 = c1
    c2 = c2
    c3 = c3
    Client = {c1, c2, c3}
    Key <- OneKey
    Nil = Nil
    Server <- Three
    Program <- PutPutPut
    MaxTerm = 3
    MaxCalls <- TwoOneOne
    TooBig = {}
    MaxRestarts = 0
SPECIFICATION Spec
CONSTRAINT LeaderReturns
PROPERTY Linearizable
CHECK_DEADLOCK FALSE
