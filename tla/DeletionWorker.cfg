SPECIFICATION FairSpec
CONSTANTS
    Ops = {o1}
    Workers = {w1, w2}
    Tokens = {u1, u2, u3}
    None = None
    NumSteps = 3
    BatchLimit = 2
    MaxFaults = 2
INVARIANTS
    StepsInOrder
    IndInv
    OneWriter
PROPERTIES
    ImplementsContract
    ServesEveryRequest
    StaleBatchHarmless
    CompletedIsFinal
CHECK_DEADLOCK FALSE
