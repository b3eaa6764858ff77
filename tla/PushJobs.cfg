SPECIFICATION FairSpec
CONSTANTS
    j1 = j1
    j2 = j2
    d1 = d1
    d2 = d2
    Jobs = {j1, j2}
    Users = {1, 2}
    Recipient <- MCRecipient
    Parties <- MCParties
    Owner <- MCOwner
    Devices = {d1, d2}
    FirstDevices <- MCTwoDevices
    Workers = {w1, w2}
    None = None
    MaxAttempts = 1
    MaxFaults = 1
    MaxActs = 1
INVARIANTS
    NoStalePush
    OncePerDevice
    SentMeansReceived
PROPERTIES
    Drained
CHECK_DEADLOCK FALSE
