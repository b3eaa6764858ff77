SPECIFICATION FairSocketsSpec
CONSTANTS
    acc = acc
    c = c
    p = p
    q = q
    s = s
    t = t
    Nothing = Nothing
    Accounts <- MCAccounts
    Clients <- MCClients
    Owner <- MCOwner
    Processes <- MCProcesses
    Sockets <- MCSockets
    MaxFaults = 1
    MaxBlocks = 1
    MaxLooks = 1
PROPERTY LeasesKept
PROPERTY ClosedLoseSockets
PROPERTY Reconnects
CHECK_DEADLOCK FALSE
