SPECIFICATION FairSpec
CONSTANTS
    a = a
    b = b
    None = None
    Users <- MCUsers
    Notes <- MCNotes
    Recipient <- MCRecipient
    Old <- MCOld
    Elsewhere <- MCElsewhere
    PageSize = 1
    MaxNow = 3
    MaxPresses = 1
    MaxSessions = 2
    MaxWire = 1
    MaxOpen = 2
INVARIANT OwnInbox
PROPERTY ArrivalsKeepRead
PROPERTY CatchesUp
CHECK_DEADLOCK FALSE
