CONSTANTS
    i1 = i1
    a0 = a0
    a1 = a1
    w1 = w1
    w2 = w2
    None = None
    Images = {i1}
    Avatars = {a0, a1}
    Legacy = {a0}
    FirstAvatar = a0
    Workers = {w1, w2}
    Versioning = {TRUE, FALSE}
    MaxUploads = 1
    MaxFaults = 1
    MaxMarkers = 5
SPECIFICATION FairSpec
INVARIANT Erased ReferencedKept
PROPERTY CleansUp
CHECK_DEADLOCK FALSE
