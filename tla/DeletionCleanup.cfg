SPECIFICATION FairSpec
CONSTANTS
    a = a
    v = v
    Account = a
    Others = {v}
    None = None
    Author <- MCAuthor
    FirstComments <- MCComments
    FirstMarks <- MCMarks
    FirstReactions <- MCReactions
    FirstNotices <- MCNotices
    FirstReports <- MCReports
    Spare = {21, 22, 23}
    Batch = 1
    Kinds = {"mark", "comment", "reply", "deleteComment", "likeComment", "report", "stale"}
    Reach = {a, v}
    MaxActs = 3
INVARIANTS
    ErasedClean
    PollsCounted
    ContentStaysGone
PROPERTIES
    OthersKeepTheirComments
    CompletesOrNamesWhy
CHECK_DEADLOCK FALSE
