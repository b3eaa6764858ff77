SPECIFICATION FairSpec
CONSTANTS
    a = a
    v = v
    Account = a
    Others = {v}
    None = None
    Author <- MCAuthor
    FirstComments <- MCComments
    FirstMarks <- MCMarks
    FirstReactions <- MCReactions
    FirstNotices <- MCNotices
    FirstReports <- MCReports
    Spare = {21, 22, 23}
    Batch = 1
    Kinds = {"mark"}
    Reach = {a}
    MaxActs = 1
PROPERTIES
    Completes
CHECK_DEADLOCK FALSE
