SPECIFICATION FairSpec
CONSTANTS
    a = a
    b = b
    x = x
    None = None
    Owner = a
    Users <- MCUsers
    Options <- MCOptions
    CommentIds <- MCCommentIds
    MaxWrites = 2
    Viewers <- MCUsers
    MaxOpen = 2
INVARIANT NoConflict
INVARIANT DeletedStaysGone
PROPERTY NewestWins
PROPERTY EveryChangeCounted
PROPERTY CatchesUp
CHECK_DEADLOCK FALSE
