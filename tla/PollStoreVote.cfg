SPECIFICATION Spec
CONSTANTS
    a = a
    b = b
    x = x
    None = None
    Owner = a
    Users <- MCUsers
    Options <- MCOptions
    CommentIds <- MCCommentIds
    MaxWrites = 2
    Viewers <- MCUsers
    MaxOpen = 2
PROPERTY NewerVoteShown
CHECK_DEADLOCK FALSE
