SPECIFICATION PagesSpec
CONSTANTS
    a = a
    b = b
    None = None
    Owner = a
    Me = a
    Users <- MCUsers
    Thread = 1
    Written <- MCWritten
    Author <- MCAuthor
    Options = {}
    CommentIds <- MCCommentIds
    Liked = {3}
    MaxWrites = 2
    MaxReactions = 1
    Limit = 1
    MaxCalls = 2
INVARIANT Complete
 
PROPERTY AppendsKeepReactions
CHECK_DEADLOCK FALSE
