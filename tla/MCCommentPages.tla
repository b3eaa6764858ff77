----------------------------- MODULE MCCommentPages -----------------------------
EXTENDS CommentPages

CONSTANTS a, b

MCUsers == {a, b}
MCCommentIds == 1 .. 3
MCWritten == {{1, 2}}
MCAuthor == <<b, a, b>>
=============================================================================
