------------------------------ MODULE MCPollStore ------------------------------
EXTENDS PollStore, TLC

CONSTANTS a, b, x

MCUsers == {a, b}
MCOptions == {x}
MCCommentIds == {1}
=============================================================================
