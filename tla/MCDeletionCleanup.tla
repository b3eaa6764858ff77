------------------------- MODULE MCDeletionCleanup -------------------------
(* Instances of DeletionCleanup for TLC: the account a and another user v. *)
EXTENDS DeletionCleanup

CONSTANTS a, v

\* Poll 1 is the account's; polls 2 and 3 are v's: under 2 both comment, in 3 the account voted.
MCAuthor == [p \in {1, 2, 3} |-> IF p = 1 THEN a ELSE v]

Row(p, author, parent) == [poll |-> p, author |-> author, parent |-> parent, shown |-> TRUE]

\* On poll 2: 12 by the account with a reply 13 by v, 14 by v with a reply 15 by the account.
\* On poll 1: 11 by v.
MCComments ==
    [c \in 11 .. 15 |->
        CASE c = 11 -> Row(1, v, None)
          [] c = 12 -> Row(2, a, None)
          [] c = 13 -> Row(2, v, 12)
          [] c = 14 -> Row(2, v, None)
          [] c = 15 -> Row(2, a, 14)]

MCMarks     == {<<a, 2, "like">>, <<a, 3, "vote">>, <<v, 1, "like">>}
MCReactions == {<<a, 14>>, <<v, 12>>}
MCNotices   == {[to |-> a, from |-> v, poll |-> 1, comment |-> None],
                [to |-> v, from |-> a, poll |-> 2, comment |-> 15]}
MCReports   == {<<"comment", 12>>}
=============================================================================
