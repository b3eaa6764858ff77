-------------------------------- MODULE MCInbox --------------------------------
EXTENDS Inbox, TLC

CONSTANTS a, b

MCUsers == {a, b}
MCNotes == 1..2
MCOld == {1}
MCElsewhere == {2}
MCRecipient == <<a, a>>
=============================================================================
