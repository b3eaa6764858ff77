----------------------------- MODULE MCPushJobs -----------------------------
(* Instances of PushJobs for TLC: users 1 and 2 notify each other. *)
EXTENDS PushJobs

CONSTANTS j1, j2, d1, d2

\* j1: user 2 liked a poll of user 1; j2: user 1 replied to a comment of user 2.
MCRecipient == [j \in {j1, j2} |-> IF j = j1 THEN 1 ELSE 2]
MCParties   == [j \in {j1, j2} |-> IF j = j1 THEN {1, 2} ELSE {1}]
MCOwner     == [j \in {j1, j2} |-> 1]

\* The devices of the users: a phone that changed hands is registered for both.
MCTwoDevices == [u \in {1, 2} |-> IF u = 1 THEN {d1, d2} ELSE {d1}]
=============================================================================
