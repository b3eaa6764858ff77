-------------------------- MODULE MCRealtimeSockets --------------------------
(* One client of one account, two processes, two sockets. *)
EXTENDS RealtimeSockets

CONSTANTS acc, c, p, q, s, t

MCAccounts == {acc}
MCClients == {c}
MCOwner == [x \in MCClients |-> acc]
MCProcesses == {p, q}
MCSockets == {s, t}
=============================================================================
