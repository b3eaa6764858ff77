-------------------------- MODULE DeletionContract --------------------------
(***************************************************************************)
(* What account deletion promises of one accepted request, with no word of *)
(* workers, leases, retries or crashes (docs/account-deletion-operations.md*)
(* and AC-10 to AC-12 of docs/prd-account-deletion.md): an accepted request*)
(* goes through the cleanup steps once each and in order, the users row is *)
(* deleted between the last cleanup step and the end of the completion     *)
(* step, and only then is the request reported completed, for good.        *)
(***************************************************************************)
EXTENDS Naturals

CONSTANTS Ops, NumSteps

Steps == 1 .. NumSteps

VARIABLES
    phase,   \* "requested", "accepted" or "completed"
    over,    \* the steps that are over
    erased   \* the users row is deleted

vars == <<phase, over, erased>>

Init ==
    /\ phase  = [o \in Ops |-> "requested"]
    /\ over   = [o \in Ops |-> {}]
    /\ erased = [o \in Ops |-> FALSE]

Accept(o) ==
    /\ phase[o] = "requested"
    /\ phase' = [phase EXCEPT ![o] = "accepted"]
    /\ UNCHANGED <<over, erased>>

FinishStep(o, s) ==
    /\ phase[o] = "accepted"
    /\ s \notin over[o]
    /\ 1 .. s - 1 \subseteq over[o]
    /\ s = NumSteps => erased[o]
    /\ over' = [over EXCEPT ![o] = @ \cup {s}]
    /\ UNCHANGED <<phase, erased>>

Erase(o) ==
    /\ phase[o] = "accepted"
    /\ 1 .. NumSteps - 1 \subseteq over[o]
    /\ erased' = [erased EXCEPT ![o] = TRUE]
    /\ UNCHANGED <<phase, over>>

Finish(o) ==
    /\ phase[o] = "accepted"
    /\ over[o] = Steps
    /\ phase' = [phase EXCEPT ![o] = "completed"]
    /\ UNCHANGED <<over, erased>>

Work(o) == (\E s \in Steps : FinishStep(o, s)) \/ Erase(o) \/ Finish(o)

Next == \E o \in Ops : Accept(o) \/ Work(o)

Spec == Init /\ [][Next]_vars

\* Whoever is accepted is served.
FairSpec == Spec /\ \A o \in Ops : WF_vars(Work(o))
=============================================================================
