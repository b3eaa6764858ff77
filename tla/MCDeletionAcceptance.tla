------------------------ MODULE MCDeletionAcceptance ------------------------
(* Instances of DeletionAcceptance for TLC. *)
EXTENDS DeletionAcceptance, TLC

CONSTANTS a, b, a1, a2, b1

\* One user verifies twice, the other once.
MCUserOf == [o \in {a1, a2, b1} |-> IF o = b1 THEN b ELSE a]

Symmetry == Permutations(Requests)
=============================================================================
