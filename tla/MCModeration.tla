---------------------------- MODULE MCModeration ----------------------------
(* Instances of Moderation for TLC. *)
EXTENDS Moderation, TLC

\* A policy that acts on the first strike and one that waits for the second.
TwoPolicies == {[posting |-> 1, ban |-> 2], [posting |-> 2, ban |-> 2]}

\* The keys of a member of staff are interchangeable.
Symmetry == Permutations(Keys)
=============================================================================
