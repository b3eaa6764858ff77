---------------------------- MODULE MCAccountMedia ----------------------------
(***************************************************************************)
(* One image, an avatar from before and one that replaces it, two workers. *)
(***************************************************************************)
EXTENDS AccountMedia, TLC

CONSTANTS i1, a0, a1, w1, w2
===============================================================================
