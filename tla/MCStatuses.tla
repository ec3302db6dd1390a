----------------------------- MODULE MCStatuses -----------------------------
(***************************************************************************)
(* A small instance of Statuses.                                           *)
(***************************************************************************)
EXTENDS Statuses, TLC

Symmetry == Permutations(Actor) \union Permutations(Title)
=============================================================================
