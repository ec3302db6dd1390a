----------------------------- MODULE MCDiscussions -----------------------------
(***************************************************************************)
(* A small instance of Discussions; requests are interchangeable.          *)
(***************************************************************************)
EXTENDS Discussions, TLC

Symmetry == Permutations(Request)
=============================================================================
