-------------------------------- MODULE MCSync --------------------------------
(***************************************************************************)
(* A small instance of Sync: trunk starts with both files or with one; the *)
(* other starts follow from these by exchanging files or contents, but for *)
(* the empty tree and the one with two contents.                           *)
(***************************************************************************)
EXTENDS Sync

CONSTANTS f1, f2, x, y

MCFirstTree == {[f \in File |-> x], [f \in File |-> IF f = f1 THEN x ELSE Absent]}
=============================================================================
