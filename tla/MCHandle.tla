------------------------------ MODULE MCHandle ------------------------------
(* An instance of Handle for TLC. *)
EXTENDS Handle, TLC

CONSTANTS p1, p2, p3

(* One creates the file, again and again, the others open it. *)
Processes == {p1, p2, p3}

Symmetric == Permutations({p2, p3})
=============================================================================
