------------------------------ MODULE MCLocks ------------------------------
(* Instances of Locks for TLC: two areas that share a cell. *)
EXTENDS Locks, TLC

TwoAreas == {{1, 2}, {2, 3}}

Rereading  == {TRUE}
MayBeStale == {TRUE, FALSE}

NoFailure    == {}
CheckedCalls == Calls \ {"restore", "unlock"}

Symmetry == Permutations(Proc)
=============================================================================
