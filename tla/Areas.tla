------------------------------- MODULE Areas -------------------------------
(***************************************************************************)
(* What locking an area of the file is for: updates of areas are atomic.   *)
(* Every update is made to what all the earlier ones left, in all of its   *)
(* area, and is made once.  Locks.tla implements it.                       *)
(*                                                                         *)
(* The file is a set of cells, an area is a set of cells, and a cell holds *)
(* the updates that went into it.                                          *)
(***************************************************************************)
CONSTANTS Cells, Areas, Updates

VARIABLE file     \* by cell, the updates that were made to it

Init == file = [c \in Cells |-> {}]

Update(area, u) ==
    /\ \A c \in Cells : u \notin file[c]
    /\ file' = [c \in Cells |-> IF c \in area THEN file[c] \cup {u} ELSE file[c]]

Next == \E area \in Areas, u \in Updates : Update(area, u)

Spec == Init /\ [][Next]_file
=============================================================================
