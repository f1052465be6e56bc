----------------------------- MODULE RecNumbers -----------------------------
(***************************************************************************)
(* What flatrecs_get_next_offset promises: record numbers are given one    *)
(* after the other, each to one record.  FlatRecs.tla implements it.       *)
(***************************************************************************)
EXTENDS Naturals

VARIABLES last,   \* the last number given
          taken   \* the numbers that were given

Init == last = 0 /\ taken = {}

Next == last' = last + 1 /\ taken' = taken \cup {last'}

Spec == Init /\ [][Next]_<<last, taken>>
=============================================================================
