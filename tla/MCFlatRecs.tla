----------------------------- MODULE MCFlatRecs -----------------------------
(* Instances of FlatRecs for TLC. *)
EXTENDS FlatRecs, TLC

CONSTANTS p1, p2

Processes == {p1, p2}

(* A table of one block, and one of two: 2 records of 1500 bytes each. *)
OneBlock  == 0 :> Block(72, ChunkSize, 0)
TwoBlocks == 0 :> Block(72, ChunkSize, ChunkSize)
             @@ ChunkSize :> Block(SizeofHeadBlock, ChunkSize, 0)

OneFirst  == 0 :> 1
TwoFirsts == 0 :> 1 @@ ChunkSize :> 3

OneChunk  == ChunkSize
TwoChunks == 2 * ChunkSize

(***************************************************************************)
(* What lies beyond the buffer on the stack: zeros, a plausible table, or  *)
(* nothing of the kind.                                                    *)
(***************************************************************************)
StackBytes == {[rec_size |-> 0, last_recno |-> 0],
               [rec_size |-> RecSize, last_recno |-> 0],
               [rec_size |-> Word - 1, last_recno |-> 7]}

(***************************************************************************)
(* For the table of two blocks: 5 is the record after them, 8 needs two    *)
(* chunks, and what 50 needs does not fit in Word.                         *)
(***************************************************************************)
Requests == {5, 8, 50}
=============================================================================
