---------------------------- MODULE BlockLayout ----------------------------
(***************************************************************************)
(* What a block of a recnodb file looks like (blocks.h) and how much of    *)
(* its head the block-layer functions of blocks.c read and write.          *)
(*                                                                         *)
(* A head is cut at the two boundaries the code cuts it at: the            *)
(* INFO_BLOCK, the first 32 bytes, which every block has, is a record; the *)
(* chain, table and file information that follows it in the first block of *)
(* a table or file is the single field "info", which only says whether     *)
(* those bytes still hold what they were initialised to.                   *)
(***************************************************************************)
EXTENDS Integers

(***************************************************************************)
(* BTYPE, and the sizes of RND_HEAD_BLOCK, RND_HEAD_TABLE and              *)
(* RND_HEAD_FILE in the -m64 build, whose structs have no padding          *)
(* (-Wpadded -Werror).                                                     *)
(***************************************************************************)
BTYPE == {"UNDEFINED", "GENERIC", "DATA", "TABLE", "FILE"}

SizeofHeadBlock == 32
SizeofHeadTable == 64
SizeofHeadFile  == 72

(* BLOCK_LOC: where a block is and how long it is; all 0 in the last link. *)
BlockLoc == [offset : Nat, size : Nat]
NoBlock  == [offset |-> 0, size |-> 0]

Info == {"none", "intact", "clobbered"}

BlockHead == [block_type : BTYPE, bytes_to_data : Nat, block_size : Nat,
              next_block : BlockLoc, info : Info]

(***************************************************************************)
(* What a read finds in bytes of the file that were reserved by seeking    *)
(* past the end and never written: zeros.                                  *)
(***************************************************************************)
ZeroHead == [block_type |-> "UNDEFINED", bytes_to_data |-> 0, block_size |-> 0,
             next_block |-> NoBlock, info |-> "none"]

-----------------------------------------------------------------------------
(* Where the data of a block starts: the length of its head. *)
BytesToData(type) == CASE type = "TABLE" -> SizeofHeadTable
                       [] type = "FILE"  -> SizeofHeadFile
                       [] OTHER          -> SizeofHeadBlock

(* blocks_set_info_block: the head given to a newly appended block. *)
SetInfoBlock_Payload(type, size) ==
    [block_type    |-> type,
     bytes_to_data |-> BytesToData(type),
     block_size    |-> size - BytesToData(type),
     next_block    |-> NoBlock,
     info          |-> IF type \in {"TABLE", "FILE"} THEN "intact" ELSE "none"]

SetInfoBlock(type, size) ==
    [block_type    |-> type,
     bytes_to_data |-> BytesToData(type),
     block_size    |-> size,
     next_block    |-> NoBlock,
     info          |-> IF type \in {"TABLE", "FILE"} THEN "intact" ELSE "none"]

(***************************************************************************)
(* blocks_prep_head_file: the head of a file created with RND_CREATE.  Its *)
(* type is RBT_TABLE although its data starts after a whole RND_HEAD_FILE. *)
(***************************************************************************)
PrepHeadFile(size) ==
    [SetInfoBlock("TABLE", size) EXCEPT !.bytes_to_data = SizeofHeadFile]

(***************************************************************************)
(* blocks_write_block_head writes the larger of the head length of the     *)
(* block's type and the length of the caller's buffer.                     *)
(***************************************************************************)
WriteLength(type, info_len) ==
    IF BytesToData(type) < info_len THEN info_len ELSE BytesToData(type)

(***************************************************************************)
(* Whether blocks_extend_chain's read-modify-write of a link can be done:  *)
(* blocks_block_points_to_child_test protects the child of a link that     *)
(* already has one.                                                        *)
(***************************************************************************)
PointsToChild(ib) == ib.next_block.offset # 0

(***************************************************************************)
(* The head blocks_extend_chain leaves at the old end of the chain.  It    *)
(* read the INFO_BLOCK only; whatever it writes after those 32 bytes is    *)
(* not what the file held there (the rest of its buffer, then the stack).  *)
(***************************************************************************)
LinkedByExtend(ib, loc, info_len) ==
    [ib EXCEPT !.next_block = loc,
               !.info = IF WriteLength(ib.block_type, info_len) > SizeofHeadBlock
                        THEN "clobbered" ELSE @]

(* The head chains_add_link leaves: it writes back the INFO_BLOCK alone. *)
LinkedByAddLink(ib, loc) == [ib EXCEPT !.next_block = loc]

(***************************************************************************)
(* The bytes a block takes in the file: its size, or its head if that is   *)
(* longer (a block of size 0 is still given a head).                       *)
(***************************************************************************)
Extent(h) == IF h.block_size < BytesToData(h.block_type)
             THEN BytesToData(h.block_type) ELSE h.block_size
=============================================================================
