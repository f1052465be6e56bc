------------------------------- MODULE Chains -------------------------------
(***************************************************************************)
(* What the block layer promises: every chain of the file is a list of     *)
(* blocks that only ever grows, by a block that lies beyond all the blocks *)
(* of all the chains.  Blocks.tla implements it.                           *)
(***************************************************************************)
EXTENDS Sequences, Naturals

CONSTANTS Roots,      \* offsets of the first block of each chain
          RootSize,   \* size of those first blocks
          Offsets,    \* offsets at which a block may lie
          Sizes       \* sizes a block may have

VARIABLE chain        \* by root, the BLOCK_LOC of each block in order

AllBlocks == UNION {{chain[r][i] : i \in DOMAIN chain[r]} : r \in Roots}

Init == chain = [r \in Roots |-> <<[offset |-> r, size |-> RootSize]>>]

(* A new block becomes the last link of chain r. *)
AddLink(r, block) ==
    /\ \A b \in AllBlocks : b.offset + b.size <= block.offset
    /\ chain' = [chain EXCEPT ![r] = Append(@, block)]

Next == \E r \in Roots, block \in [offset : Offsets, size : Sizes] :
            AddLink(r, block)

Spec == Init /\ [][Next]_chain
=============================================================================
