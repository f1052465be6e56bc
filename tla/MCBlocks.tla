------------------------------ MODULE MCBlocks ------------------------------
(* Instances of Blocks for TLC: a chunk is 4096 bytes, as in the tests. *)
EXTENDS BlocksInvariant, TLC

OneChain  == {0}
TwoChains == {0, 4096}

ZeroToTwoChunks == {0, 4096, 8192}
WholeChunks     == {4096, 8192}
ZeroOrOneChunk  == {0, 4096}

NoFailure     == {}

Symmetry == Permutations(Proc)
=============================================================================
