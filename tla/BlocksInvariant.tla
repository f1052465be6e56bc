-------------------------- MODULE BlocksInvariant --------------------------
(***************************************************************************)
(* The inductive invariant of the block layer when blocks are added with   *)
(* exclusive access: what holds between any two stdio calls of the process *)
(* that adds a block, and of those that only read.                         *)
(***************************************************************************)
EXTENDS Blocks

(***************************************************************************)
(* The one failure the invariant does not survive is that of the fseek in  *)
(* blocks_append_block whose result is thrown away: the head of a block    *)
(* that is then linked may not be in the file.                             *)
(***************************************************************************)
HeadsWritten == "restore" \notin FailingCalls

(* The other failure nobody looks at, that of writing the link itself. *)
LinksWritten == "release" \notin FailingCalls

(* Process p is adding a block. *)
Adding(p) == req[p].op \in {"extend", "append"}

(* A process that adds a block to a chain is the one that holds its lock. *)
LockInv ==
    \A p \in Proc :
        /\ pc[p] = "idle" <=> req[p].op = "none"
        /\ \A r \in Roots : lock[r] = p <=> Adding(p) /\ req[p].chain = r
        /\ Adding(p) => req[p].block_type \in ChildTypes
        /\ pc[p] \in {"tell", "locate", "grow", "settle", "header", "restore",
                      "read", "link"} => Adding(p)

(* The space for p's block is at the end of the file, beyond all others. *)
AtEnd(p) == pos[p] = size /\ pos[p] % ChunkSize = 0

Reserved(p) ==
    /\ size = pos[p] + req[p].block_size
    /\ pos[p] % ChunkSize = 0
    /\ \A b \in DOMAIN head : b + Extent(head[b]) <= pos[p]

(* p's block is in the file, the last one there, and nothing links it yet. *)
Appended(p) ==
    /\ pos[p] \in DOMAIN head \ Roots
    /\ head[pos[p]].block_size = req[p].block_size
    /\ \A b \in DOMAIN head : b <= pos[p]
    /\ \A b \in Linked : head[b].next_block.offset # pos[p]
    /\ cur[p] < pos[p]

(* What p's stream holds, and what p knows of the file, at each call. *)
StreamInv(p) ==
    /\ cur[p] \in DOMAIN head
    /\ pc[p] \notin {"settle", "restore", "release"} => pending[p] = NothingPending
    /\ pc[p] = "locate" => pos[p] = size
    /\ pc[p] \in {"grow", "settle"} => AtEnd(p)
    /\ pc[p] = "settle" =>
         pending[p] = [kind |-> "byte", at |-> LastByteOf(req[p].block_size),
                       len |-> 1, head |-> ZeroHead]
    /\ pc[p] \in {"header", "restore"} => Reserved(p)
    /\ pc[p] = "restore" =>
         pending[p] = [kind |-> "head", at |-> pos[p], len |-> SizeofHeadBlock,
                       head |-> SetInfoBlock(req[p].block_type, req[p].block_size)]
    /\ Adding(p) /\ pc[p] \in {"walk", "read", "link"} => Appended(p)
    /\ pc[p] = "link" => ib[p] = head[cur[p]]
    /\ pc[p] = "release" =>
         \/ /\ pending[p] = NothingPending
            /\ Adding(p) => rval[p] # "SUCCESS"
         \/ /\ Adding(p) /\ Appended(p)
            /\ ib[p] = head[cur[p]] /\ ~PointsToChild(ib[p])
            /\ pending[p] = LinkWrite(p)

(* The file never gets shorter, so the byte before its end exists. *)
TypeInv == TypeOK /\ size >= InitialSize

IInv ==
    /\ TypeInv
    /\ LockInv
    /\ Roots \subseteq DOMAIN head
    /\ BlocksDisjoint
    /\ BlocksAligned
    /\ LinkTargetsReady
    /\ LinksFormLists
    /\ \A p \in Proc : StreamInv(p)

-----------------------------------------------------------------------------
(***************************************************************************)
(* What is left of it when heads may be lost as well.  The block of a lost *)
(* head is known by the link that leads to it only, and a block that is    *)
(* then linked to it gives it a head of its own: bytes 0 with a link among *)
(* them.  It takes blocks that are larger than any head, so that bytes of  *)
(* the file are set aside for each, head or no head.                       *)
(***************************************************************************)
BlocksHoldHeads == \A s \in Sizes : s >= SizeofHeadFile

(* The bytes that belong to a block, by its head or by a link to it. *)
Spans == {[offset |-> b, size |-> Extent(head[b])] : b \in DOMAIN head}
            \cup {head[b].next_block : b \in Linked}

(* They are in the file, from a multiple of the chunk size on, and apart. *)
SpansApart ==
    /\ \A s \in Spans : s.offset % ChunkSize = 0 /\ s.offset + s.size <= size
    /\ \A s, t \in Spans : s.offset < t.offset => s.offset + s.size <= t.offset

(* The offsets at which a whole RND_HEAD_FILE can be read. *)
Readable == {s.offset : s \in {t \in Spans : t.size >= SizeofHeadFile}}

BeyondAll(p) == \A s \in Spans : s.offset + s.size <= pos[p]

(* The space of p's block is the last of the file, and nothing links it yet. *)
Placed(p) ==
    /\ pos[p] % ChunkSize = 0 /\ pos[p] \notin Roots
    /\ pos[p] + req[p].block_size <= size
    /\ \A s \in Spans : s.offset + s.size <= pos[p] \/ s = NewBlock(p)
    /\ \A b \in Linked : head[b].next_block.offset # pos[p]
    /\ cur[p] < pos[p]

LostStreamInv(p) ==
    /\ cur[p] \in Readable
    /\ pc[p] \notin {"settle", "restore", "release"} => pending[p] = NothingPending
    /\ pc[p] = "locate" => pos[p] = size
    /\ pc[p] \in {"grow", "settle"} => AtEnd(p)
    /\ pc[p] = "settle" =>
         pending[p] = [kind |-> "byte", at |-> LastByteOf(req[p].block_size),
                       len |-> 1, head |-> ZeroHead]
    /\ pc[p] \in {"header", "restore"} =>
         BeyondAll(p) /\ pos[p] % ChunkSize = 0 /\ size = pos[p] + req[p].block_size
    /\ pc[p] = "restore" =>
         pending[p] = [kind |-> "head", at |-> pos[p], len |-> SizeofHeadBlock,
                       head |-> SetInfoBlock(req[p].block_type, req[p].block_size)]
    /\ Adding(p) /\ pc[p] \in {"walk", "read", "link"} => Placed(p)
    /\ pc[p] = "link" => ib[p] = ReadHead(cur[p])
    /\ pc[p] = "release" =>
         \/ pending[p] = NothingPending
         \/ /\ Adding(p) /\ Placed(p)
            /\ ib[p] = ReadHead(cur[p]) /\ ~PointsToChild(ib[p])
            /\ pending[p] = LinkWrite(p)

SpaceInv ==
    /\ SpansApart
    /\ Roots \subseteq DOMAIN head \cap Readable
    /\ \A b \in Linked : head[b].next_block.size >= SizeofHeadFile
    /\ LinksFormLists

LostInv ==
    /\ TypeInv
    /\ LockInv
    /\ \A p \in Proc : Adding(p) => req[p].block_size \in Sizes
    /\ SpaceInv
    /\ \A p \in Proc : LostStreamInv(p)
=============================================================================
