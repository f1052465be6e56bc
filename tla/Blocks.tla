------------------------------- MODULE Blocks -------------------------------
(***************************************************************************)
(* The block layer: blocks.c and chains.c working on one recnodb file.     *)
(*                                                                         *)
(* The file is a heap of blocks, each appended at the end of the file and  *)
(* then linked to the last block of a chain.  Several processes have the   *)
(* file open, each through its own stdio stream.  One action is one call   *)
(* on a stream, so that processes interleave, fail and crash between any   *)
(* two calls.                                                              *)
(*                                                                         *)
(* The block layer "makes no safety provisions, so locks and links must be *)
(* made by calling functions" (blocks.c:381).  The callers modelled are    *)
(* the ones the source has: flatrecs.c, which extends a chain while it     *)
(* holds the lock of that chain's first block ("extend"), the append,      *)
(* chains_last_link, chains_add_link sequence of test_blocks.c under the   *)
(* same lock ("append"), and chains_walk, which takes no lock ("walk").    *)
(***************************************************************************)
EXTENDS BlockLayout, Sequences

CONSTANTS
    Proc,         \* processes that have the file open
    NoProc,       \* no process: the lock is free
    Roots,        \* offsets of the first block of each chain
    InitialSize,  \* size of the file when it holds those blocks only
    ChunkSize,    \* fhead.chunk_size
    Sizes,        \* block sizes the callers ask for
    ChildTypes,   \* block types the callers ask for
    FailingCalls, \* points, as pc values, where a stdio call may fail
    MaxFile       \* bound: no block is requested beyond this file size

(***************************************************************************)
(* The calls whose failure the code reports, and the two whose result it   *)
(* throws away: the fseek that restores the file position and, when the    *)
(* caller is done, the fseek or fclose that empties the stream.            *)
(***************************************************************************)
CheckedCalls   == {"tell", "locate", "grow", "settle", "header",
                   "walk", "read", "link"}
UncheckedCalls == {"restore", "release"}
Calls          == CheckedCalls \cup UncheckedCalls

ASSUME BlocksAssumption ==
    /\ NoProc \notin Proc
    /\ ChunkSize \in Nat /\ ChunkSize >= SizeofHeadFile
    /\ InitialSize \in Nat /\ InitialSize % ChunkSize = 0
    /\ Roots \subseteq Nat /\ 0 \in Roots
    /\ \A r \in Roots : r % ChunkSize = 0 /\ r + ChunkSize <= InitialSize
    /\ \A r, s \in Roots : r < s => r + ChunkSize <= s
    /\ Sizes \subseteq Nat
    /\ ChildTypes \subseteq {"GENERIC", "DATA"}
    /\ FailingCalls \subseteq Calls
    /\ MaxFile \in Nat

VARIABLES
    size,     \* bytes in the file
    head,     \* the block heads in the file, by offset
    pending,  \* per process: what its stream has not written out yet
    pc,       \* per process: the next stdio call
    req,      \* per process: the operation it was asked for
    pos,      \* per process: new_block_position in blocks_append_block
    cur,      \* per process: the link it is at, or last was at
    ib,       \* per process: the head it read into its buffer
    rval,     \* per process: the return value so far
    lock,     \* per chain: the process that holds the lock of its first block
    added     \* history: the blocks reported as added to a chain

file  == <<size, head>>
local == <<pending, pc, req, pos, cur, ib, rval>>
vars  == <<size, head, pending, pc, req, pos, cur, ib, rval, lock, added>>

-----------------------------------------------------------------------------
(* Types *)

RND_ERROR == {"SUCCESS", "SYSTEM_ERROR", "INVALID_BLOCK_LOCATION",
              "ATTEMPT_TO_ORPHAN_BLOCK"}

Request == [op : {"none", "extend", "append", "walk"}, chain : Roots,
            block_type : BTYPE, block_size : Nat]

NoRequest == [op |-> "none", chain |-> 0, block_type |-> "UNDEFINED",
              block_size |-> 0]

(***************************************************************************)
(* Data that fwrite left in the buffer of a stream: len bytes for offset   *)
(* at, which begin a block head if kind is "head" and are otherwise the    *)
(* one byte that moves the end of the file.                                *)
(***************************************************************************)
Pending == [kind : {"none", "byte", "head"}, at : Nat, len : Nat, head : BlockHead]

NothingPending == [kind |-> "none", at |-> 0, len |-> 0, head |-> ZeroHead]

TypeOK ==
    /\ size \in Nat
    /\ DOMAIN head \subseteq Nat /\ head \in [DOMAIN head -> BlockHead]
    /\ pending \in [Proc -> Pending]
    /\ pc \in [Proc -> Calls \cup {"idle"}]
    /\ req \in [Proc -> Request]
    /\ pos \in [Proc -> Nat]
    /\ cur \in [Proc -> Nat]
    /\ ib \in [Proc -> BlockHead]
    /\ rval \in [Proc -> RND_ERROR]
    /\ lock \in [Roots -> Proc \cup {NoProc}]
    /\ added \subseteq BlockLoc

Init ==
    /\ size = InitialSize
    /\ \E first \in {PrepHeadFile(ChunkSize), SetInfoBlock("FILE", ChunkSize)} :
         head = [r \in Roots |-> IF r = 0 THEN first
                                 ELSE SetInfoBlock("GENERIC", ChunkSize)]
    /\ pending = [p \in Proc |-> NothingPending]
    /\ pc = [p \in Proc |-> "idle"]
    /\ req = [p \in Proc |-> NoRequest]
    /\ pos = [p \in Proc |-> 0]
    /\ cur = [p \in Proc |-> 0]
    /\ ib = [p \in Proc |-> ZeroHead]
    /\ rval = [p \in Proc |-> "SUCCESS"]
    /\ lock = [r \in Roots |-> NoProc]
    /\ added = {}

-----------------------------------------------------------------------------
(* The stream *)

ReadHead(o) == IF o \in DOMAIN head THEN head[o] ELSE ZeroHead

(* The file position moves, so the stream writes out what it holds. *)
Flush(p) ==
    LET w == pending[p] IN
    /\ size' = IF size < w.at + w.len THEN w.at + w.len ELSE size
    /\ head' = IF w.kind # "head" THEN head
               ELSE [o \in DOMAIN head \cup {w.at} |->
                        IF o = w.at THEN w.head ELSE head[o]]
    /\ pending' = [pending EXCEPT ![p] = NothingPending]

(* Writing out fails: stdio drops the data and the call returns an error. *)
LoseWrite(p) ==
    /\ pending' = [pending EXCEPT ![p] = NothingPending]
    /\ UNCHANGED file

Goto(p, label) == pc' = [pc EXCEPT ![p] = label]

Return(p, err) ==
    /\ rval' = [rval EXCEPT ![p] = err]
    /\ Goto(p, "release")

(* The locks process p held are free: it gives them up, or it is dead. *)
FreeLocks(p) == lock' = [r \in Roots |-> IF lock[r] = p THEN NoProc ELSE lock[r]]

(* The operation is over, and its local variables with it. *)
Finish(p) ==
    /\ Goto(p, "idle")
    /\ pos' = [pos EXCEPT ![p] = 0]
    /\ ib' = [ib EXCEPT ![p] = ZeroHead]
    /\ rval' = [rval EXCEPT ![p] = "SUCCESS"]

-----------------------------------------------------------------------------
(* The callers *)

(* The link that is named when extending is one of the chain that is locked. *)
LocksChainOfLink_Any(p, op, r) == TRUE
LocksChainOfLink(p, op, r) == op = "extend" => req[p].chain = r

(***************************************************************************)
(* A caller locks the first block of chain r and asks for a block of size  *)
(* s.  "extend" names as the end of the chain the link the process last    *)
(* saw, which other processes may have extended since; "append" will look  *)
(* for the last link itself, from the root.                                *)
(***************************************************************************)
Begin(p, op, r, t, s) ==
    /\ pc[p] = "idle" /\ lock[r] = NoProc
    /\ LocksChainOfLink(p, op, r)
    /\ size + s <= MaxFile
    /\ lock' = [lock EXCEPT ![r] = p]
    /\ req' = [req EXCEPT ![p] = [op |-> op, chain |-> r,
                                  block_type |-> t, block_size |-> s]]
    /\ cur' = [cur EXCEPT ![p] = IF op = "append" THEN r ELSE @]
    /\ Goto(p, "tell")
    /\ UNCHANGED <<file, pending, pos, ib, rval, added>>

(* chains_walk is called with the offset of a root, without a lock. *)
BeginWalk(p, r) ==
    /\ pc[p] = "idle"
    /\ req' = [req EXCEPT ![p] = [NoRequest EXCEPT !.op = "walk", !.chain = r]]
    /\ cur' = [cur EXCEPT ![p] = r]
    /\ Goto(p, "walk")
    /\ UNCHANGED <<file, pending, pos, ib, rval, lock, added>>

-----------------------------------------------------------------------------
(* blocks_append_block and blocks_extend_file *)

(* blocks_append_block notes the end of the file as the new block's place. *)
Tell(p) ==
    /\ pc[p] = "tell"
    /\ pos' = [pos EXCEPT ![p] = size]
    /\ Goto(p, "locate")
    /\ UNCHANGED <<file, pending, req, cur, ib, rval, lock, added>>

(***************************************************************************)
(* blocks_extend_file looks for the end of the file again and refuses to   *)
(* add a block there if it is not a multiple of the chunk size.            *)
(***************************************************************************)
ValidNewBlockLocation_Always(location) == TRUE
ValidNewBlockLocation(location) == location % ChunkSize = 0

Locate(p) ==
    /\ pc[p] = "locate"
    /\ \/ /\ ValidNewBlockLocation(size)
          /\ Goto(p, "grow")
          /\ UNCHANGED rval
       \/ /\ ~ValidNewBlockLocation(size)
          /\ Return(p, "INVALID_BLOCK_LOCATION")
    /\ UNCHANGED <<file, pending, req, pos, cur, ib, lock, added>>

(***************************************************************************)
(* It seeks to the last byte of the new block, from what is now the end of *)
(* the file, and buffers a NUL.  For a block of size 0 that byte is the    *)
(* last one of the file as it is.                                          *)
(***************************************************************************)
LastByteOf_FromStart(bytes_to_add) == bytes_to_add - 1
LastByteOf_Short(bytes_to_add) == size + bytes_to_add - 2
LastByteOf(bytes_to_add) == size + bytes_to_add - 1

Grow(p) ==
    /\ pc[p] = "grow"
    /\ pending' = [pending EXCEPT ![p] =
            [kind |-> "byte", at |-> LastByteOf(req[p].block_size), len |-> 1,
             head |-> ZeroHead]]
    /\ Goto(p, "settle")
    /\ UNCHANGED <<file, req, pos, cur, ib, rval, lock, added>>

(* Seeking back to the new block writes that byte out. *)
Settle_SeekOnly(p) ==
    /\ pc[p] = "settle"
    /\ pending' = [pending EXCEPT ![p] = NothingPending]
    /\ Goto(p, "header")
    /\ UNCHANGED <<file, req, pos, cur, ib, rval, lock, added>>

Settle(p) ==
    /\ pc[p] = "settle"
    /\ Flush(p)
    /\ Goto(p, "header")
    /\ UNCHANGED <<req, pos, cur, ib, rval, lock, added>>

(* The head of the new block goes to the position noted first. *)
WriteHeader(p) ==
    /\ pc[p] = "header"
    /\ LET h == SetInfoBlock(req[p].block_type, req[p].block_size) IN
       pending' = [pending EXCEPT ![p] =
            [kind |-> "head", at |-> pos[p], len |-> BytesToData(h.block_type),
             head |-> h]]
    /\ Goto(p, "restore")
    /\ UNCHANGED <<file, req, pos, cur, ib, rval, lock, added>>

(***************************************************************************)
(* Restoring the original file position writes the head out.  The result   *)
(* of that fseek is not looked at: if the write fails the head is lost and *)
(* blocks_append_block returns RND_SUCCESS all the same.                   *)
(***************************************************************************)
Restore(p) ==
    /\ pc[p] = "restore"
    /\ \/ Flush(p)
       \/ "restore" \in FailingCalls /\ LoseWrite(p)
    /\ Goto(p, IF req[p].op = "append" THEN "walk" ELSE "read")
    /\ UNCHANGED <<req, pos, cur, ib, rval, lock, added>>

-----------------------------------------------------------------------------
(* Chains: chains_walk, chains_last_link, chains_add_link, extend_chain *)

(* fread finds fewer bytes before the end of the file than it was told to. *)
ShortRead(p) ==
    size < cur[p] + IF pc[p] = "walk" THEN SizeofHeadFile ELSE SizeofHeadBlock

(***************************************************************************)
(* One turn of chains_walk, with the viewer of chains_last_link: it reads  *)
(* a whole RND_HEAD_FILE at the current link and stops at the last one.    *)
(***************************************************************************)
Walk_Stays(p) ==
    /\ pc[p] = "walk" /\ ~ShortRead(p)
    /\ \/ /\ ~PointsToChild(ReadHead(cur[p]))
          /\ Goto(p, IF req[p].op = "walk" THEN "release" ELSE "read")
       \/ /\ PointsToChild(ReadHead(cur[p]))
          /\ UNCHANGED pc
    /\ UNCHANGED <<file, pending, req, pos, cur, ib, rval, lock, added>>

Walk(p) ==
    /\ pc[p] = "walk" /\ ~ShortRead(p)
    /\ \/ /\ ~PointsToChild(ReadHead(cur[p]))
          /\ Goto(p, IF req[p].op = "walk" THEN "release" ELSE "read")
          /\ UNCHANGED cur
       \/ /\ PointsToChild(ReadHead(cur[p]))
          /\ cur' = [cur EXCEPT ![p] = ReadHead(@).next_block.offset]
          /\ UNCHANGED pc
    /\ UNCHANGED <<file, pending, req, pos, ib, rval, lock, added>>

(* blocks_extend_chain and chains_add_link read the link they will change. *)
ReadLink(p) ==
    /\ pc[p] = "read" /\ ~ShortRead(p)
    /\ ib' = [ib EXCEPT ![p] = ReadHead(cur[p])]
    /\ Goto(p, "link")
    /\ UNCHANGED <<file, pending, req, pos, cur, rval, lock, added>>

(* bdef->new_block *)
NewBlock(p) == [offset |-> pos[p], size |-> req[p].block_size]

(* What is written back at the link, by which of the two functions. *)
LinkWrite_Swapped(p) ==
    [kind |-> "head", at |-> pos[p], len |-> SizeofHeadBlock,
     head |-> LinkedByAddLink(ib[p], [offset |-> cur[p], size |-> ib[p].block_size])]

LinkWrite(p) ==
    LET info_len == BytesToData(req[p].block_type) IN
    IF req[p].op = "extend"
    THEN [kind |-> "head", at |-> cur[p],
          len  |-> WriteLength(ib[p].block_type, info_len),
          head |-> LinkedByExtend(ib[p], NewBlock(p), info_len)]
    ELSE [kind |-> "head", at |-> cur[p], len |-> SizeofHeadBlock,
          head |-> LinkedByAddLink(ib[p], NewBlock(p))]

(* They refuse a link that has a child, and buffer the new head otherwise. *)
WriteLink_NoTest(p) ==
    /\ pc[p] = "link"
    /\ pending' = [pending EXCEPT ![p] = LinkWrite(p)]
    /\ Goto(p, "release")
    /\ UNCHANGED <<file, req, pos, cur, ib, rval, lock, added>>

WriteLink_SilentRefusal(p) ==
    /\ pc[p] = "link"
    /\ \/ /\ PointsToChild(ib[p])
          /\ UNCHANGED pending
       \/ /\ ~PointsToChild(ib[p])
          /\ pending' = [pending EXCEPT ![p] = LinkWrite(p)]
    /\ Goto(p, "release")
    /\ UNCHANGED <<file, req, pos, cur, ib, rval, lock, added>>

WriteLink(p) ==
    /\ pc[p] = "link"
    /\ \/ /\ PointsToChild(ib[p])
          /\ Return(p, "ATTEMPT_TO_ORPHAN_BLOCK")
          /\ UNCHANGED pending
       \/ /\ ~PointsToChild(ib[p])
          /\ pending' = [pending EXCEPT ![p] = LinkWrite(p)]
          /\ Goto(p, "release")
          /\ UNCHANGED rval
    /\ UNCHANGED <<file, req, pos, cur, ib, lock, added>>

(***************************************************************************)
(* The caller is done: rnd_lock_area restores the file position, or        *)
(* blocks_file_close closes the stream, which writes out what is pending   *)
(* and ignores a failure to, and the lock goes.  The process remembers     *)
(* which link of which chain it was at.                                    *)
(***************************************************************************)
Release(p) ==
    /\ pc[p] = "release"
    /\ \/ Flush(p)
       \/ "release" \in FailingCalls /\ LoseWrite(p)
    /\ added' = added \cup
          (IF req[p].op # "walk" /\ rval[p] = "SUCCESS" THEN {NewBlock(p)} ELSE {})
    /\ FreeLocks(p)
    /\ Finish(p)
    /\ req' = [req EXCEPT ![p] = [NoRequest EXCEPT !.chain = req[p].chain]]
    /\ UNCHANGED cur

-----------------------------------------------------------------------------
(* Failures *)

(***************************************************************************)
(* A checked stdio call fails and the function returns RND_SYSTEM_ERROR,   *)
(* leaving in the file whatever the earlier calls did.                     *)
(***************************************************************************)
SystemError(p) ==
    /\ pc[p] \in CheckedCalls \cap FailingCalls
    /\ LoseWrite(p)
    /\ Return(p, "SYSTEM_ERROR")
    /\ UNCHANGED <<req, pos, cur, ib, lock, added>>

(* The file ends before the head that is to be read does. *)
ReadError(p) ==
    /\ pc[p] \in {"walk", "read"} /\ ShortRead(p)
    /\ Return(p, "SYSTEM_ERROR")
    /\ UNCHANGED <<file, pending, req, pos, cur, ib, lock, added>>

(***************************************************************************)
(* The process dies between two calls: what its stream held is gone and    *)
(* the kernel drops its locks.  It may open the file again.                *)
(***************************************************************************)
Crash(p) ==
    /\ pc[p] # "idle"
    /\ Finish(p)
    /\ pending' = [pending EXCEPT ![p] = NothingPending]
    /\ FreeLocks(p)
    /\ req' = [req EXCEPT ![p] = NoRequest]
    /\ cur' = [cur EXCEPT ![p] = 0]
    /\ UNCHANGED <<file, added>>

-----------------------------------------------------------------------------
(* The next call of a process inside an operation, and what it leads to. *)
Advance(p) ==
    \/ Tell(p) \/ Locate(p) \/ Grow(p) \/ Settle(p) \/ WriteHeader(p)
    \/ Restore(p) \/ Walk(p) \/ ReadLink(p) \/ WriteLink(p) \/ Release(p)
    \/ ReadError(p)

Step(p) == Advance(p) \/ SystemError(p)

Next ==
    \E p \in Proc :
        \/ \E op \in {"extend", "append"}, r \in Roots, t \in ChildTypes, s \in Sizes :
              Begin(p, op, r, t, s)
        \/ \E r \in Roots : BeginWalk(p, r)
        \/ Step(p)
        \/ Crash(p)

Spec == Init /\ [][Next]_vars

(***************************************************************************)
(* Adding a block needs more than the lock of a chain: the end of the file *)
(* is shared by all of them.  blocks_extend_file "makes no effort to       *)
(* ensure exclusive access", the calling function must (blocks.c:333);     *)
(* ExclusiveSpec is the system when it does.                               *)
(***************************************************************************)
ExclusiveAccess ==
    \A r, s \in Roots : lock[r] # NoProc /\ lock[s] # NoProc => r = s

ExclusiveSpec == Init /\ [][Next /\ ExclusiveAccess']_vars

(***************************************************************************)
(* A process that is inside a library function goes on executing it; that  *)
(* a call fails is never what brings an operation to its end.              *)
(***************************************************************************)
FairSpec == Spec /\ \A p \in Proc : WF_vars(Advance(p))

-----------------------------------------------------------------------------
(* Properties *)

Linked == {b \in DOMAIN head : PointsToChild(head[b])}

(***************************************************************************)
(* No two blocks of the file share a byte and every block lies inside the  *)
(* file, whatever operations failed or died half way: a block is placed at *)
(* the end of the file before it is known where that end is (blocks.c:405, *)
(* 353, 361).                                                              *)
(***************************************************************************)
BlocksDisjoint ==
    /\ \A b \in DOMAIN head : b + Extent(head[b]) <= size
    /\ \A a, b \in DOMAIN head : a < b => a + Extent(head[a]) <= b

(***************************************************************************)
(* Every block starts at a multiple of the chunk size, even after a block  *)
(* whose size was not one: blocks_extend_file then refuses to go on.       *)
(***************************************************************************)
BlocksAligned == \A b \in DOMAIN head : b % ChunkSize = 0

(***************************************************************************)
(* A link is only ever seen in the file when the block it leads to has its *)
(* head there, with the size the link says: the head is written out before *)
(* the link, so a reader without a lock, or a crash, never meets a link to *)
(* an unfinished block (blocks_append_block before blocks_extend_chain's   *)
(* update, or chains_add_link).                                            *)
(***************************************************************************)
LinkTargetsReady ==
    \A b \in Linked :
        LET next == head[b].next_block IN
        /\ next.offset \in DOMAIN head
        /\ head[next.offset].block_size = next.size

(***************************************************************************)
(* The links of the file form lists, one for each chain: a link leads      *)
(* forward in the file, never to a root, and no two links lead to the same *)
(* block.  chains_walk relies on it to come to an end.                     *)
(***************************************************************************)
LinksFormLists ==
    \A b \in Linked :
        /\ b < head[b].next_block.offset
        /\ head[b].next_block.offset \notin Roots
        /\ \A c \in Linked :
              head[c].next_block.offset = head[b].next_block.offset => c = b

(***************************************************************************)
(* A block that an operation reported as added, with RND_SUCCESS, is       *)
(* linked by some other block from then on.                                *)
(***************************************************************************)
AddedIsLinked == \A loc \in added : \E b \in DOMAIN head : head[b].next_block = loc

(***************************************************************************)
(* No step unlinks a block, links another in its place, or writes another  *)
(* block over one: blocks_block_points_to_child_test "to prevent orphaning *)
(* already linked/allocated block", although the caller's idea of the end  *)
(* of the chain may be out of date.                                        *)
(***************************************************************************)
LinksPersist ==
    [][\A b \in DOMAIN head :
          /\ b \in DOMAIN head'
          /\ head'[b].block_type = head[b].block_type
          /\ head'[b].block_size = head[b].block_size
          /\ PointsToChild(head[b]) => head'[b].next_block = head[b].next_block]_vars

(***************************************************************************)
(* The read of a head runs off the end of the file in one case only: a     *)
(* walk, which takes no lock and may follow a link at any moment of its    *)
(* making, has come to a last block that is shorter than the 72 bytes      *)
(* chains_walk reads at each link (chains.c:55), as the block of size 0    *)
(* is that flatrecs.c:114 asks for.  The walk then fails for good: the     *)
(* file does not end at a chunk, and no block can be added to it any       *)
(* more.  An operation that adds a block, and searches the last link or    *)
(* reads the link it changes, never comes to that.                         *)
(***************************************************************************)
ShortReadsAtEnd ==
    \A p \in Proc : pc[p] \in {"walk", "read"} /\ ShortRead(p) =>
        /\ req[p].op = "walk"
        /\ cur[p] \in DOMAIN head /\ Extent(head[cur[p]]) < SizeofHeadFile
        /\ size % ChunkSize # 0

(***************************************************************************)
(* The chain, table and file information in the first block of a chain is  *)
(* not changed by extending the chain: blocks_write_block_head "uses the   *)
(* smaller of that value or block_len as the write length".                *)
(***************************************************************************)
InfoKept == \A b \in DOMAIN head : head[b].info # "clobbered"

(***************************************************************************)
(* An operation that holds the lock of its chain comes to an end, failed   *)
(* calls or not; in particular its search for the last link does.          *)
(***************************************************************************)
Termination ==
    \A p \in Proc : (pc[p] # "idle" /\ req[p].op # "walk") ~> pc[p] = "idle"

-----------------------------------------------------------------------------
(* The abstract specification *)

(* The blocks that follow the one at offset o. *)
PathFrom[o \in DOMAIN head] ==
    IF PointsToChild(head[o])
    THEN <<head[o].next_block>> \o PathFrom[head[o].next_block.offset]
    ELSE << >>

ChainOf(r) == <<[offset |-> r, size |-> head[r].block_size]>> \o PathFrom[r]

(***************************************************************************)
(* A chain is only changed by the process that holds its lock, although    *)
(* the functions that change it are not told which lock that is: they are  *)
(* given a link, which the caller may have found many operations ago       *)
(* ("locks and links must be made by calling functions", blocks.c:381).    *)
(***************************************************************************)
ChangedByLockHolder ==
    [][\A r \in Roots : ChainOf(r)' # ChainOf(r) =>
          \E p \in Proc : lock[r] = p /\ pc'[p] # pc[p]]_vars

Lists == [r \in Roots |-> ChainOf(r)]

Offsets == {o \in 0 .. MaxFile : o % ChunkSize = 0}

AbstractChains == INSTANCE Chains WITH chain <- Lists, RootSize <- ChunkSize

(***************************************************************************)
(* The block layer implements append-only lists of disjoint blocks: each   *)
(* of its steps, a crash included, adds one block at the end of one chain  *)
(* or changes no chain.                                                    *)
(***************************************************************************)
ImplementsChains == AbstractChains!Spec
=============================================================================
