------------------------------ MODULE FlatRecs ------------------------------
(***************************************************************************)
(* Flat records: flatrecs.c at work on the table at offset 0, whose        *)
(* records lie in the blocks of a chain, one after the other.              *)
(*                                                                         *)
(* A process locks the head of the table and gets a copy of it, finds the  *)
(* place of the next record by walking the chain, making blocks when there *)
(* are none left to walk to, and leaves the rest to a function of its      *)
(* user, which may ask for the places of other records                     *)
(* (test_flatrecs.c:52).  If the user has changed the copy, it is written  *)
(* back under the lock.                                                    *)
(*                                                                         *)
(* One action is one turn of the loop.  rnd_lock_area's two ends and       *)
(* blocks_extend_chain are parts of actions: Locks and Blocks show what    *)
(* they are made of.                                                       *)
(***************************************************************************)
EXTENDS Integers

CONSTANTS
    Proc,          \* processes that have the file open
    NoProc,        \* no process: the table is not locked
    Word,          \* how many values a uint32_t has
    ChunkSize,     \* fhead.chunk_size
    RecSize,       \* the rec_size the table was made with
    InitialHead,   \* by offset, the heads of the blocks the table starts with
    InitialFirst,  \* by offset, their first records' numbers
    InitialSize,   \* bytes in the file at the start
    Garbage,       \* INFO_TABLEs that the bytes beyond a buffer may look like
    Asked,         \* record numbers that users ask for in their function
    MaxRecno,      \* bound: no record is added beyond this number
    FileLimit,     \* size the file cannot grow beyond: the disk is full
    FailingCalls   \* the calls that may fail

SizeofHeadBlock == 32

(***************************************************************************)
(* The calls whose failure the loop is told of, and the one it is not: the *)
(* fseek that writes the head of a new block (blocks.c:439).               *)
(***************************************************************************)
CheckedCalls == {"next", "append", "link", "reread", "write"}
Calls        == CheckedCalls \cup {"restore"}

InfoBlock == [bytes_to_data : Nat, block_size : Nat, next_block : Nat]
InfoTable == [rec_size : Nat, last_recno : Nat]

ASSUME FlatRecsAssumption ==
    /\ NoProc \notin Proc
    /\ Word \in Nat /\ Word > 0 /\ RecSize \in Nat
    /\ ChunkSize \in Nat /\ ChunkSize > 0
    /\ InitialSize \in Nat /\ DOMAIN InitialHead \subseteq 0 .. InitialSize - 1
    /\ InitialHead \in [DOMAIN InitialHead -> InfoBlock] /\ 0 \in DOMAIN InitialHead
    /\ \A o \in DOMAIN InitialHead : InitialHead[o].next_block \in DOMAIN InitialHead
    /\ Garbage \subseteq InfoTable /\ Garbage # {}
    /\ Asked \subseteq 1 .. Word - 1
    /\ MaxRecno \in Nat /\ MaxRecno < Word - 1
    /\ FileLimit \in Nat
    /\ FailingCalls \subseteq Calls

VARIABLES
    size,    \* bytes in the file
    head,    \* by offset, what is read as the INFO_BLOCK of each block: zeros
             \* if its head was lost
    first_recno,  \* history: by offset, the number of the first record of each
                  \* block of the chain: the code has a field for it (blocks.h:31),
                  \* which nothing sets
    thead,   \* the INFO_TABLE in the file
    lock,    \* the process that holds the lock of the table's head
    pc,      \* per process: where it is
    var,     \* per process: its local variables
    stored   \* history: the records that were added, with their offsets

vars == <<size, head, first_recno, thead, lock, pc, var, stored>>

Block(bytes_to_data, block_size, next_block) ==
    [bytes_to_data |-> bytes_to_data, block_size |-> block_size,
     next_block |-> next_block]

(* What is read where a head should be and was lost. *)
NoHead == Block(0, 0, 0)

RND_ERROR == {"SUCCESS", "FAIL", "SYSTEM_ERROR", "INVALID_BLOCK_LOCATION",
              "ATTEMPT_TO_ORPHAN_BLOCK"}

NoOffset == -1

(***************************************************************************)
(* bhead and thead are htable, the copy of the table's head; clean is      *)
(* history: no extension has failed in this call.                          *)
(***************************************************************************)
Locals == [bhead : InfoBlock, thead : InfoTable, offset_new_record : Int,
           recno : Nat, start_rec : Nat, iblock : InfoBlock,
           iblock_offset : Nat, rval : RND_ERROR, clean : BOOLEAN]

(* The locals as flatrecs_make_offset_to_recno starts its loop with them. *)
Start(bhead, table, offset_new_record, recno) ==
    [bhead |-> bhead, thead |-> table, offset_new_record |-> offset_new_record,
     recno |-> recno, start_rec |-> 1, iblock |-> bhead, iblock_offset |-> 0,
     rval |-> "FAIL", clean |-> TRUE]

NoLocals == Start(NoHead, [rec_size |-> 0, last_recno |-> 0], NoOffset, 0)

TypeOK ==
    /\ size \in Nat
    /\ DOMAIN head \subseteq Nat /\ head \in [DOMAIN head -> InfoBlock]
    /\ DOMAIN first_recno \subseteq DOMAIN head
    /\ first_recno \in [DOMAIN first_recno -> Nat]
    /\ thead \in InfoTable
    /\ lock \in Proc \cup {NoProc}
    /\ pc \in [Proc -> {"idle", "loop", "user", "write"}]
    /\ var \in [Proc -> Locals]
    /\ stored \subseteq [recno : Nat, offset : Int]

-----------------------------------------------------------------------------
(* Arithmetic, in unsigned 32-bit numbers *)

flatrecs_full_recsize(htable) == (htable.rec_size + 1) % Word

flatrecs_get_record_capacity(htable, hblock) ==
    LET bytes_capacity == (hblock.block_size - hblock.bytes_to_data) % Word
        recsize        == flatrecs_full_recsize(htable)
    IN  IF recsize > 0 THEN bytes_capacity \div recsize ELSE Word - 1

(* The number of the record after the last one in a block of this table. *)
RecnoAfter(first, hblock) ==
    first + flatrecs_get_record_capacity([rec_size |-> RecSize], hblock)

(***************************************************************************)
(* The initial chain is a list that leads forward in the file, and its     *)
(* blocks are numbered one after the other.                                *)
(***************************************************************************)
ASSUME FirstAssumption ==
    /\ DOMAIN InitialFirst \subseteq DOMAIN InitialHead
    /\ InitialFirst \in [DOMAIN InitialFirst -> Nat]
    /\ 0 \in DOMAIN InitialFirst /\ InitialFirst[0] = 1
    /\ \A o \in DOMAIN InitialFirst :
          LET next == InitialHead[o].next_block
          IN  next # 0 => /\ next \in DOMAIN InitialFirst /\ next > o
                          /\ InitialFirst[next] = RecnoAfter(InitialFirst[o], InitialHead[o])
    /\ \A a, b \in DOMAIN InitialFirst :
          InitialHead[a].next_block = 0 /\ InitialHead[b].next_block = 0 => a = b

NewRecno(htable) == (htable.last_recno + 1) % Word

RecCapacity(v) == flatrecs_get_record_capacity(v.thead, v.iblock)

LocalIndex(v) == (v.recno - v.start_rec) % Word

(* The record is not in the block the loop is at. *)
Beyond_Early(v) == LocalIndex(v) + 1 >= RecCapacity(v)  \* mutated: off by one
Beyond(v) == LocalIndex(v) >= RecCapacity(v)

NextStart_Extra(v) == (v.start_rec + RecCapacity(v) + 1) % Word  \* mutated: off by one
NextStart_Same(v) == v.start_rec  \* mutated: start_rec is not advanced
NextStart(v) == (v.start_rec + RecCapacity(v)) % Word

(* The size of the block that is made for a record beyond the chain. *)
NewBlockSize(v) ==
    LET new_bytes_needed == (flatrecs_full_recsize(v.thead)
                               * (v.recno - NextStart(v))) % Word
        chunks_to_add    == (new_bytes_needed + ChunkSize - 1) \div ChunkSize
    IN  (chunks_to_add * ChunkSize) % Word

(* The offset is relative to the table, whichever block the record is in. *)
RecordOffset(v) ==
    v.iblock.bytes_to_data
        + ((LocalIndex(v) * flatrecs_full_recsize(v.thead)) % Word)

-----------------------------------------------------------------------------
Init ==
    /\ size = InitialSize
    /\ head = InitialHead
    /\ first_recno = InitialFirst
    /\ thead = [rec_size |-> RecSize, last_recno |-> 0]
    /\ lock = NoProc
    /\ pc = [p \in Proc |-> "idle"]
    /\ var = [p \in Proc |-> NoLocals]
    /\ stored = {}

Goto(p, label) == pc' = [pc EXCEPT ![p] = label]

(* flatrecs_get_next_offset returns, and rnd_lock_area has unlocked. *)
Leave(p) ==
    /\ lock' = NoProc
    /\ Goto(p, "idle")
    /\ var' = [var EXCEPT ![p] = NoLocals]

(***************************************************************************)
(* flatrecs_make_offset_to_recno returns an error: the callback gives up   *)
(* if it was looking for the new record, a user's function goes on.        *)
(***************************************************************************)
Abandon(p) ==
    IF var[p].offset_new_record = NoOffset THEN Leave(p)
    ELSE Goto(p, "user") /\ UNCHANGED <<lock, var>>

(* fcntl(F_SETLK) on the head does not wait: it fails if another has the lock. *)
TableFree_Always == TRUE  \* mutated: no lock is taken
TableFree == lock = NoProc

GetNextOffset(p) ==
    /\ pc[p] = "idle" /\ TableFree
    /\ lock' = p
    /\ var' = [var EXCEPT ![p] = Start(head[0], thead, NoOffset, NewRecno(thead))]
    /\ Goto(p, "loop")
    /\ UNCHANGED <<size, head, first_recno, thead, stored>>

-----------------------------------------------------------------------------
(* A turn of the loop: the record is in this block. *)
Found(p) ==
    /\ pc[p] = "loop" /\ ~Beyond(var[p])
    /\ var' = [var EXCEPT ![p].rval = "SUCCESS",
                          ![p].offset_new_record =
                              IF @ = NoOffset THEN RecordOffset(var[p]) ELSE @]
    /\ Goto(p, "user")
    /\ UNCHANGED <<size, head, first_recno, thead, lock, stored>>

(* The locals when the head of the next block has been read. *)
AtNext_KeepsOffset(v) ==  \* mutated: nextblock_offset is not set
    [v EXCEPT !.start_rec = NextStart(v), !.iblock = head[@.next_block]]
AtNext_InPlace(v) ==  \* mutated: reads into *iblock, which is htable at first
    [v EXCEPT !.start_rec = NextStart(v), !.iblock = head[@.next_block],
              !.bhead = head[v.iblock.next_block],
              !.iblock_offset = v.iblock.next_block]
AtNext(v) ==
    [v EXCEPT !.start_rec = NextStart(v), !.rval = "SUCCESS",
              !.iblock = head[@.next_block], !.iblock_offset = v.iblock.next_block]

(* The file ends before the head at offset o does. *)
ShortRead(o) == size < o + SizeofHeadBlock

(* It is not, and there is a next block, whose head is read or cannot be. *)
NextBlock(p) ==
    LET next == var[p].iblock.next_block
    IN  /\ pc[p] = "loop" /\ Beyond(var[p]) /\ next # 0
        /\ \/ /\ ~ShortRead(next)
              /\ var' = [var EXCEPT ![p] = AtNext(@)] /\ UNCHANGED <<lock, pc>>
           \/ (ShortRead(next) \/ "next" \in FailingCalls) /\ Abandon(p)
        /\ UNCHANGED <<size, head, first_recno, thead, stored>>

(* It is not, and this is the last block. *)
AtEnd(p) == pc[p] = "loop" /\ Beyond(var[p]) /\ var[p].iblock.next_block = 0

(***************************************************************************)
(* blocks_extend_chain has failed.  The loop takes no notice: it goes on   *)
(* with the same block as if that were the next one.                       *)
(***************************************************************************)
Retry(p, err) ==
    /\ var' = [var EXCEPT ![p].start_rec = NextStart(var[p]),
                          ![p].rval = err, ![p].clean = FALSE]
    /\ UNCHANGED <<lock, pc>>

(* The bytes that a block of s bytes takes when it has its head. *)
Extent(s) == IF s > SizeofHeadBlock THEN s ELSE SizeofHeadBlock

(***************************************************************************)
(* What may be read as the head of a block of s bytes at the end of the    *)
(* file: the head, or nothing, because the fseek that writes it fails and  *)
(* nobody looks.  A block of size 0 has not lengthened the file before, so *)
(* that its head is also lost if the disk is full.                         *)
(***************************************************************************)
NewHeads(s) ==
    LET fits == size + Extent(s) <= FileLimit
    IN  {b \in {Block(SizeofHeadBlock, s, 0), NoHead} :
            IF b = NoHead THEN ~fits \/ "restore" \in FailingCalls ELSE fits}

(* The file with that block at its end. *)
SizeWith(s, b) == size + (IF b = NoHead THEN s ELSE Extent(s))

HeadWith(b) ==
    [o \in DOMAIN head \cup {size} |-> IF o = size THEN b ELSE head[o]]

HeadLinked(b, parent) == [HeadWith(b) EXCEPT ![parent].next_block = size]

FirstLinked(parent) ==
    [o \in DOMAIN first_recno \cup {size} |->
        IF o = size THEN RecnoAfter(first_recno[parent], head[parent])
        ELSE first_recno[o]]

CanAppend(p) ==
    size % ChunkSize = 0 /\ size + NewBlockSize(var[p]) <= FileLimit

(* The block is not appended; a failing call may have lengthened the file. *)
AppendFails(p) ==
    /\ AtEnd(p)
    /\ \/ size % ChunkSize # 0 /\ Retry(p, "INVALID_BLOCK_LOCATION") /\ UNCHANGED size
       \/ ~CanAppend(p) /\ size % ChunkSize = 0 /\ Retry(p, "SYSTEM_ERROR")
          /\ UNCHANGED size
       \/ /\ CanAppend(p) /\ "append" \in FailingCalls
          /\ Retry(p, "SYSTEM_ERROR")
          /\ size' \in {size, size + NewBlockSize(var[p])}
    /\ UNCHANGED <<head, first_recno, thead, stored>>

(***************************************************************************)
(* The block is appended, but the chain does not lead to it: the link it   *)
(* should hang on, which the loop has read before, has a child, or cannot  *)
(* be read or written.                                                     *)
(***************************************************************************)
LinkFails(p) ==
    LET orphan == head[var[p].iblock_offset].next_block # 0
        s      == NewBlockSize(var[p])
    IN  /\ AtEnd(p) /\ CanAppend(p)
        /\ orphan \/ "link" \in FailingCalls
        /\ Retry(p, IF orphan THEN "ATTEMPT_TO_ORPHAN_BLOCK" ELSE "SYSTEM_ERROR")
        /\ \E b \in NewHeads(s) : size' = SizeWith(s, b) /\ head' = HeadWith(b)
        /\ UNCHANGED <<first_recno, thead, stored>>

(* For a link in the table's first block 64 bytes are written out of 32. *)
WriteLink(b, parent) ==
    /\ head' = HeadLinked(b, parent)
    /\ first_recno' = FirstLinked(parent)
    /\ thead' \in (IF parent = 0 THEN Garbage ELSE {thead})

(***************************************************************************)
(* The block is appended and linked, and the loop goes on with what it     *)
(* reads back as its head.  If that fails, the link, still in the stream,  *)
(* may be lost as well; it also fails, with the link made, if the file     *)
(* ends before the head does.                                              *)
(***************************************************************************)
Extend(p) ==
    LET parent == var[p].iblock_offset
        s      == NewBlockSize(var[p])
    IN  /\ AtEnd(p) /\ CanAppend(p) /\ head[parent].next_block = 0
        /\ \E b \in NewHeads(s) :
              LET short == SizeWith(s, b) < size + SizeofHeadBlock
              IN  /\ size' = SizeWith(s, b)
                  /\ \/ /\ ~short
                        /\ WriteLink(b, parent)
                        /\ var' = [var EXCEPT ![p].start_rec = NextStart(var[p]),
                                              ![p].iblock = b,
                                              ![p].iblock_offset = size,
                                              ![p].rval = "SUCCESS"]
                        /\ UNCHANGED <<lock, pc>>
                     \/ /\ short \/ "reread" \in FailingCalls
                        /\ \/ WriteLink(b, parent)
                           \/ /\ "reread" \in FailingCalls
                              /\ head' = HeadWith(b)
                              /\ UNCHANGED <<first_recno, thead>>
                        /\ Abandon(p)
        /\ UNCHANGED stored

-----------------------------------------------------------------------------
(* The user's function asks for another record's place, from the copy. *)
UserAsks(p, r) ==
    /\ pc[p] = "user"
    /\ var' = [var EXCEPT ![p] = Start(@.bhead, @.thead, @.offset_new_record, r)]
    /\ Goto(p, "loop")
    /\ UNCHANGED <<size, head, first_recno, thead, lock, stored>>

(* It returns 0. *)
UserDeclines(p) ==
    /\ pc[p] = "user"
    /\ Leave(p)
    /\ UNCHANGED <<size, head, first_recno, thead, stored>>

(* It has written the record, and counts it in the copy. *)
UserStores(p) ==
    /\ pc[p] = "user" /\ var[p].thead.last_recno < MaxRecno
    /\ var' = [var EXCEPT ![p].thead.last_recno = NewRecno(var[p].thead)]
    /\ Goto(p, "write")
    /\ UNCHANGED <<size, head, first_recno, thead, lock, stored>>

(* rnd_lock_area writes the copy back, its next_block too. *)
WriteBack(p) ==
    /\ pc[p] = "write"
    /\ \/ /\ head' = [head EXCEPT ![0] = var[p].bhead]
          /\ thead' = var[p].thead
          /\ stored' = stored \cup {[recno  |-> var[p].thead.last_recno,
                                     offset |-> var[p].offset_new_record]}
       \/ "write" \in FailingCalls /\ UNCHANGED <<head, thead, stored>>
    /\ Leave(p)
    /\ UNCHANGED <<size, first_recno>>

(* The process dies, and its lock goes. *)
Crash(p) ==
    /\ pc[p] # "idle"
    /\ Leave(p)
    /\ UNCHANGED <<size, head, first_recno, thead, stored>>

Turn(p) == Found(p) \/ NextBlock(p) \/ AppendFails(p) \/ LinkFails(p) \/ Extend(p)

Next ==
    \E p \in Proc :
        \/ GetNextOffset(p)
        \/ Turn(p)
        \/ \E r \in Asked : UserAsks(p, r)
        \/ UserDeclines(p) \/ UserStores(p)
        \/ WriteBack(p)
        \/ Crash(p)

Spec == Init /\ [][Next]_vars

(* A process in the loop goes on executing it. *)
FairSpec == Spec /\ \A p \in Proc : WF_vars(Turn(p))

-----------------------------------------------------------------------------
(***************************************************************************)
(* The loop never passes the record it is looking for: recno - start_rec,  *)
(* an unsigned difference, does not wrap (flatrecs.c:79), whatever fails   *)
(* and whatever blocks have been made.                                     *)
(***************************************************************************)
StartNeverPasses ==
    \A p \in Proc : pc[p] = "loop" => var[p].start_rec \in 1 .. var[p].recno

(***************************************************************************)
(* start_rec is the first record of the block the loop is at: it has       *)
(* counted the room of the blocks before, those made in this call and in   *)
(* others included (flatrecs.c:98, 133).  Not so once an extension failed. *)
(***************************************************************************)
CountsCapacities ==
    \A p \in Proc : pc[p] = "loop" /\ var[p].clean =>
        var[p].start_rec = first_recno[var[p].iblock_offset]

(***************************************************************************)
(* The chain is extended only for a record that it has no room for: no     *)
(* process extends it in vain, for a record it miscounted, or because it   *)
(* did not see a block another had added (flatrecs.c:81-122).              *)
(***************************************************************************)
ExtendsOnlyBeyond ==
    [][\A p \in Proc, o \in DOMAIN head :
        pc[p] = "loop" /\ head[o].next_block = 0 /\ head'[o].next_block # 0 =>
            var[p].recno >= RecnoAfter(first_recno[o], head[o])]_vars

(***************************************************************************)
(* Every turn of the loop that does not leave it passes by at least one    *)
(* more record, a turn in which an extension failed too, and no other      *)
(* process interferes (flatrecs.c:98, 133).  The one exception is a block  *)
(* whose head was lost (blocks.c:439), which has room for no record: the   *)
(* loop goes on to a block further on, or, if that block is the last one   *)
(* and extending it failed, is where it was before.  With StartNeverPasses *)
(* the turns are no more than recno and the blocks without a head.         *)
(***************************************************************************)
HeadLost(block) == block.block_size = 0 /\ block.bytes_to_data = 0

TurnsAdvance ==
    [][\A p \in Proc : pc[p] = "loop" /\ pc'[p] = "loop" =>
          /\ var'[p].recno = var[p].recno
          /\ \/ var'[p].start_rec > var[p].start_rec
             \/ /\ HeadLost(var[p].iblock)
                /\ var'[p].start_rec = var[p].start_rec
                /\ \/ var'[p].iblock_offset > var[p].iblock_offset
                   \/ var[p].iblock = NoHead /\ var'[p].iblock = NoHead]_vars

LinksStay ==
    \A o \in DOMAIN head : /\ o \in DOMAIN head'
                           /\ head[o].next_block # 0 => head'[o] = head[o]

(***************************************************************************)
(* A block that has been linked to the chain stays linked, and its head is *)
(* not written again (blocks.c:462, locks.c:78).                           *)
(***************************************************************************)
ChainKept == [][LinksStay]_vars

(***************************************************************************)
(* The inductive invariant: links lead to blocks of the chain, whether     *)
(* their heads are in the file or lost, the lock belongs to the one        *)
(* process that is not idle, which is at a block it has read, and, for a   *)
(* table that starts with two blocks or more, the copies of heads stay     *)
(* what the file holds, the chain is a list, and start_rec counts at least *)
(* the records of the blocks it has passed.                                *)
(***************************************************************************)
WellFormed ==
    /\ 0 < size /\ 0 \in DOMAIN first_recno
    /\ \A o \in DOMAIN head : o < size \/ (o = size /\ head[o].next_block = 0)
    /\ \A o \in DOMAIN first_recno : head[o].next_block \in DOMAIN first_recno

LockInv ==
    \A p \in Proc : pc[p] = "idle" \/
        /\ lock = p
        /\ {var[p].bhead.next_block, var[p].iblock.next_block, var[p].iblock_offset}
               \subseteq DOMAIN first_recno
        /\ var[p].iblock_offset < size

Copied(p) ==
    /\ var[p].bhead = head[0]
    /\ pc[p] = "loop" => var[p].iblock = head[var[p].iblock_offset]
    /\ var[p].recno < Word
    /\ pc[p] \in {"loop", "user"} => var[p].thead = thead
    /\ pc[p] = "write" => /\ var[p].thead = [thead EXCEPT !.last_recno = @ + 1]
                          /\ thead.last_recno < MaxRecno

CopyInv ==
    /\ head[0].next_block # 0
    /\ thead.last_recno <= MaxRecno /\ thead.rec_size = RecSize
    /\ \A p \in Proc : pc[p] = "idle" \/ Copied(p)

(* The blocks of the chain are numbered one after the other. *)
ChainNumbered ==
    /\ first_recno[0] = 1
    /\ \A o \in DOMAIN first_recno :
          LET next == head[o].next_block
          IN  next # 0 => first_recno[next] = RecnoAfter(first_recno[o], head[o])

(* They lead forward, and one of them only has no link. *)
ChainIsList ==
    /\ \A o \in DOMAIN first_recno :
          head[o].next_block = 0 \/ head[o].next_block > o
    /\ \A a, b \in DOMAIN first_recno :
          head[a].next_block = 0 /\ head[b].next_block = 0 => a = b

Counted(p) ==
    LET first == first_recno[var[p].iblock_offset]
    IN  var[p].start_rec >= first /\ (var[p].clean => var[p].start_rec = first)

CountInv == \A p \in Proc : pc[p] = "loop" => Counted(p)

TypeInv == TypeOK /\ WellFormed /\ LockInv
CopiedInv == TypeInv /\ CopyInv /\ StartNeverPasses
IInv == CopiedInv /\ ChainIsList /\ ChainNumbered /\ CountInv

(***************************************************************************)
(* Record numbers are given one after the other, each to one record,       *)
(* whoever fails, dies or lets a number go unused (flatrecs.c:175).        *)
(***************************************************************************)
Numbers == INSTANCE RecNumbers WITH last <- thead.last_recno,
                                    taken <- {s.recno : s \in stored}
ImplementsRecNumbers == Numbers!Spec

(***************************************************************************)
(* The loop ends: it finds the record or gives up (flatrecs.c:74-140), if  *)
(* a block of one chunk has room for a record; or it comes to a last block *)
(* whose head was lost.  There it may go round for ever, with the lock,    *)
(* for start_rec does not advance and a failed extension is tried again.   *)
(***************************************************************************)
LoopEnds ==
    \A p \in Proc : pc[p] = "loop" ~> pc[p] # "loop" \/ var[p].iblock = NoHead

(***************************************************************************)
(* Records that were added do not overlap (flatrecs.c:50: "file offset to  *)
(* requested record number").                                              *)
(***************************************************************************)
RecordsApart ==
    \A a, b \in stored :
        a.recno < b.recno => \/ a.offset + RecSize + 1 <= b.offset
                            \/ b.offset + RecSize + 1 <= a.offset
=============================================================================
