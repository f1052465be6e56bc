# A TLA+ specification of RecNoDB

RecNoDB keeps records in one file and finds a record by its number, the
*recno*. The file is a heap of *blocks*; the blocks of a table form a *chain*,
each block's head holding the offset of the next one. Any number of processes
may have the file open, each through a stdio stream of its own; `fcntl` record
locks are the only thing that keeps them apart.

This directory specifies the parts of the library that keep that file in order,
model-checks them with TLC on small instances, and proves the results that
matter most, for every value of the constants, with TLAPS.

## The system

| Component | State it keeps | Operations | What makes it correct |
|---|---|---|---|
| Block layer (`blocks.c`, `blocks.h`) | the file: its size, the block heads, the links; the stream's position and buffer | append, extend a chain, read and write heads, compute head lengths, validate, open and close | blocks never overlap and stay aligned; a link leads to a finished block; a linked block stays linked, and its head keeps what it says |
| Chains (`chains.c`) | none of its own, the links in the heads | walk, find the last link, add a link | a chain is a list that only grows at its end; a walk ends |
| Area locks (`locks.c`) | the `fcntl` lock; a copy of the locked area during the callback | lock an area, hand its content to a callback, write it back, unlock | updates of an area are atomic and are not lost; no way out leaves a lock behind |
| Flat records (`flatrecs.c`) | `last_recno` in the head of a table | capacity of a block, offset of a record (making blocks as needed), offset of the next new record | distinct records get distinct slots inside blocks; the loop over the blocks ends; a new record number is given once |
| Handle (`recnodb.c`, the end of `blocks.c`) | `file`, `head_file`, `sys_errno` | open, create, validate, close | the handle is usable exactly when opening succeeded; no stream is leaked, and none closed twice |
| Record API (`rnd_put`, `rnd_get`, `rnd_delete`) | none | stubs that return `RND_SUCCESS` | nothing to state |
| Helpers (`extra.c`, `inlines.h`, `table.h`) | none | error strings, `prime_handle`, `get_blocksize` | |

How they interact. `flatrecs_get_next_offset` calls `rnd_lock_area` on the head
of the table; its callback, under that lock, computes the offset of the new
record and may call `blocks_extend_chain`, which appends a block at the end of
the file and then links it; finally `rnd_lock_area` writes back the copy of the
head that the user's function has changed. `test_blocks.c` adds blocks in
another way: `blocks_append_block`, `chains_last_link`, `chains_add_link`.
`chains_walk` reads without a lock. All of it goes through `fseek`, `fread` and
`fwrite` on a stream whose buffer knows nothing of locks: data written by
`fwrite` reach the file at the next `fseek` (often the one that "restores the
file position", whose result nobody looks at), and data read may come from the
buffer.

What is hard about it:

- *Interleaving.* A block is placed by looking up the end of the file three
  times, and the lock held meanwhile is the lock of one chain.
- *Ordering.* The head of a block has to be in the file before the link to it,
  and a locked area before its lock goes, although both are buffered.
- *Partial failure and crashes.* Every stdio call may fail; a process may die
  between the append and the link, or with a lock and an unwritten buffer.
- *Stale state.* The caller's idea of the last link, the stream's idea of the
  file, the copy of the table head made before the callback.
- *Numeric edges.* Blocks of size 0, sizes that are not multiples of the chunk
  size, heads of three lengths, 32-bit arithmetic on record numbers.

`PROJECT.json` lists these hazards at their lines, with the properties that
would catch them.

## Modules

| Module | What it is |
|---|---|
| `BlockLayout` | types of blocks, their heads and lengths, and the pure functions on heads (`blocks_bytes_to_data`, `blocks_set_info_block`, `blocks_prep_head_file`, the write length, the test for a child, the two ways to set a link) |
| `Chains` | abstract: every chain is a list that grows by blocks beyond all others |
| `Blocks` | `blocks.c` and `chains.c` at work on one file, one action per stdio call |
| `BlocksInvariant` | the inductive invariants of `Blocks` with exclusive access: `IInv`, and `LostInv` for when heads may be lost |
| `BlocksProofs` | the theorems about `Blocks` when the heads of new blocks are written |
| `LostHeadsProofs` | the theorems about `Blocks` when they may be lost |
| `ChainsProofs` | the theorems about chains as lists: that `Blocks` implements `Chains`, and who changes a chain |
| `MCBlocks` | instances of `Blocks` for TLC |
| `Areas` | abstract: atomic updates of areas of the file |
| `Locks` | `rnd_lock_area`, one action per system or stdio call, with its inductive invariant |
| `LocksProofs` | the theorems about `Locks` |
| `MCLocks` | instances of `Locks` for TLC |
| `RecNumbers` | abstract: record numbers are given one after the other, each once |
| `FlatRecs` | `flatrecs.c` in several processes, with the lock, the callback and the write-back of the table's head |
| `FlatRecsProofs` | the theorems about `FlatRecs` |
| `MCFlatRecs` | instances of `FlatRecs` for TLC |
| `Handle` | opening, creating, using and closing a file, one action per stdio call |
| `HandleProofs` | the theorems about `Handle` |
| `MCHandle` | an instance of `Handle` for TLC |

`Blocks` uses `BlockLayout` and implements `Chains`; `Locks` implements `Areas`;
`FlatRecs`, in which `blocks_extend_chain` and the two ends of `rnd_lock_area`
are parts of actions, implements `RecNumbers`.

### Blocks

`size` and `head` are the file: its length and, by offset, the heads written to
it. `pending` is what a process's stream holds and has not written out; `pc`
names the stdio call that comes next; `pos`, `cur`, `ib` and `rval` are the
local variables of the functions (`new_block_position`, the link a process is
at, the head it read, the return value). `lock` is the lock of a chain's first
block, and `added` remembers which blocks were reported as added.

A process runs one of three operations that callers of the library perform:
`"extend"` (`blocks_extend_chain` under the chain's lock, as `flatrecs.c` does
it), `"append"` (the sequence of `test_blocks.c`, under the lock that the library asks of
its callers and the test does not take) and
`"walk"` (`chains_walk`, no lock). An operation is a sequence of actions:

- `Tell`, `Locate`, `Grow`, `Settle`: `blocks_append_block` looks up the end of
  the file; `blocks_extend_file` looks it up again, checks that it is aligned,
  seeks `size - 1` beyond it and writes one byte.
- `WriteHeader`, `Restore`: the new head goes into the stream, and to the file
  when the file position is restored.
- `Walk`, `ReadLink`, `WriteLink`: find the last link (when appending; an
  extension takes any link the caller names, as `chain_end` may be out of
  date), read it, refuse to orphan a child, write the link.
- `Release`: the stream is emptied and the lock given back.
- `SystemError`, `ReadError`: any of these calls fails and the function
  returns. `Restore` and `Release` may fail too, unnoticed.
- `Crash`: the process dies; its lock goes, and so does what its stream held.

Abstractions. Payload bytes are not modelled, heads are; what a stream reads in
the place of a head nobody wrote is zeros. A failed write loses the data
(both glibc and musl drop it). The reads of heads in this module go to the
file: the append just before has emptied the stream's buffer, and stale reads
under a lock are the business of `Locks`. Blocks asked for are of type
`GENERIC` or `DATA`, the only types a caller in the source asks for; `FILE` and
`TABLE` heads occur as first blocks.

### Locks

The file is cut into cells, areas are sets of cells and may overlap. What a
cell holds is the set of updates that went into it, and a callback adds its
update to what it found in the buffer: a lost or torn update shows as a missing
element. `owner` gives the process whose record lock covers a cell. `buffer` is
the local array of `rnd_lock_area`, `pending` says that it is in the stream and
not in the file, and `seen` is what the stream last saw of the file, from which
`fread` may be answered when `Rereads` contains `FALSE`.

`Lock` and `LockFails` are the first `fcntl`; `Seek` and `Read` the retrieval;
`CallbackReads` and `CallbackWrites` the callback's two answers; `Write` the
`fseek` and `fwrite` of the buffer; `Restore` the last `fseek`, which is what
writes to the file; `Unlock` the second `fcntl` and the return. `Reopen` closes
and opens the file between operations, and `Crash` kills a process inside one.
An area is taken to be shorter than the stream's buffer, so that `fwrite` only
copies; the areas the library locks are heads of at most 72 bytes. Callbacks
work on the buffer only; `FlatRecs` has the one that uses the file as well.

### FlatRecs

`size`, `head` and `thead` are the file: its length, the `INFO_BLOCK`s by offset
and the `INFO_TABLE` of the table at offset 0. `lock` is the lock of the table's
head. `var[p]` holds the locals of `flatrecs_make_offset_to_recno` and, as
`bhead` and `thead`, the copy of the head that `rnd_lock_area` made; `clean`,
`first_recno` and `stored` are history.

`GetNextOffset` takes the lock, copies the head and starts the loop for the
record `last_recno + 1`. One action is one turn of the loop: `Found`,
`NextBlock`, or, at the end of the chain, `Extend` and its failures
`AppendFails` and `LinkFails`, after which the loop goes on as the code does,
with `start_rec` advanced and the same block. The user's function may ask for
other records (`UserAsks`, the callback of `test_flatrecs.c`), return 0
(`UserDeclines`), or store the record, count it and return 1 (`UserStores`);
`WriteBack` then writes the copy and unlocks. `Crash` kills a process anywhere.

A new block has its head, or it has none: the `fseek` that writes it is the one
call whose failure nobody is told of (`blocks.c:439`, `"restore"` in
`FailingCalls`). The block is then linked all the same, and what is read back as
its head are zeros (`NoHead`), with room for no record. `NewHeads` gives the
choice; for a block of size 0, which lengthens the file only by its head, a full
disk makes it too. If such a block ends the file before the 32 bytes of its head
do, reading it back fails (`ShortRead`).

Arithmetic is that of `uint32_t`, with the number of its values as the constant
`Word`. `Garbage` is what the bytes beyond the 32-byte buffer look like that
`blocks_extend_chain` writes over 64 bytes when the link is in the table's first
block. `AppendFails` and `LinkFails` keep what `Blocks` shows about a failure:
the file may be longer, a block may be left that no link leads to, with its head
or without.

Abstractions. One table, at offset 0, the default one of the file; what other
tables do to the end of the file is the subject of `overlap`. A call happens at
once: under the lock of its only table no other process changes what it reads,
which `Blocks` and `Locks` show of their steps. Bytes of records are not
modelled, their places are. That a user who stores a record counts `last_recno`
up by one is not in the code: nothing in the library counts, and `flatrecs.h:20`
only says that the user's changes to the header are written back.

### Handle

`length` and `head` are the file, `hfile` and `hhead` are `handle->file` and
`handle->head_file`, `pc` names the next stdio call of `blocks_file_open`, and
`pending` says that the stream of a creator holds the head it has not written.
`streams` counts the streams a process has open, whatever its handle says.
`request`, `stale` and `created` remember what is being created, whose file was
truncated, and what the last creation reported as a success has made.

`Fopen` and `ReadHead` are an open, `FopenCreate`, `FirstBlock` and `WriteHead` a
creation; each of the calls may fail. `FopenCreate` truncates the file whoever
has it open. `UserSeeks` stands for the first `fseek` of the user's function,
which is when the head is written; otherwise `Close` does it, and neither
notices a failure. `CloseRaw` is `rnd_close_raw` on a handle that is not in use:
it returns `RND_FILE_NOT_OPEN`, or, after an open whose file was refused for its
head, closes the stream that the handle has kept (`blocks.c:581`, `593`) a
second time. What a process does after that is undefined: it is in a state of
its own that only its end leads out of. A chunk size of 0, which `get_blocksize` returns when `stat`
fails, ends the process in an assertion of `blocks_prep_head_file`, after the
file was truncated and a first block of 2^32 bytes was made: `WriteHead` is then
not enabled and only `Crash` is left.

Abstractions. Of the head, the chunk size and the record size are kept; the
magic number and the fields of the `INFO_BLOCK` are there exactly if the chunk
size is. Handles are set up by `rnd_init` or by an open; a user's function that
closes its handle itself is a `Close`, after which `blocks_file_close` finds
nothing to close.

## Runs

| Run | Shows | Instance |
|---|---|---|
| `exclusive` | with exclusive access: the inductive invariant `IInv`, `TypeOK`, `BlocksAligned`, `LinkTargetsReady`, `LinksFormLists`, `AddedIsLinked`, `ShortReadsAtEnd`, `LinksPersist`, `ChangedByLockHolder` | 2 processes, 2 chains, blocks of 0 and 1 chunk, every checked call may fail, crashes |
| `lost` | without writes being certain: the inductive invariant `LostInv`, `BlocksDisjoint`, `LinksPersist` | 2 processes, 1 chain, blocks of 1 and 2 chunks, every call may fail |
| `implements` | `Blocks` implements `Chains`; operations under a lock terminate | 2 processes, 1 chain, blocks of 0 to 2 chunks, every checked call may fail |
| `areas` | `IInv`, `LocksHeld`, `FreshBuffer`, `UpdatesKept`, `Locks` implements `Areas`, `LocksReleased` | 2 processes, 2 areas that share one of 3 cells, 2 updates, every checked call but the unlocking one may fail |
| `records` | `IInv`, `StartNeverPasses`, `CountsCapacities`, `ExtendsOnlyBeyond`, `TurnsAdvance`, `ChainKept`, `FlatRecs` implements `RecNumbers`, `LoopEnds` | 2 processes, a table of 2 blocks with 2 records each, requests for 5, 8 and 50, 6 records added, every call may fail, the loss of a new head included, a full disk, crashes |
| `handle` | `IInv`, `StreamsAccounted`, `UserGetsDatabase`, `CreationKept` | 1 creator, 2 that open the file, chunk sizes 0, 64 and 4096, `rnd_close_raw` at any time, every call may fail, crashes |
| `overlap` | violated: `BlocksDisjoint` | 2 processes, 2 chains, no failures |
| `info` | violated: `InfoKept` | no failures |
| `headless` | violated: `LinkTargetsReady` | every call may fail |
| `stale` | violated: `FreshBuffer` | `Rereads = {TRUE, FALSE}`, no failures |
| `slots` | violated: `RecordsApart` | a table of 2 blocks, no failures |
| `writeback` | violated: `ChainKept` | a table of 1 block, no failures |

The bounds, and why they are enough. `ChunkSize` is 4096, as in the tests.
`MaxFile` bounds the file at two or three chunks beyond the first blocks: a
block is orphaned or linked, a second one appended after it, and a third one
placed by what the two left behind. Two processes make every race the code has,
since a chain's lock and the end of the file are each contended by pairs. A
block of size 0 is the boundary at which the end of the file does not move and
the next placement is refused. In `Locks` two updates are the fewest that can be
lost, and two areas that overlap without being equal the smallest case in which
a lock by bytes differs from a lock by name; each update is made once. Process
symmetry is used in the safety runs only.

In `records` the word is 2^16 and a record 1500 bytes long, so that two fit in a
block of a chunk. Record 5 is the first beyond the table's two blocks and makes
a block of size 0, whose capacity wraps around; 8 needs two chunks; and what 50
needs is beyond what the word can hold. `FileLimit` is five chunks, three beyond
the table: a chain is extended until the disk is full, a block of size 0 may be
the one that no longer fits, and the loop has to end all the same, unless it is
at a block without a head.
`MaxRecno` keeps `last_recno` away from the end of the word, where record 0
would be given next. In `handle` the first block may be shorter than the head
(64 bytes), a chunk, or absent (0).

### What the violations mean

- `overlap`: the lock of one table does not protect the end of the file. Two
  processes that extend two tables look up the same end and one block ends up
  inside the other. `blocks.c:333` says that exclusive access is the caller's
  obligation; `rnd_lock_add_block` (`locks.c:107`), named for it, is a stub.
- `info`: `blocks_write_block_head` uses the larger of two lengths where its
  comment says the smaller; extending a chain at its first block overwrites the
  table and file information there with bytes from beyond a 32-byte buffer.
- `headless`: an append whose head could not be written reports success, and
  the chain is made to lead to a block without a head.
- `stale`: `rnd_lock_area` takes the lock and then reads through the stream,
  which need not ask the file. The header is not "fresh" (`flatrecs.h:16`).
- `slots`: the offset of a record is relative to the table's first block,
  whichever block the record is in (`flatrecs.c:88`): record 3, the first of the
  second block, is given offset 32, over the table's head and record 1.
- `writeback`: a link made in the table's first block during the callback is
  overwritten by the older copy of the head (`locks.c:78`); the next record
  beyond that block makes another one. From the second block on links are safe,
  which is `ChainIsKept` below. It is also here that one call can meet
  `RND_ATTEMPT_TO_ORPHAN_BLOCK`: the user asks again from a copy that does not
  show the link.

## Fairness

`FairSpec` asks for weak fairness of `Advance(p)` in `Blocks` and `Locks` and of
`Turn(p)` in `FlatRecs`: a process that is inside a library function goes on
executing it. There is no fairness of
starting operations or of crashing. In `Blocks` `Advance` contains no failing
call, so no operation needs one in order to end; in `Locks` and `FlatRecs` it contains
the actions with their failing branches, as each failure is one of the outcomes of
a call that returns, and a callback is assumed to return. Nothing is waited
for: `F_SETLK` does not block, so no fairness between processes is needed.

`Termination` is about operations that hold the lock of their chain. A walk
without the lock may follow a chain that others keep extending, and its end is
not promised. `LocksReleased` needs the unlocking `fcntl` to succeed: when it
does not, the lock stays until the file is closed, as in the code. `LoopEnds`
needs a block of one chunk to have room for a record: for a longer record the
head of the block is not counted (`flatrecs.c:114`), and the loop appends blocks
until the disk is full and goes on failing after that. And it has an exception:
at a last block whose head was lost `start_rec` does not advance, and as long as
the block cannot be extended, on a full disk for ever, the loop goes round with
the lock held. Both claims without the exception, that every turn advances
`start_rec` and that the loop is always left, are refuted by TLC in the instance
of `records`.

## Proofs

`BlocksProofs`, for all processes, chains, chunk sizes, block sizes and
failures (`BlocksAssumption`):

- `TypeCorrect`: `Spec => []TypeOK`. The invariant needs `size >= InitialSize`
  on top: the file never gets shorter, so "the byte before the end" exists.
- `Invariance`: `HeadsWritten => (ExclusiveSpec => []IInv)`, where
  `HeadsWritten` says that the unchecked `fseek` in `blocks_append_block` does
  not fail. `overlap` and `headless` show that neither assumption can go.
- `FileWellFormed`: `BlocksDisjoint`, `BlocksAligned`, `LinkTargetsReady`,
  `LinksFormLists`.
- `LinksStay`: `LinksPersist`.
- `AddedStaysLinked`: `AddedIsLinked`, if the final write does not fail either
  (`LinksWritten`).
- `ReadsFailAtEnd`: `ShortReadsAtEnd`. A block of size 0, which `flatrecs.c:114`
  asks for, ends the file 32 bytes behind its beginning, and `chains_walk` reads
  72 bytes of every link: there, and only there, a walk fails for good. Whoever
  adds a block does not come to it, as the file then does not end at a chunk and
  no block is appended.

On a file with one chain the lock of that chain is exclusive access, so that all
of this holds of `Spec` (the lemma `SingleChainIsExclusive`).

`BlocksDisjoint` is not inductive: that a new block fits depends on what the
process that places it knows. `IInv` adds who holds which lock (`LockInv`), and
per process what its stream holds and how what it read relates to the file
(`StreamInv`): between `Locate` and `Settle` the position is the end of the file
(`AtEnd`), then the space from there to the end is free (`Reserved`), then the
block is the last one of the file and nothing links it (`Appended`); before the
link is written, the head that was read is still the head in the file. With one
process adding at a time, no other step disturbs these.

`LostHeadsProofs`, under `BlocksAssumption` as well, but without `HeadsWritten`:
every call may fail, the two included whose result nobody looks at.

- `LostInvariance`: `BlocksHoldHeads => (ExclusiveSpec => []LostInv)`, where
  `BlocksHoldHeads` says that no block is asked for that is shorter than a
  `RND_HEAD_FILE` (72 bytes). Blocks are made of whole chunks, so this excludes
  blocks of size 0 only, which `flatrecs.c:114` asks for: they are the subject
  of `exclusive` and `BlocksProofs`.
- `BlocksStayApart`: `BlocksDisjoint`, `BlocksAligned`, `LinksFormLists`;
  `LinksStayAnyway`: `LinksPersist`.
- `SingleChainIsSafe`: all of that of `Spec` itself, for a file with one chain.

`LinkTargetsReady`, and with it `IInv`, is lost with the first head, and the
block of a lost head is known only by the link that leads to it. So `LostInv`
speaks of `Spans`, the bytes that belong to a block by its head or by a link:
they are in the file and apart (`SpansApart`), and a link that is written into
a block without a head gives that block a head inside its own span. This is
where `BlocksHoldHeads` is needed: the span of a block of size 0 has no room for
it. A walk stays on spans that are long enough to be read (`Readable`).

`ChainsProofs`, with `HeadsWritten` and exclusive access again:

- `Implementation`: `Blocks` implements `Chains`.
- `SingleChainImplements`: `Spec` does so, for a file with one chain.
- `LockGuardsChain`: `ChangedByLockHolder`.

`PathFrom` follows the links recursively. What it computes is found by
induction over the offsets of the file, taken as a statement about sets: a set
of natural numbers has a least element, and a bounded one a greatest (`Least`,
`Greatest`, from the library's theorem that `<` is well founded), and the last
offset at which a claim about paths fails is led to by a link to one at which it
holds. So paths exist and are lists (`PathsExist`, `PathsType`), two chains
share no block (`PathsApart`, `ChainsApart`), a new head changes none
(`NewHeadKeepsPaths`), and a link at the end of a path appends to it
(`LinkExtendsPath`). The new block lies beyond all others because it is the last
head of the file when its link is written (`Appended`). `Chains` is instantiated
with the offsets up to `MaxFile`; `InBounds` says that positions stay below it.
For `LockGuardsChain` the invariant is `OnChain`: the link a process saw last is
on the path of the chain it worked on, which no step can change, as paths only
grow.

`LocksProofs`, for all processes, overlapping areas and failures
(`LocksAssumption`):

- `TypeCorrect`: `Spec => []TypeOK`.
- `Invariance`: `Rereads = {TRUE} => (Spec => []IInv)`. `stale` shows that the
  assumption is needed.
- `LockedAreaIsCurrent`: `LocksHeld` and `FreshBuffer`.
- `Implementation`: `Locks` implements `Areas`. The initial states agree, and
  the only step that changes the file, `Restore`, is an `Update` of the area.
- `Durability`: `UpdatesKept`, if the fseek that writes the area does not fail.

`IInv` says where in the function a process can be with which variables
(`Stages`), that its lock covers its area, that an update on its way is nobody
else's and not yet in the file (`UpdatesUnique`), and that the buffer is what
the file holds, plus the update once there is one (`BufferCurrent`). The last
needs the first three: it survives another process's `Restore` because areas of
two processes inside the function share no cell.

`FlatRecsProofs`, for all processes, tables, record sizes, widths of `uint32_t`
and failures (`FlatRecsAssumption`):

- `TypeCorrect`: types, and links lead to blocks of the chain, whose heads are
  in the file or were lost at its end, for every table.
- `Invariance`: `TwoBlocksAtLeast => (Spec => []IInv)`, where `TwoBlocksAtLeast`
  says that the table's first block has a next one at the start. `writeback`
  shows that the assumption is needed.
- `CountingNeverWraps`: `StartNeverPasses`.
- `CountingIsRight`: `CountsCapacities`, and `ExtensionsAreNeeded`:
  `ExtendsOnlyBeyond`.
- `LoopAdvances`: `RoomInChunks` gives `TurnsAdvance`: a block of one chunk has
  room for a record, chunks divide the word, as powers of two do, and the blocks
  the table starts with have room.
- `ChainIsKept`: `ChainKept`.
- `Implementation`: `FlatRecs` implements `RecNumbers`.

The heart of `IInv` is `CopyInv`: while a process is inside, its copy of the
table's head is what the file holds, but for the record it has counted. It is
kept because a link is only ever written where there is none, so never in the
first block of such a table, and because only the holder of the lock writes.
Then the write-back changes nothing but `last_recno`, from one number to the
next, which is the step of `RecNumbers`. None of this needs the heads of new blocks to
be written: a lost one reads as zeros, in the file and in the loop alike, and
takes a link like any other. That `start_rec` never passes the
record follows from the guard of the turn alone: the record is beyond the
block's capacity, so adding it does not wrap. That blocks without a head are
passed, and that no turn goes back to one, needs the chain to be a list that
leads forward in the file (`ChainIsList`).

`first_recno` is a history variable: by offset, the number of the first record
of each block of the chain, set when the block is linked. The code has a field
of that name in the head (`blocks.h:31`) and never sets it. `InitialFirst` gives
it for the blocks at the start, and `FirstAssumption` says that they are numbered
one after the other. `ChainNumbered` keeps it so, and `CountInv` relates
`start_rec` to it: equal as long as no extension has failed in the call, and
never less, as a failed one only makes the loop run ahead. An extension in vain
would need `start_rec` to be behind.

`LoopAdvances` is the part of `LoopEnds` that is a matter of steps: with
`StartNeverPasses`, the loop takes at most `recno` turns and one for each block
it passes whose head was lost; the exception is the last block without a head.
A block that an extension makes with its head is never too short, although its
size is computed from the records before it: it is a whole number of chunks, or
of size 0, and then its capacity wraps around to more than any block has.

`HandleProofs`, for all processes, chunk sizes, record sizes and failures
(`HandleAssumption`):

- `StreamsAreAccounted`: types and `StreamsAccounted`, for any creators: no
  stream is leaked, and only that of a refused file is closed twice.
- `Invariance`: `OneCreator => (Spec => []IInv)`.
- `UsersGetDatabases`, `CreationsAreKept`: `UserGetsDatabase`, `CreationKept`.

`OneCreator` says that at most one process opens the file with `RND_CREATE`.
Nothing in the code keeps two apart: one truncates what the other is making, and
the late head of the one lands in the file of the other. `IInv` says what the
file is at each stage of the creation (`CreatorInv`), that meanwhile nobody
else has an unwritten head (`ReaderInv`), and that a file with a head has its
first block (`FileInv`).

Only model-checked: the liveness properties `Termination`, `LocksReleased` and
`LoopEnds`, as liveness under fairness is beyond the prover. Every safety
invariant, action property and refinement of the passing runs is stated by a
theorem.

## Not modelled

- The record API (`rnd_put`, `rnd_get`, `rnd_delete`) and the four functions for
  adding blocks and records in `locks.c`: stubs without effect.
- `RND_READONLY`: declared, and used by no code.
- Several tables in one file at the level of `FlatRecs`: no caller in the
  source makes a second table.
- The contents of records: no function of the library reads or writes them.
- `extra.c`: strings; `inlines.h` is commented out or refers to types that no
  longer exist; `table.h` is empty.
- The test programs and the Makefile: read for how the library is called.
  `testm_pages.c` belongs to an earlier design and does not compile.
- Threads: a handle and its stream are used by one thread.

## Plan

Done, in order of importance: `Blocks` with `Chains`, `Locks` with `Areas`,
`FlatRecs` with `RecNumbers`, and `Handle`, each with its proofs. What could
come next:

1. Two creators in `Handle`, and what is left of `UserGetsDatabase` then.
2. For `Locks`, as `TurnsAdvance` for `LoopEnds`, the part of `LocksReleased` that
   is a matter of steps: every way out of `rnd_lock_area` passes the unlock.
3. `FlatRecs` on `Blocks`' single calls instead of whole ones, for a table of
   its own, with stale reads of the heads beyond the first as in `Locks`.
