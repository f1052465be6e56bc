------------------------------- MODULE Handle -------------------------------
(***************************************************************************)
(* Opening, creating and closing a database: blocks_file_open,             *)
(* blocks_file_close and their callers rnd_open, blocks_file_use and       *)
(* rnd_open_raw with rnd_close_raw.                                        *)
(*                                                                         *)
(* A creator truncates the file, makes its first block, and puts the head  *)
(* of the file into its stream, which writes it out at the next fseek of   *)
(* its user, or when it is closed.  Others may open the file at any time.  *)
(* Of the head the model keeps what the two parameters of a creation are;  *)
(* a user's function does to blocks what Blocks and FlatRecs say.          *)
(* rnd_close_raw may be called at any time on a handle that was set up.    *)
(***************************************************************************)
EXTENDS Integers

CONSTANTS
    Proc,         \* processes that open the file
    Creators,     \* those that open it with RND_CREATE too
    Word,         \* how many values a uint32_t has
    ChunkSizes,   \* those asked for; get_blocksize returns 0 if stat fails
    RecSizes,     \* what users ask for as rec_size
    FailingCalls  \* the calls that may fail

SizeofHeadFile == 72

Calls == {"fopen", "block", "head", "fread", "flush"}

ASSUME HandleAssumption ==
    /\ Creators \subseteq Proc
    /\ Word \in Nat \ {0} /\ ChunkSizes \subseteq 0 .. Word - 1
    /\ RecSizes \subseteq Nat
    /\ FailingCalls \subseteq Calls

(***************************************************************************)
(* Bytes never written are zeros; no creation writes a head like that.     *)
(***************************************************************************)
HeadFile == [chunk_size : Nat, rec_size : Nat]
ZeroHead == [chunk_size |-> 0, rec_size |-> 0]

Absent == -1

VARIABLES
    length,   \* bytes in the file, Absent before its first creation
    head,     \* the RND_HEAD_FILE at its beginning
    pc,       \* per process: where it is in the open, or "idle", "user",
              \*   or "undefined" once it has closed a stream twice
    hfile,    \* per process: handle->file, a stream or what it points to
    hhead,    \* per process: handle->head_file
    request,  \* per process: the head of the file it creates, or ZeroHead
    streams,  \* per process: how many streams it has open
    pending,  \* per process: the head it creates, unwritten in its stream
    stale,    \* history, per process: another has truncated the file since
    created   \* history: the head of the last creation, if it was a success

vars == <<length, head, pc, hfile, hhead, request, streams, pending, stale, created>>

TypeOK ==
    /\ length \in Nat \cup {Absent}
    /\ head \in HeadFile
    /\ pc \in [Proc -> {"idle", "block", "fread", "head", "user", "undefined"}]
    /\ hfile \in [Proc -> {"NULL", "open", "closed"}]
    /\ hhead \in [Proc -> HeadFile]
    /\ request \in [Proc -> HeadFile]
    /\ streams \in [Proc -> Int]
    /\ pending \in [Proc -> {"no", "head", "lost"}]
    /\ stale \in [Proc -> BOOLEAN]
    /\ created \in HeadFile

Init ==
    /\ length = Absent
    /\ head = ZeroHead
    /\ pc = [p \in Proc |-> "idle"]
    /\ hfile = [p \in Proc |-> "NULL"]
    /\ hhead = [p \in Proc |-> ZeroHead]
    /\ request = [p \in Proc |-> ZeroHead]
    /\ streams = [p \in Proc |-> 0]
    /\ pending = [p \in Proc |-> "no"]
    /\ stale = [p \in Proc |-> FALSE]
    /\ created = ZeroHead

Goto(p, label) == pc' = [pc EXCEPT ![p] = label]

Longer(n) == IF n > length THEN n ELSE length

(* chunk_size - 1 is unsigned: the last byte of a block of size 0 is far. *)
LastByte_Short(chunk_size) == (chunk_size - 2) % Word  \* mutated: off by one
LastByte(chunk_size) == (chunk_size - 1) % Word

blocks_validate_head_file_Any(h) == TRUE  \* mutated: takes any head
blocks_validate_head_file(h) == h.chunk_size # 0

Fclose(p) == streams' = [streams EXCEPT ![p] = @ - 1]

(* abandon_file: the stream is closed, handle->file is left as it is. *)
Abandon_Leaks(p) == Goto(p, "idle") /\ UNCHANGED streams  \* mutated: no fclose
Abandon(p) == Goto(p, "idle") /\ Fclose(p)

-----------------------------------------------------------------------------
(* Opening *)

(* fopen of a file that exists, "r+b"; the handle is cleared before. *)
Fopen(p) ==
    /\ pc[p] = "idle" /\ length # Absent
    /\ hfile' = [hfile EXCEPT ![p] = "NULL"]
    /\ hhead' = [hhead EXCEPT ![p] = ZeroHead]
    /\ request' = [request EXCEPT ![p] = ZeroHead]
    /\ streams' = [streams EXCEPT ![p] = @ + 1]
    /\ Goto(p, "fread")
    /\ UNCHANGED <<length, head, pending, stale, created>>

(* fopen with "w+b" truncates the file, whoever has it open. *)
FopenCreate(p, h) ==
    /\ pc[p] = "idle" /\ p \in Creators
    /\ length' = 0 /\ head' = ZeroHead /\ created' = ZeroHead
    /\ hfile' = [hfile EXCEPT ![p] = "NULL"]
    /\ hhead' = [hhead EXCEPT ![p] = ZeroHead]
    /\ request' = [request EXCEPT ![p] = h]
    /\ streams' = [streams EXCEPT ![p] = @ + 1]
    /\ stale' = [q \in Proc |-> q # p]
    /\ Goto(p, "block")
    /\ UNCHANGED pending

(* There is no file, or fopen fails: the handle is cleared all the same. *)
FopenFails(p) ==
    /\ pc[p] = "idle"
    /\ length = Absent \/ "fopen" \in FailingCalls
    /\ hfile' = [hfile EXCEPT ![p] = "NULL"]
    /\ hhead' = [hhead EXCEPT ![p] = ZeroHead]
    /\ UNCHANGED <<length, head, pc, request, streams, pending, stale, created>>

(***************************************************************************)
(* The last byte of the first block is written, and the stream is back at  *)
(* the beginning of the file.  A call that fails may have written it too.  *)
(***************************************************************************)
FirstBlock_None(p) ==  \* mutated: the block is not made
    /\ pc[p] = "block" /\ Goto(p, "head")
    /\ UNCHANGED <<length, head, hfile, hhead, request, streams, pending, stale, created>>
FirstBlock(p) ==
    /\ pc[p] = "block"
    /\ \/ /\ length' = Longer(LastByte(request[p].chunk_size) + 1)
          /\ Goto(p, "head")
          /\ UNCHANGED streams
       \/ /\ "block" \in FailingCalls
          /\ length' \in {length, Longer(LastByte(request[p].chunk_size) + 1)}
          /\ Abandon(p)
    /\ UNCHANGED <<head, hfile, hhead, request, pending, stale, created>>

(* The head is in the stream; a chunk size of 0 has failed an assertion. *)
WriteHead(p) ==
    /\ pc[p] = "head" /\ request[p].chunk_size # 0
    /\ hhead' = [hhead EXCEPT ![p] = request[p]]
    /\ \/ /\ pending' = [pending EXCEPT ![p] = "head"]
          /\ hfile' = [hfile EXCEPT ![p] = "open"]
          /\ Goto(p, "user")
          /\ UNCHANGED streams
       \/ "head" \in FailingCalls /\ Abandon(p) /\ UNCHANGED <<pending, hfile>>
    /\ UNCHANGED <<length, head, request, stale, created>>

(***************************************************************************)
(* The head of an existing file is read and looked at.  A handle whose     *)
(* head is refused keeps the stream that is closed.                        *)
(***************************************************************************)
ReadHead(p) ==
    /\ pc[p] = "fread"
    /\ \/ /\ length < SizeofHeadFile \/ "fread" \in FailingCalls
          /\ Abandon(p)
          /\ UNCHANGED <<hfile, hhead, stale>>
       \/ /\ length >= SizeofHeadFile
          /\ hhead' = [hhead EXCEPT ![p] = head]
          /\ stale' = [stale EXCEPT ![p] = FALSE]
          /\ \/ /\ blocks_validate_head_file(head)
                /\ hfile' = [hfile EXCEPT ![p] = "open"]
                /\ Goto(p, "user")
                /\ UNCHANGED streams
             \/ /\ ~blocks_validate_head_file(head)
                /\ hfile' = [hfile EXCEPT ![p] = "closed"]
                /\ Abandon(p)
    /\ UNCHANGED <<length, head, request, pending, created>>

-----------------------------------------------------------------------------
(* Use and closing *)

(* The stream writes the head it holds, or nobody notices that it does not. *)
FlushHead(p) == head' = hhead[p] /\ length' = Longer(SizeofHeadFile)
LoseHead == "flush" \in FailingCalls /\ UNCHANGED <<head, length>>

(* The user's function does its first fseek. *)
UserSeeks(p) ==
    /\ pc[p] = "user" /\ pending[p] = "head"
    /\ \/ FlushHead(p) /\ pending' = [pending EXCEPT ![p] = "no"]
       \/ LoseHead /\ pending' = [pending EXCEPT ![p] = "lost"]
    /\ UNCHANGED <<pc, hfile, hhead, request, streams, stale, created>>

(* It returns, and the file is closed; the caller is told of success. *)
Close(p) ==
    /\ pc[p] = "user"
    /\ \/ pending[p] = "head" /\ FlushHead(p) /\ created' = request[p]
       \/ pending[p] = "head" /\ LoseHead /\ UNCHANGED created
       \/ /\ pending[p] # "head" /\ UNCHANGED <<head, length>>
          /\ created' = IF pending[p] = "no" /\ request[p] # ZeroHead
                        THEN request[p] ELSE created
    /\ pending' = [pending EXCEPT ![p] = "no"]
    /\ hfile' = [hfile EXCEPT ![p] = "NULL"]
    /\ Fclose(p) /\ Goto(p, "idle")
    /\ UNCHANGED <<hhead, request, stale>>

(***************************************************************************)
(* rnd_close_raw on a handle that is not in use: RND_FILE_NOT_OPEN, or the *)
(* stream that the last open has left in it is closed a second time, and   *)
(* what the process does from then on is undefined.                        *)
(***************************************************************************)
CloseRaw(p) ==
    /\ pc[p] = "idle"
    /\ \/ hfile[p] = "NULL" /\ UNCHANGED <<pc, hfile, streams>>
       \/ /\ hfile[p] # "NULL"
          /\ hfile' = [hfile EXCEPT ![p] = "NULL"]
          /\ Fclose(p) /\ Goto(p, "undefined")
    /\ UNCHANGED <<length, head, hhead, request, pending, stale, created>>

(* The process dies, its handle with it, and one of its kind starts. *)
Crash(p) ==
    /\ pc[p] # "idle"
    /\ hfile' = [hfile EXCEPT ![p] = "NULL"]
    /\ streams' = [streams EXCEPT ![p] = 0]
    /\ pending' = [pending EXCEPT ![p] = "no"]
    /\ Goto(p, "idle")
    /\ UNCHANGED <<length, head, hhead, request, stale, created>>

Requests == [chunk_size : ChunkSizes, rec_size : RecSizes]

Next ==
    \E p \in Proc :
        \/ Fopen(p) \/ FopenFails(p)
        \/ \E h \in Requests : FopenCreate(p, h)
        \/ FirstBlock(p) \/ WriteHead(p) \/ ReadHead(p)
        \/ UserSeeks(p) \/ Close(p) \/ CloseRaw(p)
        \/ Crash(p)

Spec == Init /\ [][Next]_vars

-----------------------------------------------------------------------------
(***************************************************************************)
(* A process has one stream open while it opens or uses a file and none    *)
(* otherwise, whatever fails: none is leaked, and a user's function never  *)
(* sees a handle whose stream is closed.  One is closed twice in a single  *)
(* way: rnd_close_raw after an open, not a creation, whose file was        *)
(* refused for its head and whose handle keeps the stream (blocks.c:581,   *)
(* 593; recnodb.c:63).                                                     *)
(***************************************************************************)
Refused(p) == request[p] = ZeroHead /\ ~blocks_validate_head_file(hhead[p])

StreamsAccounted ==
    \A p \in Proc :
        /\ pc[p] = "idle" => streams[p] = 0
        /\ pc[p] = "undefined" => streams[p] = -1
        /\ pc[p] \notin {"idle", "undefined"} => streams[p] = 1
        /\ hfile[p] = "open" <=> pc[p] = "user"
        /\ streams[p] < 0 \/ hfile[p] = "closed" => Refused(p)

(***************************************************************************)
(* A user's function is only called with a usable head in its handle, the  *)
(* one that is, or is about to be, in a file that has at least its first   *)
(* block: nobody gets a database whose creator died, is not done, or has   *)
(* lost its head with a late write that failed (blocks.c:571-587, 604), if *)
(* there is one creator.  A file truncated since is another matter.        *)
(***************************************************************************)
UserGetsDatabase ==
    \A p \in Proc : pc[p] = "user" =>
        /\ hhead[p].chunk_size # 0
        /\ ~stale[p] => /\ length >= hhead[p].chunk_size
                        /\ head = hhead[p] \/ pending[p] # "no"

(***************************************************************************)
(* A database whose creation was reported as a success is there for those  *)
(* who open it later, head and first block, until it is created anew       *)
(* (blocks.c:549-570, 604), if there is one creator and the late writes of *)
(* its stream do not fail.                                                 *)
(***************************************************************************)
CreationKept == created # ZeroHead => head = created /\ length >= created.chunk_size

(***************************************************************************)
(* The inductive invariant.  Creating(p): p has the file it makes open.    *)
(***************************************************************************)
Creating(p) ==
    pc[p] \in {"block", "head"} \/ (pc[p] = "user" /\ request[p] # ZeroHead)

CreatorInv(p) ==
    /\ p \in Creators /\ ~stale[p] /\ request[p] \in Requests
    /\ created = ZeroHead
    /\ head = IF pc[p] = "user" /\ pending[p] = "no" THEN request[p] ELSE ZeroHead
    /\ pc[p] # "user" => pending[p] = "no"
    /\ pc[p] # "block" => length >= request[p].chunk_size
    /\ pc[p] = "user" => hhead[p] = request[p] /\ hhead[p].chunk_size # 0

ReaderInv(p) ==
    /\ pending[p] = "no"
    /\ pc[p] = "fread" => request[p] = ZeroHead
    /\ pc[p] = "user" => hhead[p].chunk_size # 0 /\ (stale[p] \/ head = hhead[p])

FileInv == head # ZeroHead => length >= head.chunk_size

IInv ==
    /\ TypeOK /\ StreamsAccounted
    /\ FileInv /\ CreationKept
    /\ \A p \in Proc : Creating(p) => CreatorInv(p)
    /\ \A p \in Proc : ~Creating(p) => ReaderInv(p)
=============================================================================
