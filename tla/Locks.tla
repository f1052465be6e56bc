------------------------------- MODULE Locks -------------------------------
(***************************************************************************)
(* rnd_lock_area (locks.c): a process locks an area of the file, may read  *)
(* it into a buffer, hands the buffer to a callback, writes the buffer     *)
(* back if the callback says so, and unlocks.                              *)
(*                                                                         *)
(* The lock is a POSIX record lock: it belongs to the process, byte by     *)
(* byte, and only keeps other processes out.  What is read and written     *)
(* goes through a stdio stream with a buffer of its own, which knows       *)
(* nothing of locks: it writes late, and it may answer a read from what it *)
(* saw of the file before.                                                 *)
(*                                                                         *)
(* The file is cut into cells, small enough that areas are sets of cells.  *)
(* What a cell holds is abstracted to the set of updates that went into    *)
(* it: a callback adds its update to what it found in the buffer.          *)
(***************************************************************************)
CONSTANTS
    Proc,          \* processes that have the file open
    NoProc,        \* no process: the cell is not locked
    Cells,         \* the parts of the file that areas are made of
    AreaSet,       \* the areas that are locked, as sets of cells
    Updates,       \* what callbacks write; each is written once (a bound)
    NoUpdate,      \* no update: the callback has not changed the buffer
    Rereads,       \* whether fseek and fread go to the file again: TRUE for
                   \* a C library that empties the stream's buffer in fseek,
                   \* FALSE and TRUE for one that keeps it when it can
    FailingCalls   \* points, as pc values, where a call may fail

(***************************************************************************)
(* The calls that may fail, the fcntl that locks ("idle") first.  Only the *)
(* failure of "restore", which writes the area, goes unnoticed.            *)
(***************************************************************************)
Calls == {"idle", "seek", "read", "write", "restore", "unlock"}

ASSUME LocksAssumption ==
    /\ NoProc \notin Proc /\ NoUpdate \notin Updates
    /\ AreaSet \subseteq SUBSET Cells
    /\ Rereads \subseteq BOOLEAN /\ Rereads # {}
    /\ FailingCalls \subseteq Calls

VARIABLES
    content,  \* by cell, the updates the file holds
    owner,    \* by cell, the process whose lock covers it
    pc,       \* per process: the next call
    area,     \* per process: bhandle
    retrieve, \* per process: retrieve_data
    buffer,   \* per process: the copy of the area the callback works on
    pending,  \* per process: whether its stream holds the buffer, unwritten
    seen,     \* per process: what its stream last saw of the file
    update,   \* per process: what its callback wrote to the buffer
    rval,     \* per process: the return value, also after the return
    used,     \* history: the updates callbacks have written
    done      \* history: the updates reported with RND_SUCCESS, with their area

vars == <<content, owner, pc, area, retrieve, buffer, pending, seen, update,
          rval, used, done>>

Contents == [Cells -> SUBSET Updates]
Blank    == [c \in Cells |-> {}]

RND_ERROR == {"SUCCESS", "FAIL", "SYSTEM_ERROR", "LOCK_FAILED", "LOCK_READ_FAILED",
              "UNLOCK_WRITE_FAILED"}

TypeOK ==
    /\ content \in Contents
    /\ owner \in [Cells -> Proc \cup {NoProc}]
    /\ pc \in [Proc -> Calls \cup {"callback"}]
    /\ area \in [Proc -> AreaSet \cup {{}}]
    /\ retrieve \in [Proc -> BOOLEAN]
    /\ buffer \in [Proc -> Contents]
    /\ pending \in [Proc -> BOOLEAN]
    /\ seen \in [Proc -> Contents]
    /\ update \in [Proc -> Updates \cup {NoUpdate}]
    /\ rval \in [Proc -> RND_ERROR]
    /\ used \subseteq Updates
    /\ done \subseteq (AreaSet \cup {{}}) \X Updates

(* blocks_file_open has read the beginning of the file, so streams saw it. *)
Init ==
    /\ content = Blank
    /\ owner = [c \in Cells |-> NoProc]
    /\ pc = [p \in Proc |-> "idle"]
    /\ area = [p \in Proc |-> {}]
    /\ retrieve = [p \in Proc |-> FALSE]
    /\ buffer = [p \in Proc |-> Blank]
    /\ pending = [p \in Proc |-> FALSE]
    /\ seen = [p \in Proc |-> Blank]
    /\ update = [p \in Proc |-> NoUpdate]
    /\ rval = [p \in Proc |-> "SUCCESS"]
    /\ used = {}
    /\ done = {}

Goto(p, label) == pc' = [pc EXCEPT ![p] = label]

Result(p, err) == rval' = [rval EXCEPT ![p] = err]

(* The cells of a, with what new has there, over what old has elsewhere. *)
Overlay(old, a, new) == [c \in Cells |-> IF c \in a THEN new[c] ELSE old[c]]

-----------------------------------------------------------------------------
(***************************************************************************)
(* fcntl(F_SETLK) does not wait: it fails if another process has a lock on *)
(* any byte of the area.                                                   *)
(***************************************************************************)
LockConflict(p, a) == \E c \in a : owner[c] \notin {p, NoProc}

Lock_OneByte(p, a, r) ==  \* mutated: l_len is not the size of the area
    /\ pc[p] = "idle" /\ ~LockConflict(p, a)
    /\ owner' = [c \in Cells |-> IF c = (CHOOSE d \in a : TRUE) THEN p ELSE owner[c]]
    /\ area' = [area EXCEPT ![p] = a]
    /\ retrieve' = [retrieve EXCEPT ![p] = r]
    /\ Result(p, "FAIL")
    /\ Goto(p, IF r THEN "seek" ELSE "callback")
    /\ UNCHANGED <<content, buffer, pending, seen, update, used, done>>
Lock(p, a, r) ==
    /\ pc[p] = "idle" /\ ~LockConflict(p, a)
    /\ owner' = [c \in Cells |-> IF c \in a THEN p ELSE owner[c]]
    /\ area' = [area EXCEPT ![p] = a]
    /\ retrieve' = [retrieve EXCEPT ![p] = r]
    /\ Result(p, "FAIL")
    /\ Goto(p, IF r THEN "seek" ELSE "callback")
    /\ UNCHANGED <<content, buffer, pending, seen, update, used, done>>

LockFails(p, a) ==
    /\ pc[p] = "idle"
    /\ \/ LockConflict(p, a) /\ Result(p, "LOCK_FAILED")
       \/ "idle" \in FailingCalls /\ Result(p, "SYSTEM_ERROR")
    /\ UNCHANGED <<content, owner, pc, area, retrieve, buffer, pending, seen, update,
                   used, done>>

Seek_Abandons(p) ==  \* mutated: goto abandon_function
    /\ pc[p] = "seek"
    /\ \/ Goto(p, "read") /\ UNCHANGED rval
       \/ "seek" \in FailingCalls /\ Result(p, "SYSTEM_ERROR") /\ Goto(p, "idle")
    /\ UNCHANGED <<content, owner, area, retrieve, buffer, pending, seen, update,
                   used, done>>

(* When the seek fails, the way to the unlock does not restore anything. *)
Seek(p) ==
    /\ pc[p] = "seek"
    /\ \/ Goto(p, "read") /\ UNCHANGED rval
       \/ "seek" \in FailingCalls /\ Result(p, "SYSTEM_ERROR") /\ Goto(p, "unlock")
    /\ UNCHANGED <<content, owner, area, retrieve, buffer, pending, seen, update,
                   used, done>>

(***************************************************************************)
(* fread fills the buffer from the file, or from what the stream has of it *)
(* if the seek before left that in place.                                  *)
(***************************************************************************)
Read(p) ==
    /\ pc[p] = "read"
    /\ \/ \E again \in Rereads :
            /\ seen' = IF again THEN [seen EXCEPT ![p] = content] ELSE seen
            /\ buffer' = [buffer EXCEPT ![p] = Overlay(Blank, area[p], seen'[p])]
            /\ Goto(p, "callback")
            /\ UNCHANGED rval
       \/ /\ "read" \in FailingCalls
          /\ Result(p, "LOCK_READ_FAILED")
          /\ Goto(p, "restore")
          /\ UNCHANGED <<buffer, seen>>
    /\ UNCHANGED <<content, owner, area, retrieve, pending, update, used, done>>

(* The callback leaves the buffer as it is, or changes it and says so. *)
CallbackReads(p) ==
    /\ pc[p] = "callback"
    /\ \/ retrieve[p] /\ Result(p, "SUCCESS") /\ Goto(p, "restore")
       \/ ~retrieve[p] /\ UNCHANGED rval /\ Goto(p, "unlock")
    /\ UNCHANGED <<content, owner, area, retrieve, buffer, pending, seen, update,
                   used, done>>

CallbackWrites(p, u) ==
    /\ pc[p] = "callback" /\ retrieve[p] /\ u \notin used
    /\ buffer' = [buffer EXCEPT ![p] =
            [c \in Cells |-> IF c \in area[p] THEN @[c] \cup {u} ELSE @[c]]]
    /\ update' = [update EXCEPT ![p] = u]
    /\ used' = used \cup {u}
    /\ Goto(p, "write")
    /\ UNCHANGED <<content, owner, area, retrieve, pending, seen, rval, done>>

(* The buffer goes into the stream; the function counts that as written. *)
Write(p) ==
    /\ pc[p] = "write"
    /\ \/ pending' = [pending EXCEPT ![p] = TRUE] /\ Result(p, "SUCCESS")
       \/ "write" \in FailingCalls /\ Result(p, "UNLOCK_WRITE_FAILED") /\ UNCHANGED pending
    /\ Goto(p, "restore")
    /\ UNCHANGED <<content, owner, area, retrieve, buffer, seen, update, used, done>>

(***************************************************************************)
(* The fseek that restores the file position writes it to the file, before *)
(* the lock goes.  If that fails nobody looks.                             *)
(***************************************************************************)
Restore_Buffered(p) ==  \* mutated: the buffer stays in the stream
    /\ pc[p] = "restore"
    /\ Goto(p, "unlock")
    /\ UNCHANGED <<content, owner, area, retrieve, buffer, pending, seen, update, rval,
                   used, done>>

Restore(p) ==
    /\ pc[p] = "restore"
    /\ \/ /\ pending[p]
          /\ content' = Overlay(content, area[p], buffer[p])
          /\ seen' = [seen EXCEPT ![p] = Overlay(@, area[p], buffer[p])]
       \/ /\ ~pending[p] \/ "restore" \in FailingCalls
          /\ UNCHANGED <<content, seen>>
    /\ pending' = [pending EXCEPT ![p] = FALSE]
    /\ Goto(p, "unlock")
    /\ UNCHANGED <<owner, area, retrieve, buffer, update, rval, used, done>>

(* The function returns, and its local variables go. *)
Finish(p) ==
    /\ Goto(p, "idle")
    /\ area' = [area EXCEPT ![p] = {}]
    /\ retrieve' = [retrieve EXCEPT ![p] = FALSE]
    /\ buffer' = [buffer EXCEPT ![p] = Blank]
    /\ update' = [update EXCEPT ![p] = NoUpdate]

Unlock(p) ==
    /\ pc[p] = "unlock"
    /\ \/ /\ owner' = [c \in Cells |-> IF c \in area[p] THEN NoProc ELSE owner[c]]
          /\ UNCHANGED rval
       \/ /\ "unlock" \in FailingCalls
          /\ Result(p, "SYSTEM_ERROR")
          /\ UNCHANGED owner
    /\ done' = IF rval'[p] = "SUCCESS" /\ update[p] # NoUpdate
               THEN done \cup {<<area[p], update[p]>>} ELSE done
    /\ Finish(p)
    /\ UNCHANGED <<content, pending, seen, used>>

-----------------------------------------------------------------------------
(* All of a process's locks on the file go when it closes it, or dies. *)
FreeAll(p) == owner' = [c \in Cells |-> IF owner[c] = p THEN NoProc ELSE owner[c]]

(* A mutated form: the file is also open through another handle. *)
Reopen_Anywhere(p) ==
    /\ FreeAll(p)
    /\ seen' = [seen EXCEPT ![p] = content]
    /\ UNCHANGED <<content, pc, area, retrieve, buffer, pending, update, rval, used, done>>

(* Between two operations a process may close the file and open it again. *)
Reopen(p) ==
    /\ pc[p] = "idle"
    /\ FreeAll(p)
    /\ seen' = [seen EXCEPT ![p] = content]
    /\ UNCHANGED <<content, pc, area, retrieve, buffer, pending, update, rval, used, done>>

(* The process dies inside the function, and a new one opens the file. *)
Crash(p) ==
    /\ pc[p] # "idle"
    /\ FreeAll(p)
    /\ Finish(p)
    /\ pending' = [pending EXCEPT ![p] = FALSE]
    /\ seen' = [seen EXCEPT ![p] = content]
    /\ Result(p, "SUCCESS")
    /\ UNCHANGED <<content, used, done>>

Advance(p) ==
    \/ Seek(p) \/ Read(p) \/ CallbackReads(p)
    \/ \E u \in Updates : CallbackWrites(p, u)
    \/ Write(p) \/ Restore(p) \/ Unlock(p)

Next ==
    \E p \in Proc :
        \/ \E a \in AreaSet, r \in BOOLEAN : Lock(p, a, r)
        \/ \E a \in AreaSet : LockFails(p, a)
        \/ Advance(p)
        \/ Reopen(p)
        \/ Crash(p)

Spec == Init /\ [][Next]_vars

(* A process inside rnd_lock_area goes on executing it; callbacks return. *)
FairSpec == Spec /\ \A p \in Proc : WF_vars(Advance(p))

-----------------------------------------------------------------------------
(***************************************************************************)
(* Whoever is between fcntl and fcntl has a lock on all of its area.  A    *)
(* lock belongs to its process and there is one owner by cell, so no two   *)
(* processes work on a cell at a time (locks.c:44, 97).                    *)
(***************************************************************************)
LocksHeld == \A p \in Proc : \A c \in area[p] : owner[c] = p

(***************************************************************************)
(* What a callback is given, and what it changed, is what the file holds   *)
(* in the area (locks.c:68, 76): an update is never made to old data.      *)
(***************************************************************************)
FreshBuffer ==
    \A p \in Proc : retrieve[p] /\ pc[p] \in {"callback", "write"} =>
        \A c \in area[p] : buffer[p][c] \ {update[p]} = content[c]

(***************************************************************************)
(* An update for which rnd_lock_area returned RND_SUCCESS is in the file,  *)
(* in all of its area, and stays there whatever the others do to areas     *)
(* that overlap it, and whoever dies (locks.c:86-101).                     *)
(***************************************************************************)
UpdatesKept == \A d \in done : \A c \in d[1] : d[2] \in content[c]

(***************************************************************************)
(* The sequence of system calls has the effect of atomic updates, made one *)
(* after the other and each in full or not at all (locks.c:35-105).        *)
(***************************************************************************)
Atomic == INSTANCE Areas WITH Areas <- AreaSet, file <- content
ImplementsAreas == Atomic!Spec

(***************************************************************************)
(* The inductive invariant behind these properties, for a stream that      *)
(* reads the file again (Rereads = {TRUE}): where a process is, who has    *)
(* which updates, and that a locked area does not change under its owner.  *)
(***************************************************************************)
Stages ==
    \A p \in Proc :
        /\ pc[p] = "idle" => area[p] = {}
        /\ pc[p] \in {"seek", "read", "write", "restore"} => retrieve[p]
        /\ pc[p] = "write" => update[p] # NoUpdate
        /\ pc[p] \in {"idle", "seek", "read", "callback"} => update[p] = NoUpdate
        /\ pending[p] => pc[p] = "restore" /\ update[p] # NoUpdate

OnItsWay(p) == pc[p] = "write" \/ pending[p]

UpdatesUnique ==
    /\ \A p \in Proc : update[p] # NoUpdate => update[p] \in used
    /\ \A p, q \in Proc : p # q /\ update[p] = update[q] => update[p] = NoUpdate
    /\ \A c \in Cells : content[c] \subseteq used
    /\ \A p \in Proc, c \in Cells : OnItsWay(p) => update[p] \notin content[c]

BufferCurrent ==
    \A p \in Proc : \A c \in area[p] :
        /\ pc[p] = "callback" /\ retrieve[p] => buffer[p][c] = content[c]
        /\ OnItsWay(p) => buffer[p][c] = content[c] \cup {update[p]}

IInv == TypeOK /\ Stages /\ LocksHeld /\ UpdatesUnique /\ BufferCurrent

(* What UpdatesKept needs on top, if the restoring fseek does not fail. *)
SuccessWritten ==
    \A p \in Proc : rval[p] = "SUCCESS" /\ update[p] # NoUpdate =>
        /\ pc[p] = "restore" => pending[p]
        /\ pc[p] = "unlock" => \A c \in area[p] : update[p] \in content[c]

KeptInv == SuccessWritten /\ UpdatesKept

(***************************************************************************)
(* No way through rnd_lock_area leaves a lock behind, if the fcntl that    *)
(* unlocks does not fail (locks.c:63, 71, 83, 94).                         *)
(***************************************************************************)
LocksReleased == \A c \in Cells, p \in Proc : owner[c] = p ~> owner[c] # p
=============================================================================
