---------------------------- MODULE LocksProofs ----------------------------
(***************************************************************************)
(* What rnd_lock_area guarantees for every number of processes, all areas  *)
(* however they overlap, and all failures, where the stream reads the file *)
(* again after a seek.                                                     *)
(***************************************************************************)
EXTENDS Locks, TLAPS

LEMMA OverlayType ==
    ASSUME NEW old \in Contents, NEW new \in Contents, NEW a \in SUBSET Cells
    PROVE  /\ Overlay(old, a, new) \in Contents
           /\ \A c \in Cells : Overlay(old, a, new)[c] = IF c \in a THEN new[c] ELSE old[c]
BY DEF Overlay, Contents

LEMMA BlankType == Blank \in Contents
BY DEF Blank, Contents

LEMMA AreaType ==
    ASSUME TypeOK, NEW p \in Proc
    PROVE  area[p] \in SUBSET Cells
BY LocksAssumption DEF TypeOK

LEMMA InitTypeOK == Init => TypeOK
BY BlankType DEF Init, TypeOK, Calls, RND_ERROR

LEMMA TypeStep ==
    ASSUME TypeOK, [Next]_vars
    PROVE  TypeOK'
<1> USE DEF Calls, RND_ERROR
<1>1. ASSUME NEW p \in Proc, NEW a \in AreaSet, NEW r \in BOOLEAN, Lock(p, a, r)
      PROVE  TypeOK'
    BY <1>1 DEF Lock, Goto, Result, TypeOK
<1>2. ASSUME NEW p \in Proc, NEW a \in AreaSet, LockFails(p, a) PROVE TypeOK'
    BY <1>2 DEF LockFails, Result, TypeOK
<1>3. ASSUME NEW p \in Proc, Seek(p) PROVE TypeOK'
    BY <1>3 DEF Seek, Goto, Result, TypeOK
<1>4. ASSUME NEW p \in Proc, Read(p) PROVE TypeOK'
  <2>1. CASE "read" \in FailingCalls /\ Result(p, "LOCK_READ_FAILED") /\ Goto(p, "restore")
             /\ UNCHANGED <<buffer, seen>>
    BY <1>4, <2>1 DEF Read, Goto, Result, TypeOK
  <2>2. ASSUME NEW again \in Rereads,
               seen' = IF again THEN [seen EXCEPT ![p] = content] ELSE seen,
               buffer' = [buffer EXCEPT ![p] = Overlay(Blank, area[p], seen'[p])],
               Goto(p, "callback"), UNCHANGED rval
        PROVE  TypeOK'
    <3>1. seen' \in [Proc -> Contents]
      BY <2>2 DEF TypeOK
    <3>2. Overlay(Blank, area[p], seen'[p]) \in Contents
      BY <3>1, AreaType, BlankType, OverlayType
    <3> QED
      BY <1>4, <2>2, <3>1, <3>2 DEF Read, Goto, TypeOK
  <2> QED
    BY <1>4, <2>1, <2>2 DEF Read
<1>5. ASSUME NEW p \in Proc, CallbackReads(p) PROVE TypeOK'
    BY <1>5 DEF CallbackReads, Goto, Result, TypeOK
<1>6. ASSUME NEW p \in Proc, NEW u \in Updates, CallbackWrites(p, u) PROVE TypeOK'
  <2>1. buffer' \in [Proc -> Contents]
    BY <1>6 DEF CallbackWrites, TypeOK, Contents
  <2> QED
    BY <1>6, <2>1 DEF CallbackWrites, Goto, TypeOK
<1>7. ASSUME NEW p \in Proc, Write(p) PROVE TypeOK'
    BY <1>7 DEF Write, Goto, Result, TypeOK
<1>8. ASSUME NEW p \in Proc, Restore(p) PROVE TypeOK'
  <2>1. /\ Overlay(content, area[p], buffer[p]) \in Contents
        /\ Overlay(seen[p], area[p], buffer[p]) \in Contents
    BY AreaType, OverlayType DEF TypeOK
  <2> QED
    BY <1>8, <2>1 DEF Restore, Goto, TypeOK
<1>9. ASSUME NEW p \in Proc, Unlock(p) PROVE TypeOK'
  <2>1. done' \subseteq (AreaSet \cup {{}}) \X Updates
    BY <1>9 DEF Unlock, TypeOK
  <2> QED
    BY <1>9, <2>1, BlankType DEF Unlock, Finish, Goto, Result, TypeOK
<1>10. ASSUME NEW p \in Proc, Reopen(p) PROVE TypeOK'
    BY <1>10 DEF Reopen, FreeAll, TypeOK
<1>11. ASSUME NEW p \in Proc, Crash(p) PROVE TypeOK'
    BY <1>11, BlankType DEF Crash, FreeAll, Finish, Goto, Result, TypeOK
<1>12. CASE UNCHANGED vars
    BY <1>12 DEF vars, TypeOK
<1> QED
    BY <1>1, <1>2, <1>3, <1>4, <1>5, <1>6, <1>7, <1>8, <1>9, <1>10, <1>11, <1>12
       DEF Next, Advance

(* The type invariant holds for all processes, areas, updates and failures. *)
THEOREM TypeCorrect == Spec => []TypeOK
<1>1. TypeOK /\ [Next]_vars => TypeOK'
    BY TypeStep
<1> QED
    BY InitTypeOK, <1>1, PTL DEF Spec

-----------------------------------------------------------------------------
LEMMA InitIInv == Init => IInv
<1> SUFFICES ASSUME Init PROVE IInv
    OBVIOUS
<1>1. TypeOK
    BY InitTypeOK
<1>2. Stages /\ LocksHeld /\ UpdatesUnique /\ BufferCurrent
    BY DEF Init, Stages, LocksHeld, UpdatesUnique, OnItsWay, BufferCurrent, Blank
<1> QED
    BY <1>1, <1>2 DEF IInv

LEMMA InvStep ==
    ASSUME IInv, Rereads = {TRUE}, [Next]_vars
    PROVE  IInv'
<1> USE DEF IInv
<1>0. TypeOK'
    BY TypeStep
<1>1. ASSUME NEW p \in Proc, NEW a \in AreaSet, NEW r \in BOOLEAN, Lock(p, a, r)
      PROVE  Stages' /\ LocksHeld' /\ UpdatesUnique' /\ BufferCurrent'
  <2>1. Stages'
    BY <1>1 DEF Lock, TypeOK, Goto, Stages
  <2>2. LocksHeld'
    BY <1>1, AreaType, LocksAssumption DEF Lock, LockConflict, LocksHeld
  <2>3. UpdatesUnique'
    BY <1>1 DEF Lock, Goto, UpdatesUnique, OnItsWay
  <2>4. BufferCurrent'
    BY <1>1 DEF Lock, TypeOK, Goto, Stages, BufferCurrent, OnItsWay
  <2> QED
    BY <2>1, <2>2, <2>3, <2>4
<1>2. ASSUME NEW p \in Proc, NEW a \in AreaSet, LockFails(p, a)
      PROVE  Stages' /\ LocksHeld' /\ UpdatesUnique' /\ BufferCurrent'
  <2>1. Stages'
    BY <1>2 DEF LockFails, Stages
  <2>2. LocksHeld'
    BY <1>2 DEF LockFails, LocksHeld
  <2>3. UpdatesUnique'
    BY <1>2 DEF LockFails, UpdatesUnique, OnItsWay
  <2>4. BufferCurrent'
    BY <1>2 DEF LockFails, BufferCurrent, OnItsWay
  <2> QED
    BY <2>1, <2>2, <2>3, <2>4
<1>3. ASSUME NEW p \in Proc, Seek(p)
      PROVE  Stages' /\ LocksHeld' /\ UpdatesUnique' /\ BufferCurrent'
  <2>1. Stages'
    BY <1>3 DEF Seek, TypeOK, Goto, Stages
  <2>2. LocksHeld'
    BY <1>3 DEF Seek, LocksHeld
  <2>3. UpdatesUnique'
    BY <1>3 DEF Seek, TypeOK, Goto, UpdatesUnique, OnItsWay
  <2>4. BufferCurrent'
    BY <1>3 DEF Seek, TypeOK, Goto, BufferCurrent, OnItsWay
  <2> QED
    BY <2>1, <2>2, <2>3, <2>4
<1>4. ASSUME NEW p \in Proc, Read(p)
      PROVE  Stages' /\ LocksHeld' /\ UpdatesUnique' /\ BufferCurrent'
  <2>1. Stages'
    BY <1>4 DEF Read, TypeOK, Goto, Stages
  <2>2. LocksHeld'
    BY <1>4 DEF Read, LocksHeld
  <2>3. UpdatesUnique'
    BY <1>4 DEF Read, TypeOK, Goto, UpdatesUnique, OnItsWay
  <2>4. BufferCurrent'
    <3>1. CASE "read" \in FailingCalls /\ Goto(p, "restore") /\ UNCHANGED buffer
      BY <1>4, <3>1 DEF Read, Goto, BufferCurrent, OnItsWay
    <3>2. CASE buffer' = [buffer EXCEPT ![p] = Overlay(Blank, area[p], content)]
               /\ Goto(p, "callback")
      <4>1. \A c \in area[p] : Overlay(Blank, area[p], content)[c] = content[c]
        BY AreaType, BlankType, OverlayType DEF TypeOK
      <4> QED
        BY <1>4, <3>2, <4>1 DEF Read, Goto, TypeOK, BufferCurrent, OnItsWay, Stages
    <3> QED
      BY <1>4, <3>1, <3>2 DEF Read, TypeOK
  <2> QED
    BY <2>1, <2>2, <2>3, <2>4
<1>5. ASSUME NEW p \in Proc, CallbackReads(p)
      PROVE  Stages' /\ LocksHeld' /\ UpdatesUnique' /\ BufferCurrent'
  <2>1. Stages'
    BY <1>5 DEF CallbackReads, TypeOK, Goto, Stages
  <2>2. LocksHeld'
    BY <1>5 DEF CallbackReads, LocksHeld
  <2>3. UpdatesUnique'
    BY <1>5 DEF CallbackReads, TypeOK, Goto, UpdatesUnique, OnItsWay
  <2>4. BufferCurrent'
    BY <1>5 DEF CallbackReads, TypeOK, Goto, BufferCurrent, OnItsWay
  <2> QED
    BY <2>1, <2>2, <2>3, <2>4
<1>6. ASSUME NEW p \in Proc, NEW u \in Updates, CallbackWrites(p, u)
      PROVE  Stages' /\ LocksHeld' /\ UpdatesUnique' /\ BufferCurrent'
  <2>1. Stages'
    BY <1>6, LocksAssumption DEF CallbackWrites, TypeOK, Goto, Stages
  <2>2. LocksHeld'
    BY <1>6 DEF CallbackWrites, LocksHeld
  <2>3. UpdatesUnique'
    BY <1>6 DEF CallbackWrites, TypeOK, Goto, UpdatesUnique, OnItsWay
  <2>4. BufferCurrent'
    BY <1>6, AreaType DEF CallbackWrites, TypeOK, Goto, BufferCurrent, OnItsWay
  <2> QED
    BY <2>1, <2>2, <2>3, <2>4
<1>7. ASSUME NEW p \in Proc, Write(p)
      PROVE  Stages' /\ LocksHeld' /\ UpdatesUnique' /\ BufferCurrent'
  <2>1. Stages'
    BY <1>7 DEF Write, TypeOK, Goto, Stages
  <2>2. LocksHeld'
    BY <1>7 DEF Write, LocksHeld
  <2>3. UpdatesUnique'
    BY <1>7 DEF Write, TypeOK, Goto, UpdatesUnique, OnItsWay
  <2>4. BufferCurrent'
    BY <1>7 DEF Write, TypeOK, Goto, BufferCurrent, OnItsWay
  <2> QED
    BY <2>1, <2>2, <2>3, <2>4
<1>8. ASSUME NEW p \in Proc, Restore(p)
      PROVE  Stages' /\ LocksHeld' /\ UpdatesUnique' /\ BufferCurrent'
  <2>1. Stages'
    BY <1>8 DEF Restore, TypeOK, Goto, Stages
  <2>2. LocksHeld'
    BY <1>8 DEF Restore, LocksHeld
  <2>3. CASE UNCHANGED content
    <3>1. UpdatesUnique'
      BY <1>8, <2>3 DEF Restore, UpdatesUnique, OnItsWay, Goto
    <3>2. BufferCurrent'
      BY <1>8, <2>3 DEF Restore, BufferCurrent, OnItsWay, Goto
    <3> QED
      BY <2>1, <2>2, <3>1, <3>2
  <2>4. CASE pending[p] /\ content' = Overlay(content, area[p], buffer[p])
    <3>1. \A c \in Cells : content'[c] = IF c \in area[p] THEN content[c] \cup {update[p]}
                                       ELSE content[c]
      <4>1. content \in Contents /\ buffer[p] \in Contents /\ area[p] \in SUBSET Cells
        BY AreaType DEF TypeOK
      <4>2. \A c \in Cells : content'[c] = IF c \in area[p] THEN buffer[p][c] ELSE content[c]
        BY <2>4, <4>1, OverlayType
      <4>3. \A c \in area[p] : buffer[p][c] = content[c] \cup {update[p]}
        BY <2>4 DEF BufferCurrent, OnItsWay
      <4> QED
        BY <4>2, <4>3
    <3>2. update[p] # NoUpdate /\ update[p] \in used
      BY <2>4 DEF Stages, UpdatesUnique
    <3>3. /\ UNCHANGED <<area, retrieve, buffer, update, used>>
          /\ pc'[p] = "unlock" /\ ~pending'[p]
          /\ \A q \in Proc \ {p} : pc'[q] = pc[q] /\ pending'[q] = pending[q]
      BY <1>8 DEF Restore, Goto, TypeOK
    <3>4. UpdatesUnique'
      <4>1. \A c \in Cells : content'[c] \subseteq used'
        BY <3>1, <3>2, <3>3 DEF UpdatesUnique
      <4>2. ASSUME NEW q \in Proc, NEW c \in Cells, OnItsWay(q)'
            PROVE  update'[q] \notin content'[c]
        <5>1. q # p /\ OnItsWay(q) /\ update[q] # NoUpdate
          BY <3>3, <4>2 DEF OnItsWay, Stages
        <5>2. update[q] # update[p] /\ update[q] \notin content[c]
          BY <5>1 DEF UpdatesUnique
        <5> QED
          BY <3>1, <3>3, <5>2
      <4> QED
        BY <3>3, <4>1, <4>2 DEF UpdatesUnique
    <3>5. BufferCurrent'
      <4>1. ASSUME NEW q \in Proc \ {p}, NEW c \in area[q] PROVE content'[c] = content[c]
        BY <3>1, AreaType DEF LocksHeld
      <4> QED
        BY <3>3, <4>1 DEF BufferCurrent, OnItsWay
    <3> QED
      BY <2>1, <2>2, <3>4, <3>5
  <2> QED
    BY <1>8, <2>3, <2>4 DEF Restore
<1>9. ASSUME NEW p \in Proc, Unlock(p)
      PROVE  Stages' /\ LocksHeld' /\ UpdatesUnique' /\ BufferCurrent'
  <2>1. Stages'
    BY <1>9 DEF Unlock, TypeOK, Goto, Finish, Stages
  <2>2. LocksHeld'
    BY <1>9, AreaType DEF Unlock, TypeOK, Finish, LocksHeld
  <2>3. UpdatesUnique'
    BY <1>9 DEF Unlock, Goto, Finish, Stages, UpdatesUnique, OnItsWay
  <2>4. BufferCurrent'
    BY <1>9 DEF Unlock, TypeOK, Goto, Finish, BufferCurrent, OnItsWay
  <2> QED
    BY <2>1, <2>2, <2>3, <2>4
<1>10. ASSUME NEW p \in Proc, Reopen(p)
      PROVE  Stages' /\ LocksHeld' /\ UpdatesUnique' /\ BufferCurrent'
  <2>1. Stages'
    BY <1>10 DEF Reopen, Stages
  <2>2. LocksHeld'
    BY <1>10, AreaType DEF Reopen, FreeAll, Stages, LocksHeld
  <2>3. UpdatesUnique'
    BY <1>10 DEF Reopen, UpdatesUnique, OnItsWay
  <2>4. BufferCurrent'
    BY <1>10 DEF Reopen, BufferCurrent, OnItsWay
  <2> QED
    BY <2>1, <2>2, <2>3, <2>4
<1>11. ASSUME NEW p \in Proc, Crash(p)
      PROVE  Stages' /\ LocksHeld' /\ UpdatesUnique' /\ BufferCurrent'
  <2>1. Stages'
    BY <1>11 DEF Crash, TypeOK, Goto, Finish, Stages
  <2>2. LocksHeld'
    BY <1>11, AreaType DEF Crash, TypeOK, Finish, FreeAll, LocksHeld
  <2>3. UpdatesUnique'
    BY <1>11 DEF Crash, TypeOK, Goto, Finish, UpdatesUnique, OnItsWay
  <2>4. BufferCurrent'
    BY <1>11 DEF Crash, TypeOK, Goto, Finish, BufferCurrent, OnItsWay
  <2> QED
    BY <2>1, <2>2, <2>3, <2>4
<1>12. CASE UNCHANGED vars
    BY <1>12 DEF vars, TypeOK, Stages, LocksHeld, UpdatesUnique, OnItsWay, BufferCurrent
<1> QED
    BY <1>0, <1>1, <1>2, <1>3, <1>4, <1>5, <1>6, <1>7, <1>8, <1>9, <1>10, <1>11, <1>12
       DEF Next, Advance

(***************************************************************************)
(* The inductive invariant holds wherever the stream reads the file again. *)
(***************************************************************************)
THEOREM Invariance == Rereads = {TRUE} => (Spec => []IInv)
<1> SUFFICES ASSUME Rereads = {TRUE} PROVE Spec => []IInv
    OBVIOUS
<1>1. IInv /\ [Next]_vars => IInv'
    BY InvStep
<1> QED
    BY InitIInv, <1>1, PTL DEF Spec

(***************************************************************************)
(* A process between lock and unlock owns every byte of its area, and the  *)
(* callback works on what the file holds there.                            *)
(***************************************************************************)
THEOREM LockedAreaIsCurrent == Rereads = {TRUE} => (Spec => [](LocksHeld /\ FreshBuffer))
<1> SUFFICES ASSUME Rereads = {TRUE} PROVE Spec => [](LocksHeld /\ FreshBuffer)
    OBVIOUS
<1>1. IInv => LocksHeld /\ FreshBuffer
  <2> SUFFICES ASSUME IInv, NEW p \in Proc, retrieve[p], pc[p] \in {"callback", "write"},
                      NEW c \in area[p]
               PROVE  buffer[p][c] \ {update[p]} = content[c]
    BY DEF IInv, FreshBuffer
  <2>1. content[c] \subseteq Updates /\ c \in Cells
    BY AreaType DEF IInv, TypeOK, Contents
  <2>2. CASE pc[p] = "callback"
    <3>1. update[p] = NoUpdate /\ buffer[p][c] = content[c]
      BY <2>2 DEF IInv, Stages, BufferCurrent
    <3> QED
      BY <2>1, <3>1, LocksAssumption
  <2>3. CASE pc[p] = "write"
    BY <2>1, <2>3 DEF IInv, UpdatesUnique, BufferCurrent, OnItsWay
  <2> QED
    BY <2>2, <2>3
<1> QED
    BY Invariance, <1>1, PTL

-----------------------------------------------------------------------------
LEMMA AtomicStep ==
    ASSUME IInv, [Next]_vars
    PROVE  [Atomic!Next]_content
<1>1. ASSUME NEW p \in Proc, Restore(p), content' # content
      PROVE  Atomic!Update(area[p], update[p]) /\ area[p] \in AreaSet
             /\ update[p] \in Updates
  <2>1. pending[p] /\ content' = Overlay(content, area[p], buffer[p])
    BY <1>1 DEF Restore
  <2>2. content \in Contents /\ buffer[p] \in Contents /\ area[p] \in SUBSET Cells
    BY AreaType DEF IInv, TypeOK
  <2>3. \A c \in area[p] : buffer[p][c] = content[c] \cup {update[p]}
    BY <2>1 DEF IInv, BufferCurrent, OnItsWay
  <2>4. content' = [c \in Cells |-> IF c \in area[p] THEN content[c] \cup {update[p]}
                                    ELSE content[c]]
    BY <2>1, <2>3 DEF Overlay
  <2>5. \A c \in Cells : update[p] \notin content[c]
    BY <2>1 DEF IInv, UpdatesUnique, OnItsWay
  <2>6. update[p] \in Updates
    BY <2>1 DEF IInv, TypeOK, Stages
  <2>7. area[p] # {}
    BY <1>1, <2>2, <2>4 DEF Contents
  <2> QED
    BY <2>4, <2>5, <2>6, <2>7 DEF Atomic!Update, IInv, TypeOK
<1>2. content' = content \/ \E p \in Proc : Restore(p)
    BY DEF Next, Advance, Lock, LockFails, Seek, Read, CallbackReads, CallbackWrites, Write,
           Unlock, Reopen, Crash, vars
<1> QED
    BY <1>1, <1>2 DEF Atomic!Next

(***************************************************************************)
(* rnd_lock_area implements atomic updates of areas, whatever fails.       *)
(***************************************************************************)
THEOREM Implementation == Rereads = {TRUE} => (Spec => ImplementsAreas)
<1> SUFFICES ASSUME Rereads = {TRUE} PROVE Spec => Atomic!Spec
    BY DEF ImplementsAreas
<1>1. Init => Atomic!Init
    BY DEF Init, Atomic!Init, Blank
<1>2. IInv /\ [Next]_vars => [Atomic!Next]_content
    BY AtomicStep
<1> QED
    BY Invariance, <1>1, <1>2, PTL DEF Spec, Atomic!Spec

-----------------------------------------------------------------------------
LEMMA ContentGrows ==
    ASSUME IInv, [Next]_vars, NEW c \in Cells
    PROVE  content[c] \subseteq content'[c]
<1>1. [Atomic!Next]_content
    BY AtomicStep
<1> QED
    BY <1>1 DEF Atomic!Next, Atomic!Update

LEMMA SuccessStep ==
    ASSUME IInv, IInv', SuccessWritten, "restore" \notin FailingCalls, [Next]_vars
    PROVE  SuccessWritten'
<1> USE DEF IInv
<1> SUFFICES ASSUME NEW q \in Proc, (rval[q] = "SUCCESS" /\ update[q] # NoUpdate)'
             PROVE  /\ pc'[q] = "restore" => pending'[q]
                    /\ pc'[q] = "unlock" => \A c \in area'[q] : update'[q] \in content'[c]
    BY DEF SuccessWritten
<1>1. CASE pc'[q] = pc[q] /\ rval'[q] = rval[q] /\ update'[q] = update[q]
           /\ area'[q] = area[q] /\ pending'[q] = pending[q]
    BY <1>1, AreaType, ContentGrows DEF SuccessWritten
<1>2. CASE Write(q)
    BY <1>2 DEF Write, Goto, Result, TypeOK
<1>3. CASE Restore(q)
  <2>1. pending[q] /\ content' = Overlay(content, area[q], buffer[q])
        /\ UNCHANGED <<area, update>> /\ pc'[q] = "unlock"
    BY <1>3 DEF Restore, Goto, TypeOK, SuccessWritten
  <2>2. content \in Contents /\ buffer[q] \in Contents /\ area[q] \in SUBSET Cells
    BY AreaType DEF TypeOK
  <2>3. \A c \in area[q] : buffer[q][c] = content[c] \cup {update[q]}
    BY <2>1 DEF BufferCurrent, OnItsWay
  <2> QED
    BY <2>1, <2>2, <2>3 DEF Overlay
<1>4. CASE Seek(q) \/ Read(q) \/ CallbackReads(q) \/ \E u \in Updates : CallbackWrites(q, u)
    BY <1>4 DEF Seek, Read, CallbackReads, CallbackWrites, Goto, Result, TypeOK, Stages
<1>5. CASE Unlock(q) \/ Crash(q) \/ \E a \in AreaSet, r \in BOOLEAN : Lock(q, a, r)
    BY <1>5 DEF Unlock, Crash, Lock, Finish, Goto, TypeOK, Stages
<1>6. CASE \E a \in AreaSet : LockFails(q, a)
    BY <1>6 DEF LockFails, Stages
<1>7. CASE UNCHANGED vars \/ Reopen(q)
    BY <1>1, <1>7 DEF vars, Reopen
<1>8. ASSUME NEW p \in Proc \ {q},
             \/ \E a \in AreaSet, r \in BOOLEAN : Lock(p, a, r)
             \/ \E a \in AreaSet : LockFails(p, a)
             \/ Advance(p) \/ Reopen(p) \/ Crash(p)
      PROVE  pc'[q] = pc[q] /\ rval'[q] = rval[q] /\ update'[q] = update[q]
             /\ area'[q] = area[q] /\ pending'[q] = pending[q]
    BY <1>8 DEF Advance, Lock, LockFails, Seek, Read, CallbackReads, CallbackWrites, Write,
           Restore, Unlock, Reopen, Crash, Finish, Goto, Result, TypeOK
<1> QED
    BY <1>1, <1>2, <1>3, <1>4, <1>5, <1>6, <1>7, <1>8 DEF Next, Advance

LEMMA KeptStep ==
    ASSUME IInv, IInv', KeptInv, "restore" \notin FailingCalls, [Next]_vars
    PROVE  KeptInv'
<1>1. SuccessWritten'
    BY SuccessStep DEF KeptInv
<1>2. ASSUME NEW d \in done', NEW c \in d[1] PROVE d[2] \in content'[c]
  <2>1. CASE d \in done
    <3>1. d[2] \in content[c] /\ c \in Cells
      BY <1>2, <2>1, LocksAssumption DEF KeptInv, UpdatesKept, IInv, TypeOK
    <3> QED
      BY <3>1, ContentGrows
  <2>2. CASE d \notin done
    <3>1. PICK p \in Proc : Unlock(p) /\ rval'[p] = "SUCCESS" /\ update[p] # NoUpdate
                           /\ d = <<area[p], update[p]>>
      BY <2>2 DEF Next, Advance, Lock, LockFails, Seek, Read, CallbackReads, CallbackWrites,
             Write, Restore, Unlock, Reopen, Crash, vars
    <3>2. rval[p] = "SUCCESS" /\ pc[p] = "unlock" /\ content' = content
      BY <3>1 DEF Unlock, Result, IInv, TypeOK
    <3> QED
      BY <1>2, <3>1, <3>2 DEF KeptInv, SuccessWritten
  <2> QED
    BY <2>1, <2>2
<1> QED
    BY <1>1, <1>2 DEF KeptInv, UpdatesKept

(***************************************************************************)
(* What was reported as a success is in the file for good, if the fseek    *)
(* whose result nobody looks at does not fail.                             *)
(***************************************************************************)
THEOREM Durability ==
    Rereads = {TRUE} /\ "restore" \notin FailingCalls => (Spec => []UpdatesKept)
<1> SUFFICES ASSUME Rereads = {TRUE}, "restore" \notin FailingCalls
             PROVE  Spec => []UpdatesKept
    OBVIOUS
<1>1. Init => KeptInv
    BY DEF Init, KeptInv, SuccessWritten, UpdatesKept
<1>2. IInv /\ IInv' /\ KeptInv /\ [Next]_vars => KeptInv'
    BY KeptStep
<1>3. KeptInv => UpdatesKept
    BY DEF KeptInv
<1> QED
    BY Invariance, <1>1, <1>2, <1>3, PTL DEF Spec
=============================================================================
