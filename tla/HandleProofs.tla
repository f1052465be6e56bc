---------------------------- MODULE HandleProofs ----------------------------
(***************************************************************************)
(* Proofs about Handle, for all processes, sizes and failing calls.        *)
(***************************************************************************)
EXTENDS Handle, TLAPS

USE HandleAssumption

-----------------------------------------------------------------------------
(* Sizes *)

LEMMA LastByteType == \A c \in Nat : c < Word => LastByte(c) \in Nat
    BY DEF LastByte

(* A block that is not of size 0 ends with its last byte. *)
LEMMA LastByteIsLast == \A c \in 1 .. Word - 1 : LastByte(c) + 1 = c
    BY DEF LastByte

LEMMA RequestType ==
    ASSUME NEW h \in Requests
    PROVE  h \in HeadFile /\ h.chunk_size \in Nat /\ h.chunk_size < Word
<1>1. h.chunk_size \in 0 .. Word - 1 /\ h.rec_size \in Nat
    BY DEF Requests
<1>2. h = [chunk_size |-> h.chunk_size, rec_size |-> h.rec_size]
    BY DEF Requests
<1> QED
    BY <1>1, <1>2 DEF HeadFile

-----------------------------------------------------------------------------
(* Types *)

Safe == /\ TypeOK /\ StreamsAccounted
        /\ \A p \in Proc : /\ request[p] \in Requests \cup {ZeroHead}
                           /\ pc[p] = "fread" => request[p] = ZeroHead

LEMMA InitSafe == Init => Safe
<1> SUFFICES ASSUME Init PROVE Safe
    OBVIOUS
<1>1. ZeroHead \in HeadFile
    BY DEF ZeroHead, HeadFile
<1> QED
    BY <1>1 DEF Init, Safe, TypeOK, StreamsAccounted, Refused, Absent

LEMMA FopenSafe == ASSUME Safe, NEW p \in Proc, Fopen(p) PROVE Safe'
<1>1. ZeroHead \in HeadFile
    BY DEF ZeroHead, HeadFile
<1> QED
    BY <1>1 DEF Safe, TypeOK, StreamsAccounted, Refused, Fopen, Goto

LEMMA FopenCreateSafe ==
    ASSUME Safe, NEW p \in Proc, NEW h \in Requests, FopenCreate(p, h) PROVE Safe'
<1>1. ZeroHead \in HeadFile /\ h \in HeadFile
    BY RequestType DEF ZeroHead, HeadFile
<1> QED
    BY <1>1 DEF Safe, TypeOK, StreamsAccounted, Refused, FopenCreate, Goto

LEMMA FopenFailsSafe == ASSUME Safe, NEW p \in Proc, FopenFails(p) PROVE Safe'
<1>1. ZeroHead \in HeadFile
    BY DEF ZeroHead, HeadFile
<1> QED
    BY <1>1 DEF Safe, TypeOK, StreamsAccounted, Refused, FopenFails

LEMMA FirstBlockSafe == ASSUME Safe, NEW p \in Proc, FirstBlock(p) PROVE Safe'
<1> DEFINE last == LastByte(request[p].chunk_size)
<1>1. last \in Nat
  <2>1. CASE request[p] = ZeroHead
      BY <2>1, LastByteType DEF ZeroHead
  <2>2. CASE request[p] \in Requests
      BY <2>2, LastByteType, RequestType
  <2>3. request[p] \in Requests \/ request[p] = ZeroHead
      BY DEF Safe
  <2> QED
      BY <2>1, <2>2, <2>3
<1> HIDE DEF last
<1>2. length' \in Nat \cup {Absent}
    BY <1>1 DEF Safe, TypeOK, FirstBlock, Longer, Absent, last
<1> QED
    BY <1>2 DEF Safe, TypeOK, StreamsAccounted, Refused, FirstBlock, Goto, Abandon, Fclose

LEMMA WriteHeadSafe == ASSUME Safe, NEW p \in Proc, WriteHead(p) PROVE Safe'
<1>1. /\ pc[p] = "head" /\ request[p].chunk_size # 0
      /\ hhead' = [hhead EXCEPT ![p] = request[p]]
      /\ UNCHANGED <<length, head, request, stale, created>>
    BY DEF WriteHead
<1>2. request[p] # ZeroHead
    BY <1>1 DEF ZeroHead
<1>3. hfile[p] = "NULL" /\ streams[p] = 1
    BY <1>1, <1>2 DEF Safe, TypeOK, StreamsAccounted, Refused
<1>4. hhead' \in [Proc -> HeadFile]
    BY <1>1 DEF Safe, TypeOK
<1>5. CASE /\ pending' = [pending EXCEPT ![p] = "head"]
           /\ hfile' = [hfile EXCEPT ![p] = "open"]
           /\ Goto(p, "user") /\ UNCHANGED streams
    BY <1>1, <1>3, <1>4, <1>5 DEF Safe, TypeOK, StreamsAccounted, Refused, Goto
<1>6. CASE Abandon(p) /\ UNCHANGED <<pending, hfile>>
    BY <1>1, <1>3, <1>4, <1>6 DEF Safe, TypeOK, StreamsAccounted, Refused, Goto,
                                  Abandon, Fclose
<1> QED
    BY <1>5, <1>6 DEF WriteHead

LEMMA ReadHeadSafe == ASSUME Safe, NEW p \in Proc, ReadHead(p) PROVE Safe'
<1> USE DEF Safe, TypeOK, StreamsAccounted, Refused, Goto, Abandon, Fclose
<1>1. CASE Goto(p, "user")
  <2>1. /\ hhead' = [hhead EXCEPT ![p] = head]
        /\ stale' = [stale EXCEPT ![p] = FALSE]
        /\ hfile' = [hfile EXCEPT ![p] = "open"]
        /\ UNCHANGED <<streams, length, head, request, pending, created>>
      BY <1>1 DEF ReadHead
  <2> QED
      BY <1>1, <2>1 DEF ReadHead
<1>2. CASE Abandon(p)
  <2>1. pc' = [pc EXCEPT ![p] = "idle"] /\ streams' = [streams EXCEPT ![p] = @ - 1]
      BY <1>2
  <2>2. pc'[p] = "idle"
      BY <2>1
  <2>3. hfile' \in {hfile, [hfile EXCEPT ![p] = "closed"]}
      BY <2>2 DEF ReadHead
  <2>4. hhead' \in [Proc -> HeadFile] /\ stale' \in [Proc -> BOOLEAN]
    <3>1. \/ UNCHANGED <<hhead, stale>>
          \/ hhead' = [hhead EXCEPT ![p] = head] /\ stale' = [stale EXCEPT ![p] = FALSE]
        BY DEF ReadHead
    <3>2. hhead \in [Proc -> HeadFile] /\ head \in HeadFile /\ stale \in [Proc -> BOOLEAN]
        OBVIOUS
    <3>3. CASE UNCHANGED <<hhead, stale>>
        BY <3>2, <3>3
    <3>4. CASE hhead' = [hhead EXCEPT ![p] = head] /\ stale' = [stale EXCEPT ![p] = FALSE]
        BY <3>2, <3>4
    <3> QED
        BY <3>1, <3>3, <3>4
  <2>5. pc[p] = "fread" /\ UNCHANGED <<length, head, request, pending, created>>
      BY DEF ReadHead
  <2>6. hfile' \in [Proc -> {"NULL", "open", "closed"}]
        /\ \A q \in Proc : hfile'[q] = "open" <=> q # p /\ hfile[q] = "open"
      BY <2>3, <2>5
  <2>7. ASSUME NEW q \in Proc
        PROVE  /\ pc'[q] = "idle" => streams'[q] = 0
               /\ pc'[q] = "undefined" => streams'[q] = -1
               /\ pc'[q] \notin {"idle", "undefined"} => streams'[q] = 1
               /\ hfile'[q] = "open" <=> pc'[q] = "user"
      BY <2>1, <2>5, <2>6
  <2>8. hfile'[p] = "closed" => Refused(p)'
    <3>1. CASE hfile' = hfile /\ hhead' = hhead
        BY <2>5, <3>1
    <3>2. CASE hhead' = [hhead EXCEPT ![p] = head] /\ ~blocks_validate_head_file(head)
      <4>1. hhead'[p] = head
          BY <3>2
      <4>2. request'[p] = ZeroHead
          BY <2>5
      <4> QED
          BY <3>2, <4>1, <4>2
    <3> QED
        BY <2>2, <3>1, <3>2 DEF ReadHead
  <2>9. ASSUME NEW q \in Proc
        PROVE  streams'[q] < 0 \/ hfile'[q] = "closed" => Refused(q)'
    <3>1. CASE q = p
        BY <2>1, <2>5, <2>8, <3>1
    <3>2. CASE q # p
      <4>1. hfile'[q] = hfile[q] /\ hhead'[q] = hhead[q] /\ request'[q] = request[q]
            /\ streams'[q] = streams[q]
          BY <2>1, <2>3, <2>5, <3>2 DEF ReadHead
      <4> QED
          BY <4>1
    <3> QED
        BY <3>1, <3>2
  <2>10. TypeOK'
      BY <2>4, <2>5, <2>6, <2>1
  <2> QED
      BY <2>1, <2>5, <2>7, <2>9, <2>10
<1> QED
    BY <1>1, <1>2 DEF ReadHead

LEMMA FlushType ==
    ASSUME Safe, NEW p \in Proc, FlushHead(p) \/ LoseHead
    PROVE  length' \in Nat \cup {Absent} /\ head' \in HeadFile
    BY DEF Safe, TypeOK, FlushHead, LoseHead, Longer, SizeofHeadFile, Absent

LEMMA UserSeeksSafe == ASSUME Safe, NEW p \in Proc, UserSeeks(p) PROVE Safe'
<1>1. length' \in Nat \cup {Absent} /\ head' \in HeadFile
    BY FlushType DEF UserSeeks
<1> QED
    BY <1>1 DEF Safe, TypeOK, StreamsAccounted, Refused, UserSeeks

LEMMA CloseSafe == ASSUME Safe, NEW p \in Proc, Close(p) PROVE Safe'
<1>1. length' \in Nat \cup {Absent} /\ head' \in HeadFile
    BY FlushType DEF Close, Safe, TypeOK
<1>2. created' \in HeadFile
    BY DEF Close, Safe, TypeOK
<1> QED
    BY <1>1, <1>2 DEF Safe, TypeOK, StreamsAccounted, Refused, Close, Goto, Fclose

LEMMA CloseRawSafe == ASSUME Safe, NEW p \in Proc, CloseRaw(p) PROVE Safe'
<1>1. CASE hfile[p] = "NULL"
    BY <1>1 DEF Safe, TypeOK, StreamsAccounted, Refused, CloseRaw
<1>2. CASE hfile[p] # "NULL"
  <2>1. /\ pc' = [pc EXCEPT ![p] = "undefined"] /\ hfile' = [hfile EXCEPT ![p] = "NULL"]
        /\ streams' = [streams EXCEPT ![p] = @ - 1]
        /\ UNCHANGED <<length, head, hhead, request, pending, stale, created>>
      BY <1>2 DEF CloseRaw, Goto, Fclose
  <2>2. pc[p] = "idle" /\ hfile[p] = "closed" /\ Refused(p)
      BY <1>2 DEF CloseRaw, Safe, TypeOK, StreamsAccounted, Refused
  <2> QED
      BY <2>1, <2>2 DEF Safe, TypeOK, StreamsAccounted, Refused
<1> QED
    BY <1>1, <1>2

LEMMA CrashSafe == ASSUME Safe, NEW p \in Proc, Crash(p) PROVE Safe'
    BY DEF Safe, TypeOK, StreamsAccounted, Refused, Crash, Goto

LEMMA StepSafe == Safe /\ [Next]_vars => Safe'
<1> SUFFICES ASSUME Safe, [Next]_vars PROVE Safe'
    OBVIOUS
<1>1. CASE UNCHANGED vars
    BY <1>1 DEF vars, Safe, TypeOK, StreamsAccounted, Refused
<1>2. CASE Next
    BY <1>2, FopenSafe, FopenCreateSafe, FopenFailsSafe, FirstBlockSafe, WriteHeadSafe,
       ReadHeadSafe, UserSeeksSafe, CloseSafe, CloseRawSafe, CrashSafe DEF Next
<1> QED
    BY <1>1, <1>2

(***************************************************************************)
(* Every variable keeps its type, and streams are accounted for, however   *)
(* many processes create the file and whenever rnd_close_raw is called:    *)
(* the only stream closed twice is that of a file that was refused         *)
(* (blocks.c:518-607; recnodb.c:60-74).                                    *)
(***************************************************************************)
THEOREM StreamsAreAccounted == Spec => [](TypeOK /\ StreamsAccounted)
<1>1. Safe => TypeOK /\ StreamsAccounted
    BY DEF Safe
<1> QED
    BY <1>1, InitSafe, StepSafe, PTL DEF Spec

-----------------------------------------------------------------------------
(* The invariant, if there is one creator *)

OneCreator == \A p, q \in Creators : p = q

(* The head and the length of the file change only as its creator says. *)
DataInv == /\ FileInv /\ CreationKept
           /\ \A p \in Proc : Creating(p) => CreatorInv(p)
           /\ \A p \in Proc : ~Creating(p) => ReaderInv(p)

LEMMA InitData == Init => DataInv
    BY DEF Init, DataInv, FileInv, CreationKept, Creating, ReaderInv

LEMMA FopenData == ASSUME Safe, DataInv, NEW p \in Proc, Fopen(p) PROVE DataInv'
<1> USE DEF Fopen, Goto, Safe, TypeOK
<1>1. ~Creating(p)' /\ ReaderInv(p)'
    BY DEF DataInv, Creating, ReaderInv
<1>2. FileInv' /\ CreationKept'
    BY DEF DataInv, FileInv, CreationKept
<1>3. ASSUME NEW q \in Proc, q # p
      PROVE  (Creating(q)' => CreatorInv(q)') /\ (~Creating(q)' => ReaderInv(q)')
    BY <1>3 DEF DataInv, Creating, CreatorInv, ReaderInv
<1> QED
    BY <1>1, <1>2, <1>3 DEF DataInv

LEMMA FopenCreateData ==
    ASSUME OneCreator, Safe, DataInv, NEW p \in Proc, NEW h \in Requests, FopenCreate(p, h)
    PROVE  DataInv'
<1> USE DEF FopenCreate, Goto, Safe, TypeOK
<1>1. Creating(p)' /\ CreatorInv(p)'
    BY DEF DataInv, Creating, CreatorInv, ReaderInv
<1>2. FileInv' /\ CreationKept'
    BY DEF FileInv, CreationKept
<1>3. ASSUME NEW q \in Proc, q # p
      PROVE  ~Creating(q)' /\ ReaderInv(q)'
  <2>1. ~Creating(q)
      BY <1>3 DEF DataInv, CreatorInv, OneCreator
  <2> QED
      BY <1>3, <2>1 DEF DataInv, Creating, ReaderInv
<1> QED
    BY <1>1, <1>2, <1>3 DEF DataInv

LEMMA FopenFailsData == ASSUME Safe, DataInv, NEW p \in Proc, FopenFails(p) PROVE DataInv'
<1> USE DEF FopenFails, Safe, TypeOK
<1>1. FileInv' /\ CreationKept'
    BY DEF DataInv, FileInv, CreationKept
<1>2. ASSUME NEW q \in Proc
      PROVE  (Creating(q)' => CreatorInv(q)') /\ (~Creating(q)' => ReaderInv(q)')
    BY DEF DataInv, Creating, CreatorInv, ReaderInv
<1> QED
    BY <1>1, <1>2 DEF DataInv

(* While p creates the file nobody else does. *)
LEMMA Alone ==
    ASSUME OneCreator, DataInv, NEW p \in Proc, Creating(p), NEW q \in Proc, q # p
    PROVE  ~Creating(q) /\ ReaderInv(q)
    BY DEF DataInv, CreatorInv, OneCreator

LEMMA FirstBlockData ==
    ASSUME OneCreator, Safe, DataInv, NEW p \in Proc, FirstBlock(p) PROVE DataInv'
<1> USE DEF FirstBlock, Goto, Abandon, Fclose, Safe, TypeOK
<1>1. Creating(p)
    BY DEF Creating
<1>2. CreatorInv(p)
    BY <1>1 DEF DataInv
<1>3. head = ZeroHead /\ created = ZeroHead
    BY <1>2 DEF CreatorInv
<1>4. request[p].chunk_size \in Nat /\ request[p].chunk_size < Word
    BY <1>2, RequestType DEF CreatorInv
<1>5. pc'[p] = "head" => length' >= request[p].chunk_size
  <2>1. SUFFICES ASSUME pc'[p] = "head"
                 PROVE  length' >= request[p].chunk_size
      OBVIOUS
  <2>2. length' = Longer(LastByte(request[p].chunk_size) + 1)
      BY <2>1
  <2>3. LastByte(request[p].chunk_size) + 1 >= request[p].chunk_size
      BY <1>4, LastByteIsLast, LastByteType
  <2>4. LastByte(request[p].chunk_size) \in Nat
      BY <1>4, LastByteType
  <2> QED
      BY <1>4, <2>2, <2>3, <2>4 DEF Longer, Absent
<1>6. Creating(p)' => CreatorInv(p)'
    BY <1>2, <1>3, <1>5 DEF Creating, CreatorInv
<1>7. pending[p] = "no" \/ pc[p] = "user"
    BY <1>2 DEF CreatorInv
<1>8. ~Creating(p)' => ReaderInv(p)'
    BY <1>2, <1>7 DEF Creating, ReaderInv
<1>9. ASSUME NEW q \in Proc, q # p
      PROVE  ~Creating(q)' /\ ReaderInv(q)'
    BY <1>1, <1>9, Alone DEF Creating, ReaderInv
<1> QED
    BY <1>3, <1>6, <1>8, <1>9 DEF DataInv, FileInv, CreationKept

LEMMA WriteHeadData ==
    ASSUME OneCreator, Safe, DataInv, NEW p \in Proc, WriteHead(p) PROVE DataInv'
<1> USE DEF WriteHead, Goto, Abandon, Fclose, Safe, TypeOK
<1>1. Creating(p)
    BY DEF Creating
<1>2. CreatorInv(p)
    BY <1>1 DEF DataInv
<1>3. head = ZeroHead /\ created = ZeroHead
    BY <1>2 DEF CreatorInv
<1>4. Creating(p)' => CreatorInv(p)'
    BY <1>2, <1>3 DEF Creating, CreatorInv
<1>5. pc'[p] = "user" => request[p] # ZeroHead
    BY DEF ZeroHead
<1>6. ~Creating(p)' => ReaderInv(p)'
    BY <1>2, <1>5 DEF Creating, CreatorInv, ReaderInv
<1>7. ASSUME NEW q \in Proc, q # p
      PROVE  ~Creating(q)' /\ ReaderInv(q)'
    BY <1>1, <1>7, Alone DEF Creating, ReaderInv
<1> QED
    BY <1>3, <1>4, <1>6, <1>7 DEF DataInv, FileInv, CreationKept

LEMMA ReadHeadData == ASSUME Safe, DataInv, NEW p \in Proc, ReadHead(p) PROVE DataInv'
<1> USE DEF Goto, Abandon, Fclose, Safe, TypeOK
<1>1. pc[p] = "fread" /\ UNCHANGED <<length, head, request, pending, created>>
    BY DEF ReadHead
<1>2. FileInv' /\ CreationKept'
    BY <1>1 DEF DataInv, FileInv, CreationKept
<1>3. ASSUME NEW q \in Proc, q # p
      PROVE  (Creating(q)' => CreatorInv(q)') /\ (~Creating(q)' => ReaderInv(q)')
  <2>1. pc'[q] = pc[q] /\ hhead'[q] = hhead[q] /\ stale'[q] = stale[q]
      BY <1>3 DEF ReadHead
  <2> QED
      BY <1>1, <1>3, <2>1 DEF DataInv, Creating, CreatorInv, ReaderInv
<1>4. ReaderInv(p)
    BY <1>1 DEF DataInv, Creating
<1>5. pc'[p] = "user" =>
        hhead'[p] = head /\ head.chunk_size # 0
    BY <1>1 DEF ReadHead, blocks_validate_head_file
<1>6. ReaderInv(p)'
    BY <1>1, <1>4, <1>5 DEF ReaderInv
<1>7. pc'[p] \in {"user", "idle"}
    BY DEF ReadHead
<1>8. ~Creating(p)'
    BY <1>1, <1>4, <1>7 DEF Creating, ReaderInv
<1> QED
    BY <1>2, <1>3, <1>6, <1>8 DEF DataInv

(***************************************************************************)
(* The head that a creator's stream holds is written, or lost: in both     *)
(* cases the others, who have another file or none, see no difference.     *)
(***************************************************************************)
LEMMA FlushData ==
    ASSUME OneCreator, Safe, DataInv, NEW p \in Proc, pc[p] = "user", pending[p] = "head",
           FlushHead(p) \/ LoseHead
    PROVE  /\ CreatorInv(p) /\ Creating(p) /\ FileInv'
           /\ head = ZeroHead
           /\ length' >= request[p].chunk_size
           /\ FlushHead(p) => head' = request[p]
<1>1. Creating(p) /\ CreatorInv(p)
    BY DEF DataInv, ReaderInv
<1>2. request[p].chunk_size \in Nat /\ hhead[p] = request[p] /\ length \in Nat
    BY <1>1, RequestType DEF CreatorInv, Safe, TypeOK, Absent
<1>3. length' >= length /\ length' \in Nat
    BY <1>2 DEF FlushHead, LoseHead, Longer, SizeofHeadFile
<1>4. length' >= request[p].chunk_size
    BY <1>1, <1>2, <1>3 DEF CreatorInv
<1>5. FileInv'
    BY <1>1, <1>2, <1>4 DEF FileInv, FlushHead, LoseHead, CreatorInv
<1>6. head = ZeroHead
    BY <1>1 DEF CreatorInv
<1> QED
    BY <1>1, <1>2, <1>4, <1>5, <1>6 DEF FlushHead

LEMMA UserSeeksData ==
    ASSUME OneCreator, Safe, DataInv, NEW p \in Proc, UserSeeks(p) PROVE DataInv'
<1> USE DEF Safe, TypeOK
<1>1. pc[p] = "user" /\ pending[p] = "head" /\ (FlushHead(p) \/ LoseHead)
    BY DEF UserSeeks
<1>2. /\ CreatorInv(p) /\ Creating(p) /\ FileInv' /\ head = ZeroHead
      /\ length' >= request[p].chunk_size
      /\ FlushHead(p) => head' = request[p]
    BY <1>1, FlushData
<1>3. UNCHANGED <<pc, hfile, hhead, request, streams, stale, created>>
    BY DEF UserSeeks
<1>4. CreationKept'
    BY <1>2, <1>3 DEF CreatorInv, CreationKept
<1>5. Creating(p)' /\ CreatorInv(p)'
  <2>1. head' = IF pending'[p] = "no" THEN request[p] ELSE ZeroHead
      BY <1>1, <1>2 DEF UserSeeks, LoseHead, CreatorInv
  <2> QED
      BY <1>1, <1>2, <1>3, <2>1 DEF Creating, CreatorInv
<1>6. ASSUME NEW q \in Proc, q # p
      PROVE  ~Creating(q)' /\ ReaderInv(q)'
  <2>1. ~Creating(q) /\ ReaderInv(q)
      BY <1>2, <1>6, Alone
  <2>2. pending'[q] = pending[q]
      BY <1>6 DEF UserSeeks
  <2>3. pc[q] = "user" => stale[q]
      BY <1>2, <2>1 DEF ReaderInv, ZeroHead
  <2> QED
      BY <1>3, <2>1, <2>2, <2>3 DEF Creating, ReaderInv
<1> QED
    BY <1>2, <1>4, <1>5, <1>6 DEF DataInv

LEMMA CloseData ==
    ASSUME OneCreator, Safe, DataInv, NEW p \in Proc, Close(p) PROVE DataInv'
<1> USE DEF Safe, TypeOK
<1>1. /\ pc' = [pc EXCEPT ![p] = "idle"] /\ pending' = [pending EXCEPT ![p] = "no"]
      /\ UNCHANGED <<hhead, request, stale>>
    BY DEF Close, Goto
<1>2. ~Creating(p)' /\ ReaderInv(p)'
    BY <1>1 DEF Creating, ReaderInv
<1>3. CASE pending[p] = "head"
  <2>1. pc[p] = "user" /\ (FlushHead(p) \/ LoseHead)
      BY <1>3 DEF Close
  <2>2. /\ CreatorInv(p) /\ Creating(p) /\ FileInv' /\ head = ZeroHead
        /\ length' >= request[p].chunk_size
        /\ FlushHead(p) => head' = request[p]
      BY <1>3, <2>1, FlushData
  <2>3. created = ZeroHead
      BY <2>2 DEF CreatorInv
  <2>4. created' # ZeroHead => created' = request[p] /\ FlushHead(p)
      BY <1>3, <2>3 DEF Close
  <2>5. CreationKept'
      BY <2>2, <2>4 DEF CreationKept
  <2>6. ASSUME NEW q \in Proc, q # p
        PROVE  ~Creating(q)' /\ ReaderInv(q)'
    <3>1. ~Creating(q) /\ ReaderInv(q)
        BY <2>2, <2>6, Alone
    <3>2. pc[q] = "user" => stale[q]
        BY <2>2, <3>1 DEF ReaderInv, ZeroHead
    <3> QED
        BY <1>1, <2>6, <3>1, <3>2 DEF Creating, ReaderInv
  <2> QED
      BY <1>2, <2>2, <2>5, <2>6 DEF DataInv
<1>4. CASE pending[p] # "head"
  <2>1. /\ UNCHANGED <<head, length>> /\ pc[p] = "user"
        /\ created' = IF pending[p] = "no" /\ request[p] # ZeroHead
                      THEN request[p] ELSE created
      BY <1>4 DEF Close
  <2>2. FileInv'
      BY <2>1 DEF DataInv, FileInv
  <2>3. CASE created' = created
    <3>1. CreationKept'
        BY <2>1, <2>3 DEF DataInv, CreationKept
    <3>2. ASSUME NEW q \in Proc, q # p
          PROVE  (Creating(q)' => CreatorInv(q)') /\ (~Creating(q)' => ReaderInv(q)')
        BY <1>1, <2>1, <2>3, <3>2 DEF DataInv, Creating, CreatorInv, ReaderInv
    <3> QED
        BY <1>2, <2>2, <3>1, <3>2 DEF DataInv
  <2>4. CASE created' # created
    <3>1. created' = request[p] /\ pending[p] = "no" /\ request[p] # ZeroHead
        BY <2>1, <2>4
    <3>2. Creating(p) /\ CreatorInv(p)
        BY <2>1, <3>1 DEF DataInv, Creating
    <3>3. CreationKept'
        BY <2>1, <3>1, <3>2 DEF CreatorInv, CreationKept
    <3>4. ASSUME NEW q \in Proc, q # p
          PROVE  ~Creating(q)' /\ ReaderInv(q)'
      <4>1. ~Creating(q) /\ ReaderInv(q)
          BY <3>2, <3>4, Alone
      <4> QED
          BY <1>1, <2>1, <3>4, <4>1 DEF Creating, ReaderInv
    <3> QED
        BY <1>2, <2>2, <3>3, <3>4 DEF DataInv
  <2> QED
      BY <2>3, <2>4
<1> QED
    BY <1>3, <1>4

LEMMA CloseRawData == ASSUME Safe, DataInv, NEW p \in Proc, CloseRaw(p) PROVE DataInv'
<1> USE DEF Safe, TypeOK
<1>1. /\ pc[p] = "idle" /\ pc' \in {pc, [pc EXCEPT ![p] = "undefined"]}
      /\ UNCHANGED <<length, head, hhead, request, pending, stale, created>>
    BY DEF CloseRaw, Goto
<1>2. FileInv' /\ CreationKept'
    BY <1>1 DEF DataInv, FileInv, CreationKept
<1>3. ASSUME NEW q \in Proc
      PROVE  (Creating(q)' => CreatorInv(q)') /\ (~Creating(q)' => ReaderInv(q)')
    BY <1>1 DEF DataInv, Creating, CreatorInv, ReaderInv
<1> QED
    BY <1>1, <1>2, <1>3 DEF DataInv

LEMMA CrashData == ASSUME Safe, DataInv, NEW p \in Proc, Crash(p) PROVE DataInv'
<1> USE DEF Crash, Goto, Safe, TypeOK
<1>1. ~Creating(p)' /\ ReaderInv(p)'
    BY DEF Creating, ReaderInv
<1>2. FileInv' /\ CreationKept'
    BY DEF DataInv, FileInv, CreationKept
<1>3. ASSUME NEW q \in Proc, q # p
      PROVE  (Creating(q)' => CreatorInv(q)') /\ (~Creating(q)' => ReaderInv(q)')
    BY <1>3 DEF DataInv, Creating, CreatorInv, ReaderInv
<1> QED
    BY <1>1, <1>2, <1>3 DEF DataInv

LEMMA StepData == OneCreator /\ Safe /\ DataInv /\ [Next]_vars => DataInv'
<1> SUFFICES ASSUME OneCreator, Safe, DataInv, [Next]_vars PROVE DataInv'
    OBVIOUS
<1>1. CASE UNCHANGED vars
    BY <1>1 DEF vars, DataInv, FileInv, CreationKept, Creating, CreatorInv, ReaderInv
<1>2. CASE Next
    BY <1>2, FopenData, FopenCreateData, FopenFailsData, FirstBlockData, WriteHeadData,
       ReadHeadData, UserSeeksData, CloseData, CloseRawData, CrashData DEF Next
<1> QED
    BY <1>1, <1>2

LEMMA Promises == Safe /\ DataInv => IInv /\ UserGetsDatabase
<1> SUFFICES ASSUME Safe, DataInv PROVE IInv /\ UserGetsDatabase
    OBVIOUS
<1>1. IInv
    BY DEF Safe, DataInv, IInv
<1>2. ASSUME NEW p \in Proc, pc[p] = "user"
      PROVE  /\ hhead[p].chunk_size # 0
             /\ ~stale[p] => /\ length >= hhead[p].chunk_size
                             /\ head = hhead[p] \/ pending[p] # "no"
  <2>1. CASE Creating(p)
      BY <1>2, <2>1 DEF DataInv, CreatorInv
  <2>2. CASE ~Creating(p)
      BY <1>2, <2>2 DEF DataInv, ReaderInv, FileInv, ZeroHead
  <2> QED
      BY <2>1, <2>2
<1> QED
    BY <1>1, <1>2 DEF UserGetsDatabase

(***************************************************************************)
(* The inductive invariant of opening, creating and closing, if one        *)
(* process creates (blocks.c:518-607).                                     *)
(***************************************************************************)
THEOREM Invariance == OneCreator => (Spec => []IInv)
<1> SUFFICES ASSUME OneCreator PROVE Spec => []IInv
    OBVIOUS
<1>1. Safe /\ DataInv /\ [Next]_vars => Safe' /\ DataInv'
    BY StepSafe, StepData
<1> QED
    BY <1>1, InitSafe, InitData, Promises, PTL DEF Spec

(***************************************************************************)
(* The user's function works on a database: no half-made, torn or refused  *)
(* file gets to it (blocks.c:571-587).                                     *)
(***************************************************************************)
THEOREM UsersGetDatabases == OneCreator => (Spec => []UserGetsDatabase)
<1> SUFFICES ASSUME OneCreator PROVE Spec => []UserGetsDatabase
    OBVIOUS
<1>1. Safe /\ DataInv /\ [Next]_vars => Safe' /\ DataInv'
    BY StepSafe, StepData
<1> QED
    BY <1>1, InitSafe, InitData, Promises, PTL DEF Spec

(***************************************************************************)
(* A creation that was reported as a success stays (blocks.c:549-570).     *)
(***************************************************************************)
THEOREM CreationsAreKept == OneCreator => (Spec => []CreationKept)
<1> SUFFICES ASSUME OneCreator PROVE Spec => []CreationKept
    OBVIOUS
<1>1. IInv => CreationKept
    BY DEF IInv
<1> QED
    BY <1>1, Invariance, PTL
=============================================================================
