--------------------------- MODULE FlatRecsProofs ---------------------------
(***************************************************************************)
(* Proofs about FlatRecs, for all processes, tables, sizes of records,     *)
(* widths of uint32_t and failing calls.                                   *)
(***************************************************************************)
EXTENDS FlatRecs, TLAPS

USE FlatRecsAssumption

-----------------------------------------------------------------------------
(* Arithmetic *)

(* The result of an operation on unsigned numbers is one. *)
LEMMA WordRange == \A n \in Int : n % Word \in 0 .. Word - 1
    OBVIOUS

(* What fits in a uint32_t is not changed by it. *)
LEMMA WordFits == \A n \in 0 .. Word - 1 : n % Word = n
    OBVIOUS

LEMMA RecsizeType ==
    ASSUME NEW htable, htable.rec_size \in Nat
    PROVE  flatrecs_full_recsize(htable) \in 0 .. Word - 1
    BY WordRange DEF flatrecs_full_recsize

LEMMA DivType == \A n \in Nat, d \in Nat \ {0} : n \div d \in Nat
    OBVIOUS

LEMMA CapacityType ==
    ASSUME NEW htable, htable.rec_size \in Nat, NEW hblock \in InfoBlock
    PROVE  flatrecs_get_record_capacity(htable, hblock) \in Nat
<1> DEFINE bytes_capacity == (hblock.block_size - hblock.bytes_to_data) % Word
           recsize        == flatrecs_full_recsize(htable)
<1>1. bytes_capacity \in Nat
    BY WordRange DEF InfoBlock
<1>2. recsize \in Nat
    BY RecsizeType
<1> HIDE DEF bytes_capacity, recsize
<1>3. recsize > 0 => bytes_capacity \div recsize \in Nat
    BY <1>1, <1>2, DivType
<1> QED
    BY <1>3 DEF flatrecs_get_record_capacity, bytes_capacity, recsize

LEMMA RecnoAfterType ==
    ASSUME NEW first \in Nat, NEW hblock \in InfoBlock
    PROVE  RecnoAfter(first, hblock) \in Nat
    BY CapacityType DEF RecnoAfter

-----------------------------------------------------------------------------
(* Types *)

Labels == {"idle", "loop", "user", "write"}

(* The heads that a process's locals lead to. *)
LeadsTo(v) == {v.bhead.next_block, v.iblock.next_block, v.iblock_offset}

LEMMA NoLocalsType == NoLocals \in Locals
    BY DEF NoLocals, Start, NoHead, Block, Locals, InfoBlock, InfoTable, RND_ERROR, NoOffset

LEMMA StartType ==
    ASSUME NEW b \in InfoBlock, NEW t \in InfoTable, NEW o \in Int, NEW r \in Nat
    PROVE  Start(b, t, o, r) \in Locals
    BY DEF Start, Locals, RND_ERROR

LEMMA LoopTypes ==
    ASSUME NEW v \in Locals
    PROVE  /\ LocalIndex(v) \in Nat /\ NextStart(v) \in Nat
           /\ NewBlockSize(v) \in Nat /\ RecordOffset(v) \in Int
           /\ RecCapacity(v) \in Nat
<1>1. v.recno \in Nat /\ v.start_rec \in Nat /\ v.thead.rec_size \in Nat
      /\ v.iblock \in InfoBlock
    BY DEF Locals, InfoTable
<1>2. RecCapacity(v) \in Nat
    BY <1>1, CapacityType DEF RecCapacity
<1>3. LocalIndex(v) \in Nat
    BY <1>1, WordRange DEF LocalIndex
<1>4. NextStart(v) \in Nat
    BY <1>1, <1>2, WordRange DEF NextStart
<1>5. NewBlockSize(v) \in Nat
  <2> DEFINE needed == (flatrecs_full_recsize(v.thead) * (v.recno - NextStart(v))) % Word
             chunks == (needed + ChunkSize - 1) \div ChunkSize
  <2>1. flatrecs_full_recsize(v.thead) * (v.recno - NextStart(v)) \in Int
    BY <1>1, <1>4, RecsizeType
  <2>2. needed \in Nat
    BY <2>1, WordRange
  <2> HIDE DEF needed
  <2>3. chunks \in Nat
    <3>1. needed + ChunkSize - 1 \in Nat /\ ChunkSize \in Nat \ {0}
      BY <2>2
    <3> QED
      BY <3>1, DivType
  <2>4. chunks * ChunkSize \in Int
    BY <2>3
  <2> HIDE DEF chunks
  <2>5. (chunks * ChunkSize) % Word \in Nat
    BY <2>4, WordRange
  <2> QED
    BY <2>5 DEF NewBlockSize, needed, chunks
<1>6. RecordOffset(v) \in Int
  <2>1. LocalIndex(v) * flatrecs_full_recsize(v.thead) \in Int
    BY <1>1, <1>3, RecsizeType
  <2>2. (LocalIndex(v) * flatrecs_full_recsize(v.thead)) % Word \in Int
    BY <2>1, WordRange
  <2> QED
    BY <1>1, <2>2 DEF RecordOffset, InfoBlock
<1> QED
    BY <1>2, <1>3, <1>4, <1>5, <1>6

(* The file after a block was put at its end, with its head or without. *)
LEMMA NewHeadsType ==
    ASSUME size \in Nat, NEW s \in Nat, NEW b \in NewHeads(s)
    PROVE  /\ b \in InfoBlock /\ b.next_block = 0
           /\ b = Block(SizeofHeadBlock, s, 0) \/ b = NoHead
           /\ SizeWith(s, b) \in Nat /\ SizeWith(s, b) >= size
<1>1. b = Block(SizeofHeadBlock, s, 0) \/ b = NoHead
    BY DEF NewHeads
<1>2. b \in InfoBlock /\ b.next_block = 0
    BY <1>1 DEF NoHead, Block, InfoBlock, SizeofHeadBlock
<1>3. Extent(s) \in Nat
    BY DEF Extent, SizeofHeadBlock
<1> QED
    BY <1>1, <1>2, <1>3 DEF SizeWith

(* A step of p that leaves the others alone, and the file in order. *)
LEMMA TypeFrame ==
    ASSUME TypeInv, NEW p \in Proc,
           pc[p] = "idle" => lock = NoProc,
           size' \in Nat, DOMAIN head \subseteq DOMAIN head',
           DOMAIN head' \subseteq Nat, head' \in [DOMAIN head' -> InfoBlock],
           DOMAIN first_recno \subseteq DOMAIN first_recno',
           DOMAIN first_recno' \subseteq DOMAIN head',
           first_recno' \in [DOMAIN first_recno' -> Nat], WellFormed',
           thead' \in InfoTable, stored' \subseteq [recno : Nat, offset : Int],
           NEW l \in Labels, pc' = [pc EXCEPT ![p] = l],
           NEW v \in Locals, var' = [var EXCEPT ![p] = v],
           lock' = IF l = "idle" THEN NoProc ELSE p,
           l # "idle" => LeadsTo(v) \subseteq DOMAIN first_recno' /\ v.iblock_offset < size'
    PROVE  TypeInv'
<1>1. TypeOK'
    BY DEF TypeInv, TypeOK, Labels
<1>2. ASSUME NEW q \in Proc, pc'[q] # "idle"
      PROVE  /\ lock' = q /\ LeadsTo(var'[q]) \subseteq DOMAIN first_recno'
             /\ var'[q].iblock_offset < size'
  <2>1. CASE q = p
    BY <1>2, <2>1 DEF TypeInv, TypeOK
  <2>2. CASE q # p
    <3>1. pc[q] # "idle"
      BY <1>2, <2>2 DEF TypeInv, TypeOK
    <3>2. lock = q /\ pc[p] = "idle"
      BY <2>2, <3>1 DEF TypeInv, LockInv
    <3> QED
      BY <3>2
  <2> QED
    BY <2>1, <2>2
<1> QED
    BY <1>1, <1>2 DEF TypeInv, LockInv, LeadsTo

(* The labels and locals that Abandon leads to. *)
LEMMA AbandonType ==
    ASSUME TypeInv, NEW p \in Proc, pc[p] = "loop", Abandon(p)
    PROVE  \E l \in Labels, v \in Locals :
              /\ pc' = [pc EXCEPT ![p] = l] /\ var' = [var EXCEPT ![p] = v]
              /\ lock' = IF l = "idle" THEN NoProc ELSE p
              /\ l # "idle" => LeadsTo(v) \subseteq DOMAIN first_recno /\ v.iblock_offset < size
<1>1. /\ lock = p /\ LeadsTo(var[p]) \subseteq DOMAIN first_recno /\ var[p] \in Locals
      /\ var[p].iblock_offset < size
    BY DEF TypeInv, TypeOK, LockInv, LeadsTo
<1>2. CASE Leave(p)
    BY <1>2, NoLocalsType DEF Leave, Goto, Labels
<1>3. CASE Goto(p, "user") /\ UNCHANGED <<lock, var>>
  <2>1. var' = [var EXCEPT ![p] = var[p]]
    BY <1>3 DEF TypeInv, TypeOK
  <2> QED
    BY <1>1, <1>3, <2>1 DEF Goto, Labels
<1> QED
    BY <1>2, <1>3 DEF Abandon

(***************************************************************************)
(* Appending a block keeps the file in order, whether it is linked or not, *)
(* and also when it is put where a block without a head and without        *)
(* content was before.                                                     *)
(***************************************************************************)
LEMMA AppendType ==
    ASSUME TypeInv, NEW b \in InfoBlock, b.next_block = 0, size' \in Nat, size' >= size,
           \/ head' = HeadWith(b) /\ UNCHANGED first_recno
           \/ \E parent \in DOMAIN first_recno :
                  /\ parent < size
                  /\ head' = HeadLinked(b, parent) /\ first_recno' = FirstLinked(parent)
    PROVE  /\ DOMAIN head' = DOMAIN head \cup {size} /\ DOMAIN head' \subseteq Nat
           /\ head' \in [DOMAIN head' -> InfoBlock]
           /\ DOMAIN first_recno \subseteq DOMAIN first_recno'
           /\ DOMAIN first_recno' \subseteq DOMAIN head'
           /\ first_recno' \in [DOMAIN first_recno' -> Nat] /\ WellFormed'
<1> DEFINE D == DOMAIN head \cup {size}
           F == DOMAIN first_recno \cup {size}
           Placed(o, block) == o < size' \/ (o = size' /\ block.next_block = 0)
<1>1. /\ size \in Nat /\ DOMAIN head \subseteq Nat /\ head \in [DOMAIN head -> InfoBlock]
      /\ DOMAIN first_recno \subseteq DOMAIN head /\ 0 \in DOMAIN first_recno
      /\ first_recno \in [DOMAIN first_recno -> Nat] /\ 0 < size
      /\ \A o \in DOMAIN head : o < size \/ o = size
      /\ \A o \in DOMAIN first_recno : head[o].next_block \in DOMAIN first_recno
    BY DEF TypeInv, TypeOK, WellFormed
<1>2. HeadWith(b) \in [D -> InfoBlock] /\ D \subseteq Nat
    BY <1>1 DEF HeadWith
<1>3. (\A o \in D : o # size => o < size') /\ 0 < size' /\ (size < size' \/ size = size')
  <2>1. 0 < size' /\ (size < size' \/ size = size')
    <3>1. \A m, n \in Nat : 0 < m /\ n >= m => 0 < n /\ (m < n \/ m = n)
      OBVIOUS
    <3> QED
      BY <1>1, <3>1
  <2>2. ASSUME NEW o \in DOMAIN head, o # size PROVE o < size'
    <3>1. o \in Nat /\ o < size
      BY <1>1, <2>2
    <3> QED
      BY <1>1, <3>1
  <2> QED
    BY <2>1, <2>2
<1>4. /\ \A o \in D : Placed(o, HeadWith(b)[o])
      /\ \A o \in F : HeadWith(b)[o].next_block \in DOMAIN first_recno
  <2>1. HeadWith(b)[size] = b /\ \A o \in DOMAIN head \ {size} : HeadWith(b)[o] = head[o]
    BY DEF HeadWith
  <2> QED
    BY <1>1, <1>3, <2>1
<1>5. CASE head' = HeadWith(b) /\ UNCHANGED first_recno
  <2>1. DOMAIN head' = D /\ head' \in [DOMAIN head' -> InfoBlock] /\ DOMAIN head \subseteq D
    BY <1>2, <1>5
  <2> HIDE DEF D
  <2>2. WellFormed'
    BY <1>1, <1>3, <1>4, <1>5, <2>1 DEF WellFormed
  <2> QED
    BY <1>1, <1>2, <1>5, <2>1, <2>2 DEF D
<1>6. ASSUME NEW parent \in DOMAIN first_recno, parent < size,
             head' = HeadLinked(b, parent), first_recno' = FirstLinked(parent)
      PROVE  /\ head' \in [D -> InfoBlock] /\ first_recno' \in [F -> Nat]
             /\ \A o \in D : Placed(o, head'[o])
             /\ \A o \in F : head'[o].next_block \in F
  <2>1. RecnoAfter(first_recno[parent], head[parent]) \in Nat
    BY <1>1, RecnoAfterType
  <2>2. first_recno' \in [F -> Nat]
    BY <1>1, <1>6, <2>1 DEF FirstLinked
  <2>3. parent \in D /\ size \in D /\ size \in F /\ F \subseteq D
    BY <1>1
  <2>4. \A f \in [D -> InfoBlock], n \in Nat :
           /\ [f EXCEPT ![parent].next_block = n] \in [D -> InfoBlock]
           /\ \A o \in D : [f EXCEPT ![parent].next_block = n][o].next_block
                              = IF o = parent THEN n ELSE f[o].next_block
    BY DEF InfoBlock
  <2>5. head' \in [D -> InfoBlock]
        /\ \A o \in D : head'[o].next_block
                           = IF o = parent THEN size ELSE HeadWith(b)[o].next_block
    <3>1. HeadWith(b) \in [D -> InfoBlock] /\ size \in Nat
      BY <1>1, <1>2
    <3>2. head' = [HeadWith(b) EXCEPT ![parent].next_block = size]
      BY <1>6 DEF HeadLinked
    <3> HIDE DEF D
    <3> QED
      BY <2>4, <3>1, <3>2
  <2>6. \A o \in D : Placed(o, head'[o])
    BY <1>3, <1>4, <1>6, <2>5
  <2>7. \A o \in F : head'[o].next_block \in F
    BY <1>4, <2>3, <2>5
  <2> QED
    BY <2>2, <2>5, <2>6, <2>7
<1>7. ASSUME NEW parent \in DOMAIN first_recno, parent < size,
             head' = HeadLinked(b, parent), first_recno' = FirstLinked(parent)
      PROVE  /\ DOMAIN head' = D /\ DOMAIN first_recno' = F /\ WellFormed'
             /\ head' \in [DOMAIN head' -> InfoBlock]
             /\ first_recno' \in [DOMAIN first_recno' -> Nat]
  <2>1. DOMAIN head' = D /\ DOMAIN first_recno' = F /\ 0 \in F /\ 0 < size'
    BY <1>1, <1>3, <1>6, <1>7
  <2> HIDE DEF D, F
  <2> QED
    BY <1>6, <1>7, <2>1 DEF WellFormed
<1>8. D \subseteq Nat /\ DOMAIN first_recno \subseteq F /\ F \subseteq D
    BY <1>1
<1> QED
    BY <1>1, <1>2, <1>5, <1>7, <1>8

LEMMA RetryType ==
    ASSUME TypeInv, NEW p \in Proc, pc[p] = "loop",
           NEW err \in RND_ERROR, Retry(p, err)
    PROVE  \E v \in Locals :
              /\ pc' = [pc EXCEPT ![p] = "loop"] /\ var' = [var EXCEPT ![p] = v]
              /\ lock' = p /\ LeadsTo(v) \subseteq DOMAIN first_recno
              /\ v.iblock_offset < size
<1> DEFINE v == [var[p] EXCEPT !.start_rec = NextStart(var[p]), !.rval = err,
                               !.clean = FALSE]
<1>1. /\ var[p] \in Locals /\ lock = p /\ LeadsTo(var[p]) \subseteq DOMAIN first_recno
      /\ var[p].iblock_offset < size
    BY DEF TypeInv, TypeOK, LockInv, LeadsTo
<1>2. v \in Locals
    BY <1>1, LoopTypes DEF Locals
<1>3. LeadsTo(v) = LeadsTo(var[p]) /\ v.iblock_offset = var[p].iblock_offset
    BY <1>1 DEF Locals, LeadsTo
<1>4. var' = [var EXCEPT ![p] = v]
    BY DEF Retry, TypeInv, TypeOK
<1>5. pc' = [pc EXCEPT ![p] = "loop"] /\ lock' = p
    BY <1>1 DEF Retry, TypeInv, TypeOK
<1> QED
    BY <1>1, <1>2, <1>3, <1>4, <1>5

LEMMA TypeStep ==
    ASSUME TypeInv, [Next]_vars
    PROVE  TypeInv'
<1> USE DEF Labels
<1>a. ASSUME NEW p \in Proc, pc[p] # "idle"
      PROVE  lock = p /\ LeadsTo(var[p]) \subseteq DOMAIN first_recno
             /\ var[p].iblock_offset < size
    BY <1>a DEF TypeInv, LockInv, LeadsTo
<1>b. /\ size \in Nat /\ DOMAIN head \subseteq Nat /\ head \in [DOMAIN head -> InfoBlock]
      /\ DOMAIN first_recno \subseteq DOMAIN head
      /\ first_recno \in [DOMAIN first_recno -> Nat]
      /\ thead \in InfoTable /\ stored \subseteq [recno : Nat, offset : Int]
      /\ \A p \in Proc : var[p] \in Locals
    BY DEF TypeInv, TypeOK
<1>c. WellFormed
    BY DEF TypeInv
<1>1. ASSUME NEW p \in Proc, GetNextOffset(p) PROVE TypeInv'
  <2> DEFINE v == Start(head[0], thead, NoOffset, NewRecno(thead))
  <2>1. head[0] \in InfoBlock /\ head[0].next_block \in DOMAIN first_recno
    BY <1>b, <1>c DEF WellFormed
  <2>2. NewRecno(thead) \in Nat
    BY <1>b, WordRange DEF NewRecno, InfoTable
  <2>3. v \in Locals
    <3>1. NoOffset \in Int
      BY DEF NoOffset
    <3> QED
      BY <1>b, <2>1, <2>2, <3>1, StartType
  <2>4. LeadsTo(v) \subseteq DOMAIN first_recno /\ v.iblock_offset < size
    BY <1>c, <2>1 DEF LeadsTo, Start, WellFormed
  <2>5. UNCHANGED <<size, head, first_recno, thead, stored>> /\ var' = [var EXCEPT ![p] = v]
        /\ pc' = [pc EXCEPT ![p] = "loop"] /\ lock' = p /\ lock = NoProc
    BY <1>1 DEF GetNextOffset, Goto, TableFree
  <2>6. WellFormed'
    BY <1>c, <2>5 DEF WellFormed
  <2> HIDE DEF v
  <2> QED
    BY <1>b, <2>3, <2>4, <2>5, <2>6, TypeFrame
<1>2. ASSUME NEW p \in Proc, Found(p) PROVE TypeInv'
  <2> DEFINE o == IF var[p].offset_new_record = NoOffset THEN RecordOffset(var[p])
                  ELSE var[p].offset_new_record
             v == [var[p] EXCEPT !.rval = "SUCCESS", !.offset_new_record = o]
  <2>1. o \in Int
    BY <1>b, LoopTypes DEF Locals
  <2>2. v \in Locals /\ LeadsTo(v) = LeadsTo(var[p])
        /\ v.iblock_offset = var[p].iblock_offset
    BY <1>b, <2>1 DEF Locals, RND_ERROR, LeadsTo
  <2>3. var' = [var EXCEPT ![p] = v]
    BY <1>2 DEF Found, TypeInv, TypeOK
  <2>4. UNCHANGED <<size, head, first_recno, thead, stored, lock>> /\ pc[p] = "loop"
        /\ pc' = [pc EXCEPT ![p] = "user"]
    BY <1>2 DEF Found, Goto
  <2>5. WellFormed'
    BY <1>c, <2>4 DEF WellFormed
  <2> HIDE DEF v
  <2> QED
    BY <1>a, <1>b, <2>2, <2>3, <2>4, <2>5, TypeFrame
<1>3. ASSUME NEW p \in Proc, NextBlock(p) PROVE TypeInv'
  <2>1. UNCHANGED <<size, head, first_recno, thead, stored>> /\ pc[p] = "loop"
    BY <1>3 DEF NextBlock
  <2>2. WellFormed'
    BY <1>c, <2>1 DEF WellFormed
  <2>3. CASE Abandon(p)
    BY <1>a, <1>b, <2>1, <2>2, <2>3, AbandonType, TypeFrame
  <2>4. CASE /\ ~ShortRead(var[p].iblock.next_block)
             /\ var' = [var EXCEPT ![p] = AtNext(@)] /\ UNCHANGED <<lock, pc>>
    <3> DEFINE n == var[p].iblock.next_block
    <3>1. n \in DOMAIN first_recno /\ var[p].bhead.next_block \in DOMAIN first_recno
      BY <1>a, <2>1 DEF LeadsTo
    <3>2. head[n] \in InfoBlock /\ n \in Nat /\ head[n].next_block \in DOMAIN first_recno
      BY <1>b, <1>c, <3>1 DEF WellFormed
    <3>3. AtNext(var[p]) = [var[p] EXCEPT !.start_rec = NextStart(var[p]),
             !.rval = "SUCCESS", !.iblock = head[n], !.iblock_offset = n]
      BY DEF AtNext
    <3> HIDE DEF n
    <3>4. AtNext(var[p]) \in Locals
      <4> DEFINE h == head[n]
                 i == NextStart(var[p])
      <4>1. /\ h \in InfoBlock /\ i \in Nat /\ n \in Nat /\ var[p] \in Locals
            /\ AtNext(var[p]) = [var[p] EXCEPT !.start_rec = i, !.rval = "SUCCESS",
                                    !.iblock = h, !.iblock_offset = n]
        BY <1>b, <3>2, <3>3, LoopTypes
      <4> HIDE DEF h, i
      <4> QED
        BY <4>1 DEF Locals, RND_ERROR
    <3>5. LeadsTo(AtNext(var[p])) = {var[p].bhead.next_block, head[n].next_block, n}
          /\ AtNext(var[p]).iblock_offset = n
      BY <1>b, <3>3 DEF Locals, LeadsTo
    <3>6. pc' = [pc EXCEPT ![p] = "loop"] /\ lock' = p
      BY <1>a, <2>1, <2>4 DEF TypeInv, TypeOK
    <3>7. n < size
      BY <1>b, <2>4, <3>2 DEF ShortRead, SizeofHeadBlock, n
    <3>8. LeadsTo(AtNext(var[p])) \subseteq DOMAIN first_recno
          /\ AtNext(var[p]).iblock_offset < size
      BY <3>1, <3>2, <3>5, <3>7
    <3>9. var' = [var EXCEPT ![p] = AtNext(var[p])]
      BY <2>4
    <3> QED
      BY <1>b, <2>1, <2>2, <3>4, <3>6, <3>8, <3>9, TypeFrame
  <2> QED
    BY <1>3, <2>3, <2>4 DEF NextBlock
<1>4. ASSUME NEW p \in Proc, AppendFails(p) PROVE TypeInv'
  <2>1. UNCHANGED <<head, first_recno, thead, stored>> /\ pc[p] = "loop"
    BY <1>4 DEF AppendFails, AtEnd
  <2>2. size' \in Nat /\ size' >= size
    BY <1>4, <1>b, LoopTypes DEF AppendFails
  <2>3. WellFormed'
    BY <1>b, <1>c, <2>1, <2>2 DEF WellFormed
  <2>4. PICK err \in RND_ERROR : Retry(p, err)
    BY <1>4 DEF AppendFails, RND_ERROR
  <2>5. PICK v \in Locals :
              /\ pc' = [pc EXCEPT ![p] = "loop"] /\ var' = [var EXCEPT ![p] = v]
              /\ lock' = p /\ LeadsTo(v) \subseteq DOMAIN first_recno
              /\ v.iblock_offset < size
    BY <2>1, <2>4, RetryType
  <2>6. v.iblock_offset < size'
    BY <1>b, <2>2, <2>5 DEF Locals
  <2> QED
    BY <1>a, <1>b, <2>1, <2>2, <2>3, <2>5, <2>6, TypeFrame
<1>5. ASSUME NEW p \in Proc, LinkFails(p) PROVE TypeInv'
  <2>1. UNCHANGED <<first_recno, thead, stored>> /\ pc[p] = "loop"
    BY <1>5 DEF LinkFails, AtEnd
  <2>2. NewBlockSize(var[p]) \in Nat
    BY <1>b, LoopTypes
  <2>3. PICK b \in NewHeads(NewBlockSize(var[p])) :
           size' = SizeWith(NewBlockSize(var[p]), b) /\ head' = HeadWith(b)
    BY <1>5 DEF LinkFails
  <2>4. b \in InfoBlock /\ b.next_block = 0 /\ size' \in Nat /\ size' >= size
    BY <1>b, <2>2, <2>3, NewHeadsType
  <2>5. /\ DOMAIN head \subseteq DOMAIN head' /\ DOMAIN head' \subseteq Nat
        /\ head' \in [DOMAIN head' -> InfoBlock]
        /\ DOMAIN first_recno' \subseteq DOMAIN head' /\ WellFormed'
    BY <2>1, <2>3, <2>4, AppendType
  <2>6. PICK err \in RND_ERROR : Retry(p, err)
    BY <1>5 DEF LinkFails, RND_ERROR
  <2>7. PICK v \in Locals :
              /\ pc' = [pc EXCEPT ![p] = "loop"] /\ var' = [var EXCEPT ![p] = v]
              /\ lock' = p /\ LeadsTo(v) \subseteq DOMAIN first_recno
              /\ v.iblock_offset < size
    BY <2>1, <2>6, RetryType
  <2>8. v.iblock_offset < size'
    BY <1>b, <2>4, <2>7 DEF Locals
  <2> QED
    BY <1>a, <1>b, <2>1, <2>4, <2>5, <2>7, <2>8, TypeFrame
<1>6. ASSUME NEW p \in Proc, Extend(p) PROVE TypeInv'
  <2> DEFINE s == NewBlockSize(var[p])
             parent == var[p].iblock_offset
  <2>1. UNCHANGED stored /\ pc[p] = "loop"
    BY <1>6 DEF Extend, AtEnd
  <2>2. /\ s \in Nat /\ parent \in DOMAIN first_recno /\ parent < size
        /\ LeadsTo(var[p]) \subseteq DOMAIN first_recno
    BY <1>a, <1>b, <2>1, LoopTypes DEF LeadsTo
  <2>3. PICK b \in NewHeads(s) :
           /\ size' = SizeWith(s, b)
           /\ \/ /\ SizeWith(s, b) >= size + SizeofHeadBlock
                 /\ WriteLink(b, parent)
                 /\ var' = [var EXCEPT ![p].start_rec = NextStart(var[p]),
                                       ![p].iblock = b,
                                       ![p].iblock_offset = size,
                                       ![p].rval = "SUCCESS"]
                 /\ UNCHANGED <<lock, pc>>
              \/ /\ \/ WriteLink(b, parent)
                    \/ head' = HeadWith(b) /\ UNCHANGED <<first_recno, thead>>
                 /\ Abandon(p)
    <3>1. PICK b \in NewHeads(s) :
             LET short == SizeWith(s, b) < size + SizeofHeadBlock
             IN  /\ size' = SizeWith(s, b)
                 /\ \/ /\ ~short
                       /\ WriteLink(b, parent)
                       /\ var' = [var EXCEPT ![p].start_rec = NextStart(var[p]),
                                             ![p].iblock = b,
                                             ![p].iblock_offset = size,
                                             ![p].rval = "SUCCESS"]
                       /\ UNCHANGED <<lock, pc>>
                    \/ /\ \/ WriteLink(b, parent)
                          \/ head' = HeadWith(b) /\ UNCHANGED <<first_recno, thead>>
                       /\ Abandon(p)
      BY <1>6 DEF Extend
    <3>2. SizeWith(s, b) \in Nat /\ size + SizeofHeadBlock \in Nat
      BY <1>b, <2>2, NewHeadsType DEF SizeofHeadBlock
    <3>3. ~(SizeWith(s, b) < size + SizeofHeadBlock)
            => SizeWith(s, b) >= size + SizeofHeadBlock
      BY <3>2
    <3> HIDE DEF s, parent
    <3> QED
      BY <3>1, <3>3
  <2>4. thead' \in InfoTable
    BY <1>b, <2>3 DEF WriteLink
  <2> HIDE DEF s, parent
  <2>5. b \in InfoBlock /\ b.next_block = 0 /\ size' \in Nat /\ size' >= size
    BY <1>b, <2>2, <2>3, NewHeadsType
  <2>6. \/ head' = HeadLinked(b, parent) /\ first_recno' = FirstLinked(parent)
        \/ head' = HeadWith(b) /\ UNCHANGED first_recno
    BY <2>3 DEF WriteLink
  <2>7. /\ DOMAIN head \subseteq DOMAIN head' /\ DOMAIN head' \subseteq Nat
        /\ head' \in [DOMAIN head' -> InfoBlock]
        /\ DOMAIN first_recno \subseteq DOMAIN first_recno'
        /\ DOMAIN first_recno' \subseteq DOMAIN head'
        /\ first_recno' \in [DOMAIN first_recno' -> Nat] /\ WellFormed'
    BY <2>2, <2>5, <2>6, AppendType
  <2>8. CASE Abandon(p)
    <3>1. PICK l \in Labels, v \in Locals :
              /\ pc' = [pc EXCEPT ![p] = l] /\ var' = [var EXCEPT ![p] = v]
              /\ lock' = IF l = "idle" THEN NoProc ELSE p
              /\ l # "idle" => LeadsTo(v) \subseteq DOMAIN first_recno /\ v.iblock_offset < size
      BY <2>1, <2>8, AbandonType
    <3>2. l # "idle" => LeadsTo(v) \subseteq DOMAIN first_recno' /\ v.iblock_offset < size'
      BY <1>b, <2>5, <2>7, <3>1 DEF Locals
    <3> QED
      BY <1>b, <2>1, <2>4, <2>5, <2>7, <3>1, <3>2, TypeFrame
  <2>9. CASE /\ SizeWith(s, b) >= size + SizeofHeadBlock
             /\ WriteLink(b, parent)
             /\ var' = [var EXCEPT ![p].start_rec = NextStart(var[p]),
                                   ![p].iblock = b,
                                   ![p].iblock_offset = size,
                                   ![p].rval = "SUCCESS"]
             /\ UNCHANGED <<lock, pc>>
    <3> DEFINE v == [var[p] EXCEPT !.start_rec = NextStart(var[p]), !.iblock = b,
                                   !.iblock_offset = size, !.rval = "SUCCESS"]
    <3>1. v \in Locals
      <4>1. NextStart(var[p]) \in Nat /\ var[p] \in Locals /\ size \in Nat
        BY <1>b, LoopTypes
      <4> QED
        BY <2>5, <4>1 DEF Locals, RND_ERROR
    <3>2. LeadsTo(v) = {var[p].bhead.next_block, 0, size} /\ v.iblock_offset = size
      BY <1>b, <2>5 DEF Locals, LeadsTo
    <3>3. var' = [var EXCEPT ![p] = v]
      BY <2>9 DEF TypeInv, TypeOK
    <3>4. pc' = [pc EXCEPT ![p] = "loop"] /\ lock' = p
      BY <1>a, <2>1, <2>9 DEF TypeInv, TypeOK
    <3>5. LeadsTo(v) \subseteq DOMAIN first_recno'
      <4>1. size \in DOMAIN first_recno'
        BY <2>9 DEF WriteLink, FirstLinked
      <4> QED
        BY <1>c, <2>2, <2>7, <3>2, <4>1 DEF LeadsTo, WellFormed
    <3>6. v.iblock_offset < size'
      BY <1>b, <2>3, <2>5, <2>9, <3>2 DEF SizeofHeadBlock
    <3> HIDE DEF v
    <3> QED
      BY <1>b, <2>1, <2>4, <2>5, <2>7, <3>1, <3>3, <3>4, <3>5, <3>6, TypeFrame
  <2> QED
    BY <2>3, <2>8, <2>9
<1>7. ASSUME NEW p \in Proc, NEW r \in Asked, UserAsks(p, r) PROVE TypeInv'
  <2> DEFINE v == Start(var[p].bhead, var[p].thead, var[p].offset_new_record, r)
  <2>1. v \in Locals
    BY <1>b, StartType DEF Locals
  <2>2. UNCHANGED <<size, head, first_recno, thead, stored, lock>> /\ pc[p] = "user"
        /\ var' = [var EXCEPT ![p] = v] /\ pc' = [pc EXCEPT ![p] = "loop"]
    BY <1>7 DEF UserAsks, Goto
  <2>3. LeadsTo(v) \subseteq DOMAIN first_recno /\ v.iblock_offset < size
    BY <1>a, <1>c, <2>2 DEF LeadsTo, Start, WellFormed
  <2>4. WellFormed'
    BY <1>c, <2>2 DEF WellFormed
  <2> HIDE DEF v
  <2> QED
    BY <1>a, <1>b, <2>1, <2>2, <2>3, <2>4, TypeFrame
<1>8. ASSUME NEW p \in Proc, UserDeclines(p) \/ Crash(p) PROVE TypeInv'
  <2>1. UNCHANGED <<size, head, first_recno, thead, stored>> /\ pc[p] # "idle" /\ Leave(p)
    BY <1>8 DEF UserDeclines, Crash
  <2>2. WellFormed'
    BY <1>c, <2>1 DEF WellFormed
  <2> QED
    BY <1>b, <2>1, <2>2, NoLocalsType, TypeFrame DEF Leave, Goto
<1>9. ASSUME NEW p \in Proc, UserStores(p) PROVE TypeInv'
  <2> DEFINE v == [var[p] EXCEPT !.thead.last_recno = NewRecno(var[p].thead)]
  <2>1. NewRecno(var[p].thead) \in Nat
    BY <1>b, WordRange DEF NewRecno, Locals, InfoTable
  <2>2. v \in Locals /\ LeadsTo(v) = LeadsTo(var[p])
        /\ v.iblock_offset = var[p].iblock_offset
    BY <1>b, <2>1 DEF Locals, InfoTable, LeadsTo
  <2>3. UNCHANGED <<size, head, first_recno, thead, stored, lock>> /\ pc[p] = "user"
        /\ pc' = [pc EXCEPT ![p] = "write"] /\ var' = [var EXCEPT ![p] = v]
    BY <1>9 DEF UserStores, Goto, TypeInv, TypeOK
  <2>4. WellFormed'
    BY <1>c, <2>3 DEF WellFormed
  <2> HIDE DEF v
  <2> QED
    BY <1>a, <1>b, <2>2, <2>3, <2>4, TypeFrame
<1>10. ASSUME NEW p \in Proc, WriteBack(p) PROVE TypeInv'
  <2>1. UNCHANGED size /\ pc[p] = "write" /\ Leave(p)
    BY <1>10 DEF WriteBack
  <2>2. /\ var[p].bhead \in InfoBlock /\ var[p].bhead.next_block \in DOMAIN first_recno
        /\ var[p].thead \in InfoTable /\ var[p].offset_new_record \in Int
    BY <1>a, <1>b, <2>1 DEF Locals, LeadsTo
  <2>3. head' = head \/ head' = [head EXCEPT ![0] = var[p].bhead]
    BY <1>10 DEF WriteBack
  <2>4. DOMAIN head' = DOMAIN head /\ head' \in [DOMAIN head' -> InfoBlock]
    BY <1>b, <2>2, <2>3
  <2>6. WellFormed' /\ UNCHANGED first_recno
    <3>1. UNCHANGED <<size, first_recno>>
      BY <1>10 DEF WriteBack
    <3>2. \A o \in DOMAIN head : head'[o] \in {head[o], var[p].bhead}
          /\ (o # 0 => head'[o] = head[o])
      BY <1>b, <2>3
    <3> QED
      BY <1>b, <1>c, <2>2, <2>4, <3>1, <3>2 DEF WellFormed
  <2>5. thead' \in InfoTable /\ stored' \subseteq [recno : Nat, offset : Int]
    BY <1>10, <1>b, <2>2 DEF WriteBack, InfoTable
  <2> QED
    BY <1>b, <2>1, <2>4, <2>5, <2>6, NoLocalsType, TypeFrame DEF Leave, Goto
<1>11. CASE UNCHANGED vars
    BY <1>11 DEF vars, TypeInv, TypeOK, WellFormed, LockInv
<1> QED
    BY <1>1, <1>2, <1>3, <1>4, <1>5, <1>6, <1>7, <1>8, <1>9, <1>10, <1>11 DEF Next, Turn

LEMMA InitTypeInv == Init => TypeInv
    BY NoLocalsType, FirstAssumption
    DEF Init, TypeInv, TypeOK, WellFormed, LockInv, InfoTable

(***************************************************************************)
(* Every variable keeps its type, and links lead to blocks of the chain:   *)
(* whatever table it is, whatever the bytes after a buffer are, and        *)
(* whichever call fails, the unnoticed one that loses a new block's head   *)
(* included.  A block of the chain lies in the file, or is a last one of   *)
(* no bytes at its end.                                                    *)
(***************************************************************************)
THEOREM TypeCorrect == Spec => [](TypeOK /\ WellFormed)
<1>1. TypeInv /\ [Next]_vars => TypeInv'
    BY TypeStep
<1>2. TypeInv => TypeOK /\ WellFormed
    BY DEF TypeInv
<1> QED
    BY InitTypeInv, <1>1, <1>2, PTL DEF Spec

-----------------------------------------------------------------------------
(* The copy of the table's head, and the count of records *)

TwoBlocksAtLeast == InitialHead[0].next_block # 0

(* As long as a record is beyond the blocks counted, counting does not wrap. *)
LEMMA CountingFits ==
    ASSUME NEW v \in Locals, v.start_rec \in 1 .. v.recno, v.recno < Word, Beyond(v)
    PROVE  NextStart(v) \in 1 .. v.recno /\ NextStart(v) = v.start_rec + RecCapacity(v)
<1>1. v.recno \in Nat /\ RecCapacity(v) \in Nat
    BY LoopTypes DEF Locals
<1>2. v.recno - v.start_rec \in 0 .. Word - 1
    BY <1>1
<1>3. LocalIndex(v) = v.recno - v.start_rec
    BY <1>2, WordFits DEF LocalIndex
<1>4. v.start_rec + RecCapacity(v) \in 1 .. v.recno
    BY <1>1, <1>3 DEF Beyond
<1>5. v.start_rec + RecCapacity(v) \in 0 .. Word - 1
    BY <1>1, <1>4
<1>6. NextStart(v) = v.start_rec + RecCapacity(v)
    BY <1>5, WordFits DEF NextStart
<1> QED
    BY <1>4, <1>6

(* A step of p, which is the only process that uses the table. *)
LEMMA CopyFrame ==
    ASSUME CopiedInv, TypeInv', NEW p \in Proc, pc[p] = "idle" => lock = NoProc,
           NEW l, pc' = [pc EXCEPT ![p] = l],
           head'[0].next_block # 0, thead'.last_recno <= MaxRecno,
           thead'.rec_size = RecSize,
           l # "idle" => Copied(p)',
           l = "loop" => var'[p].start_rec \in 1 .. var'[p].recno
    PROVE  CopiedInv'
<1>1. pc'[p] = l
    BY DEF CopiedInv, TypeInv, TypeOK
<1>2. ASSUME NEW q \in Proc, q # p PROVE pc'[q] = "idle"
    BY <1>2 DEF CopiedInv, TypeInv, TypeOK, LockInv
<1> QED
    BY <1>1, <1>2 DEF CopiedInv, CopyInv, StartNeverPasses

(* The effect of the steps that append: the heads of blocks in the file stay. *)
LEMMA HeadStays ==
    ASSUME CopiedInv, NEW b, NEW o \in DOMAIN head, o < size,
           \/ head' = head \/ head' = HeadWith(b)
           \/ \E parent \in DOMAIN head : parent # o /\ head' = HeadLinked(b, parent)
    PROVE  head'[o] = head[o]
<1>1. o # size
    BY DEF CopiedInv, TypeInv, TypeOK
<1>2. HeadWith(b)[o] = head[o]
    BY <1>1 DEF HeadWith
<1>3. \A parent \in DOMAIN head : parent # o => HeadLinked(b, parent)[o] = head[o]
    BY <1>1, <1>2 DEF HeadLinked, HeadWith
<1> QED
    BY <1>2, <1>3

(* What the locals of a process lead to is known, and the process is in the file. *)
LEMMA LeadsToHeads ==
    ASSUME CopiedInv
    PROVE  /\ 0 \in DOMAIN head /\ 0 < size
           /\ \A p \in Proc : pc[p] # "idle" =>
                 /\ var[p].iblock_offset \in DOMAIN first_recno
                 /\ var[p].iblock_offset \in DOMAIN head /\ var[p].iblock_offset < size
                 /\ var[p].iblock.next_block \in DOMAIN head
    BY DEF CopiedInv, TypeInv, TypeOK, WellFormed, LockInv

LEMMA AbandonCopy ==
    ASSUME CopiedInv, NEW p \in Proc, pc[p] = "loop", Abandon(p),
           head'[0] = head[0], UNCHANGED thead
    PROVE  \E l \in {"idle", "user"} : pc' = [pc EXCEPT ![p] = l]
                                      /\ (l = "user" => Copied(p)')
<1>1. CASE Leave(p)
    BY <1>1 DEF Leave, Goto
<1>2. CASE Goto(p, "user") /\ UNCHANGED <<lock, var>>
  <2>1. Copied(p) /\ pc'[p] = "user"
    BY <1>2 DEF CopiedInv, CopyInv, TypeInv, TypeOK, Goto
  <2> QED
    BY <1>2, <2>1 DEF Goto, Copied
<1> QED
    BY <1>1, <1>2 DEF Abandon

LEMMA RetryCopy ==
    ASSUME CopiedInv, NEW p \in Proc, pc[p] = "loop", Beyond(var[p]),
           NEW err \in RND_ERROR, Retry(p, err), head'[0] = head[0], UNCHANGED thead,
           head'[var[p].iblock_offset] = head[var[p].iblock_offset]
    PROVE  /\ pc' = [pc EXCEPT ![p] = "loop"] /\ Copied(p)'
           /\ var'[p].start_rec \in 1 .. var'[p].recno
<1> DEFINE i == NextStart(var[p])
<1>1. Copied(p) /\ var[p] \in Locals /\ var[p].start_rec \in 1 .. var[p].recno
    BY DEF CopiedInv, CopyInv, StartNeverPasses, TypeInv, TypeOK
<1>2. i \in 1 .. var[p].recno
    BY <1>1, CountingFits DEF Copied
<1>3. var'[p] = [var[p] EXCEPT !.start_rec = i, !.rval = err, !.clean = FALSE]
    BY DEF Retry, CopiedInv, TypeInv, TypeOK
<1> HIDE DEF i
<1>4. /\ var'[p].start_rec = i /\ var'[p].recno = var[p].recno
      /\ var'[p].bhead = var[p].bhead /\ var'[p].thead = var[p].thead
      /\ var'[p].iblock = var[p].iblock /\ var'[p].iblock_offset = var[p].iblock_offset
    BY <1>1, <1>3 DEF Locals
<1>5. pc' = pc /\ pc' = [pc EXCEPT ![p] = "loop"]
    BY DEF Retry, CopiedInv, TypeInv, TypeOK
<1> QED
    BY <1>1, <1>2, <1>4, <1>5 DEF Copied

(* Whichever way an extension ends, a block is put at the end of the file. *)
LEMMA ExtendAppends ==
    ASSUME CopiedInv, NEW p \in Proc, Extend(p)
    PROVE  \E b \in NewHeads(NewBlockSize(var[p])) :
              \/ head' = HeadWith(b) /\ UNCHANGED first_recno
              \/ /\ head' = HeadLinked(b, var[p].iblock_offset)
                 /\ first_recno' = FirstLinked(var[p].iblock_offset)
    BY DEF Extend, WriteLink

(* A table of two blocks is never extended at its first one. *)
LEMMA ExtendBeyondFirst ==
    ASSUME CopiedInv, NEW p \in Proc, Extend(p)
    PROVE  /\ var[p].iblock_offset \in DOMAIN head \ {0}
           /\ var[p].iblock_offset \in DOMAIN first_recno /\ var[p].iblock_offset < size
           /\ head[var[p].iblock_offset].next_block = 0
           /\ UNCHANGED <<thead, stored>> /\ head'[0] = head[0]
<1>1. Copied(p) /\ var[p].iblock.next_block = 0 /\ pc[p] = "loop"
      /\ var[p].iblock_offset \in DOMAIN head /\ 0 \in DOMAIN head /\ 0 < size
      /\ var[p].iblock_offset \in DOMAIN first_recno /\ var[p].iblock_offset < size
    BY LeadsToHeads DEF Extend, AtEnd, CopiedInv, CopyInv
<1>2. var[p].iblock_offset # 0
    BY <1>1 DEF Copied, CopiedInv, CopyInv
<1>3. UNCHANGED <<thead, stored>>
    BY <1>2 DEF Extend, WriteLink
<1>4. \E b : head' = HeadWith(b) \/ head' = HeadLinked(b, var[p].iblock_offset)
    BY ExtendAppends
<1>5. head'[0] = head[0]
    BY <1>1, <1>2, <1>4, HeadStays
<1> QED
    BY <1>1, <1>2, <1>3, <1>5 DEF Extend

(* When the loop goes on after an extension, the new block is linked. *)
LEMMA ExtendLinks ==
    ASSUME CopiedInv, NEW p \in Proc, Extend(p), pc'[p] = "loop"
    PROVE  \E b \in NewHeads(NewBlockSize(var[p])) :
              /\ head' = HeadLinked(b, var[p].iblock_offset)
              /\ first_recno' = FirstLinked(var[p].iblock_offset)
              /\ head'[size] = b
              /\ var' = [var EXCEPT ![p].start_rec = NextStart(var[p]),
                                    ![p].iblock = b,
                                    ![p].iblock_offset = size,
                                    ![p].rval = "SUCCESS"]
              /\ UNCHANGED <<lock, pc>>
<1>1. ~Abandon(p)
    BY DEF Abandon, Leave, Goto, CopiedInv, TypeInv, TypeOK
<1>2. PICK b \in NewHeads(NewBlockSize(var[p])) :
              /\ WriteLink(b, var[p].iblock_offset)
              /\ var' = [var EXCEPT ![p].start_rec = NextStart(var[p]),
                                    ![p].iblock = b,
                                    ![p].iblock_offset = size,
                                    ![p].rval = "SUCCESS"]
              /\ UNCHANGED <<lock, pc>>
    BY <1>1 DEF Extend
<1>3. /\ head' = HeadLinked(b, var[p].iblock_offset)
      /\ first_recno' = FirstLinked(var[p].iblock_offset)
    BY <1>2 DEF WriteLink
<1>4. var[p].iblock_offset \in DOMAIN head /\ var[p].iblock_offset # size
    BY LeadsToHeads DEF Extend, AtEnd, CopiedInv, TypeInv, TypeOK
<1>5. head'[size] = b
    BY <1>3, <1>4 DEF HeadLinked, HeadWith
<1> QED
    BY <1>2, <1>3, <1>5

LEMMA CopiedStep ==
    ASSUME CopiedInv, [Next]_vars
    PROVE  CopiedInv'
<1> USE DEF Labels
<1>0. TypeInv'
    BY TypeStep DEF CopiedInv
<1>a. /\ head[0].next_block # 0 /\ thead.last_recno <= MaxRecno /\ thead.rec_size = RecSize
      /\ thead.last_recno \in Nat /\ thead \in InfoTable
    BY DEF CopiedInv, CopyInv, TypeInv, TypeOK, InfoTable
<1>b. ASSUME NEW p \in Proc, pc[p] # "idle"
      PROVE  Copied(p) /\ var[p] \in Locals
    BY <1>b DEF CopiedInv, CopyInv, TypeInv, TypeOK
<1>1. ASSUME NEW p \in Proc, GetNextOffset(p) PROVE CopiedInv'
  <2> DEFINE v == Start(head[0], thead, NoOffset, NewRecno(thead))
  <2>1. UNCHANGED <<head, thead>> /\ lock = NoProc /\ pc' = [pc EXCEPT ![p] = "loop"]
        /\ var' = [var EXCEPT ![p] = v]
    BY <1>1 DEF GetNextOffset, Goto, TableFree
  <2>2. var'[p] = v /\ pc'[p] = "loop"
    BY <2>1 DEF CopiedInv, TypeInv, TypeOK
  <2>3. NewRecno(thead) = thead.last_recno + 1 /\ NewRecno(thead) < Word
    <3>1. thead.last_recno + 1 \in 0 .. Word - 1
      BY <1>a
    <3> QED
      BY <3>1, WordFits DEF NewRecno
  <2>4. Copied(p)' /\ var'[p].start_rec \in 1 .. var'[p].recno
    BY <1>a, <2>1, <2>2, <2>3 DEF Copied, Start
  <2> QED
    BY <1>0, <1>a, <2>1, <2>4, CopyFrame
<1>2. ASSUME NEW p \in Proc, Found(p) PROVE CopiedInv'
  <2>1. UNCHANGED <<head, thead>> /\ pc[p] = "loop" /\ pc' = [pc EXCEPT ![p] = "user"]
    BY <1>2 DEF Found, Goto
  <2>2. /\ var'[p].recno = var[p].recno /\ pc'[p] = "user"
        /\ var'[p].bhead = var[p].bhead /\ var'[p].thead = var[p].thead
        /\ var'[p].iblock = var[p].iblock /\ var'[p].iblock_offset = var[p].iblock_offset
    BY <1>2, <2>1 DEF Found, CopiedInv, TypeInv, TypeOK, Locals
  <2>3. Copied(p)'
    BY <1>b, <2>1, <2>2 DEF Copied
  <2> QED
    BY <1>0, <1>a, <2>1, <2>3, CopyFrame
<1>3. ASSUME NEW p \in Proc, NextBlock(p) PROVE CopiedInv'
  <2>1. UNCHANGED <<head, thead>> /\ pc[p] = "loop" /\ Beyond(var[p])
        /\ var[p].iblock.next_block # 0
    BY <1>3 DEF NextBlock
  <2>2. CASE Abandon(p)
    BY <1>0, <1>a, <2>1, <2>2, AbandonCopy, CopyFrame
  <2>3. CASE var' = [var EXCEPT ![p] = AtNext(@)] /\ UNCHANGED <<lock, pc>>
    <3> DEFINE i == NextStart(var[p])
    <3>1. Copied(p) /\ var[p] \in Locals /\ var[p].start_rec \in 1 .. var[p].recno
      BY <1>b, <2>1 DEF CopiedInv, StartNeverPasses
    <3>2. i \in 1 .. var[p].recno
      BY <2>1, <3>1, CountingFits DEF Copied
    <3>3. var'[p] = AtNext(var[p]) /\ pc' = [pc EXCEPT ![p] = "loop"]
      BY <2>1, <2>3 DEF CopiedInv, TypeInv, TypeOK
    <3>4. /\ var'[p].start_rec = i /\ var'[p].recno = var[p].recno
          /\ var'[p].bhead = var[p].bhead /\ var'[p].thead = var[p].thead
          /\ var'[p].iblock_offset = var[p].iblock.next_block
          /\ var'[p].iblock = head[var[p].iblock.next_block]
      BY <3>1, <3>3 DEF AtNext, Locals
    <3> HIDE DEF i
    <3>5. Copied(p)' /\ var'[p].start_rec \in 1 .. var'[p].recno
      BY <2>1, <2>3, <3>1, <3>2, <3>4 DEF Copied
    <3> QED
      BY <1>0, <1>a, <2>1, <3>3, <3>5, CopyFrame
  <2> QED
    BY <1>3, <2>2, <2>3 DEF NextBlock
<1>4. ASSUME NEW p \in Proc, AppendFails(p) PROVE CopiedInv'
  <2>1. UNCHANGED <<head, thead>> /\ pc[p] = "loop" /\ Beyond(var[p])
    BY <1>4 DEF AppendFails, AtEnd
  <2>2. PICK err \in RND_ERROR : Retry(p, err)
    BY <1>4 DEF AppendFails, RND_ERROR
  <2> QED
    BY <1>0, <1>a, <2>1, <2>2, RetryCopy, CopyFrame
<1>5. ASSUME NEW p \in Proc, LinkFails(p) PROVE CopiedInv'
  <2>1. UNCHANGED thead /\ pc[p] = "loop" /\ Beyond(var[p])
        /\ \E b : head' = HeadWith(b)
    BY <1>5 DEF LinkFails, AtEnd
  <2>2. PICK err \in RND_ERROR : Retry(p, err)
    BY <1>5 DEF LinkFails, RND_ERROR
  <2>3. head'[0] = head[0] /\ head'[var[p].iblock_offset] = head[var[p].iblock_offset]
    BY <2>1, HeadStays, LeadsToHeads
  <2> QED
    BY <1>0, <1>a, <2>1, <2>2, <2>3, RetryCopy, CopyFrame
<1>6. ASSUME NEW p \in Proc, Extend(p) PROVE CopiedInv'
  <2>1. UNCHANGED thead /\ head'[0] = head[0]
    BY <1>6, ExtendBeyondFirst
  <2>2. pc[p] = "loop" /\ Beyond(var[p])
    BY <1>6 DEF Extend, AtEnd
  <2>3. CASE Abandon(p)
    BY <1>0, <1>a, <2>1, <2>2, <2>3, AbandonCopy, CopyFrame
  <2>4. CASE ~Abandon(p)
    <3> DEFINE i == NextStart(var[p])
    <3>1. Copied(p) /\ var[p] \in Locals /\ var[p].start_rec \in 1 .. var[p].recno
      BY <1>b, <2>2 DEF CopiedInv, StartNeverPasses
    <3>2. i \in 1 .. var[p].recno
      BY <2>2, <3>1, CountingFits DEF Copied
    <3>3. pc' = pc /\ pc'[p] = "loop"
      BY <1>6, <2>2, <2>4 DEF Extend
    <3>4. PICK b : /\ head'[size] = b
                   /\ var' = [var EXCEPT ![p].start_rec = i, ![p].iblock = b,
                                         ![p].iblock_offset = size, ![p].rval = "SUCCESS"]
      BY <1>6, <3>3, ExtendLinks
    <3> HIDE DEF i
    <3>5. /\ var'[p].start_rec = i /\ var'[p].recno = var[p].recno
          /\ var'[p].bhead = var[p].bhead /\ var'[p].thead = var[p].thead
          /\ var'[p].iblock_offset = size /\ var'[p].iblock = b
      BY <3>1, <3>4 DEF CopiedInv, TypeInv, TypeOK, Locals
    <3>6. pc' = [pc EXCEPT ![p] = "loop"]
      BY <3>3 DEF CopiedInv, TypeInv, TypeOK
    <3>7. Copied(p)' /\ var'[p].start_rec \in 1 .. var'[p].recno
      BY <2>1, <2>2, <3>1, <3>2, <3>3, <3>4, <3>5 DEF Copied
    <3> QED
      BY <1>0, <1>a, <2>1, <2>2, <3>6, <3>7, CopyFrame
  <2> QED
    BY <2>3, <2>4
<1>7. ASSUME NEW p \in Proc, NEW r \in Asked, UserAsks(p, r) PROVE CopiedInv'
  <2> DEFINE v == Start(var[p].bhead, var[p].thead, var[p].offset_new_record, r)
  <2>1. UNCHANGED <<head, thead>> /\ pc[p] = "user" /\ pc' = [pc EXCEPT ![p] = "loop"]
        /\ var' = [var EXCEPT ![p] = v]
    BY <1>7 DEF UserAsks, Goto
  <2>2. var'[p] = v /\ pc'[p] = "loop" /\ r \in 1 .. Word - 1
    BY <2>1 DEF CopiedInv, TypeInv, TypeOK
  <2>3. Copied(p)' /\ var'[p].start_rec \in 1 .. var'[p].recno
    BY <1>b, <2>1, <2>2 DEF Copied, Start
  <2> QED
    BY <1>0, <1>a, <2>1, <2>3, CopyFrame
<1>8. ASSUME NEW p \in Proc, UserDeclines(p) \/ Crash(p) PROVE CopiedInv'
  <2>1. UNCHANGED <<head, thead>> /\ pc[p] # "idle" /\ pc' = [pc EXCEPT ![p] = "idle"]
    BY <1>8 DEF UserDeclines, Crash, Leave, Goto
  <2> QED
    BY <1>0, <1>a, <2>1, CopyFrame
<1>9. ASSUME NEW p \in Proc, UserStores(p) PROVE CopiedInv'
  <2>1. UNCHANGED <<head, thead>> /\ pc[p] = "user" /\ pc' = [pc EXCEPT ![p] = "write"]
        /\ var[p].thead.last_recno < MaxRecno
        /\ var' = [var EXCEPT ![p].thead.last_recno = NewRecno(var[p].thead)]
    BY <1>9 DEF UserStores, Goto
  <2>2. Copied(p) /\ var[p].thead = thead /\ var[p] \in Locals
    BY <1>b, <2>1 DEF Copied
  <2>3. NewRecno(thead) = thead.last_recno + 1
    <3>1. thead.last_recno + 1 \in 0 .. Word - 1
      BY <1>a
    <3> QED
      BY <3>1, WordFits DEF NewRecno
  <2>4. /\ var'[p].thead = [thead EXCEPT !.last_recno = thead.last_recno + 1]
        /\ var'[p].recno = var[p].recno /\ var'[p].bhead = var[p].bhead
        /\ var'[p].iblock = var[p].iblock /\ var'[p].iblock_offset = var[p].iblock_offset
    BY <2>1, <2>2, <2>3 DEF CopiedInv, TypeInv, TypeOK, Locals, InfoTable
  <2>5. pc'[p] = "write"
    BY <2>1 DEF CopiedInv, TypeInv, TypeOK
  <2>6. Copied(p)'
    BY <2>1, <2>2, <2>4, <2>5 DEF Copied
  <2> QED
    BY <1>0, <1>a, <2>1, <2>6, CopyFrame
<1>10. ASSUME NEW p \in Proc, WriteBack(p) PROVE CopiedInv'
  <2>1. pc[p] = "write" /\ pc' = [pc EXCEPT ![p] = "idle"]
    BY <1>10 DEF WriteBack, Leave, Goto
  <2>2. head'[0] = head[0]
    BY <1>10, <1>b, <2>1 DEF WriteBack, Copied, CopiedInv, TypeInv, TypeOK, WellFormed
  <2>3. thead'.last_recno <= MaxRecno /\ thead'.rec_size = RecSize
    BY <1>10, <1>a, <1>b, <2>1 DEF WriteBack, Copied, InfoTable
  <2> QED
    BY <1>0, <1>a, <2>1, <2>2, <2>3, CopyFrame
<1>11. CASE UNCHANGED vars
    BY <1>0, <1>11 DEF vars, CopiedInv, CopyInv, Copied, StartNeverPasses
<1> QED
    BY <1>1, <1>2, <1>3, <1>4, <1>5, <1>6, <1>7, <1>8, <1>9, <1>10, <1>11 DEF Next, Turn

LEMMA InitCopied == Init /\ TwoBlocksAtLeast => CopiedInv
    BY InitTypeInv DEF Init, TwoBlocksAtLeast, CopiedInv, CopyInv, StartNeverPasses

-----------------------------------------------------------------------------
(* The numbers of the blocks' first records *)

(* What start_rec advances by is the room of the block the loop is at. *)
LEMMA Advance ==
    ASSUME IInv, NEW p \in Proc, pc[p] = "loop", Beyond(var[p])
    PROVE  LET after == RecnoAfter(first_recno[var[p].iblock_offset],
                                   head[var[p].iblock_offset])
           IN  /\ NextStart(var[p]) >= after
               /\ var[p].clean => NextStart(var[p]) = after
               /\ NextStart(var[p]) <= var[p].recno
<1> DEFINE v     == var[p]
           first == first_recno[v.iblock_offset]
           cap   == RecCapacity(v)
<1>1. Counted(p) /\ Copied(p) /\ v \in Locals /\ v.start_rec \in 1 .. v.recno
      /\ thead.rec_size = RecSize
    BY DEF IInv, CopiedInv, CountInv, CopyInv, TypeInv, TypeOK, StartNeverPasses
<1>2. cap = flatrecs_get_record_capacity([rec_size |-> RecSize], head[v.iblock_offset])
    BY <1>1 DEF Copied, RecCapacity, flatrecs_get_record_capacity, flatrecs_full_recsize
<1>3. first \in Nat
    BY DEF IInv, CopiedInv, TypeInv, TypeOK, LockInv
<1>4. NextStart(v) = v.start_rec + cap /\ NextStart(v) <= v.recno
  <2>1. v.recno < Word /\ v.recno \in Nat
    BY <1>1 DEF Copied, Locals
  <2>2. NextStart(v) \in 1 .. v.recno /\ NextStart(v) = v.start_rec + cap
    BY <1>1, <2>1, CountingFits
  <2> QED
    BY <2>1, <2>2
<1>5. RecnoAfter(first, head[v.iblock_offset]) = first + cap
    BY <1>2 DEF RecnoAfter
<1>6. v.start_rec \in Nat /\ cap \in Nat
    BY <1>1, LoopTypes
<1>7. v.start_rec >= first /\ (v.clean => v.start_rec = first)
    BY <1>1 DEF Counted
<1> HIDE DEF v, first, cap
<1>8. NextStart(v) >= first + cap /\ (v.clean => NextStart(v) = first + cap)
    BY <1>3, <1>4, <1>6, <1>7
<1> QED
    BY <1>4, <1>5, <1>8 DEF v, first

(* What IInv says of the chain alone. *)
ChainInOrder == ChainIsList /\ ChainNumbered

(* A step of p that leaves the others alone. *)
LEMMA CountFrame ==
    ASSUME IInv, CopiedInv', NEW p \in Proc, pc[p] = "idle" => lock = NoProc,
           NEW l, pc' = [pc EXCEPT ![p] = l], ChainInOrder',
           l = "loop" => Counted(p)'
    PROVE  IInv'
<1>1. pc'[p] = l
    BY DEF IInv, CopiedInv, TypeInv, TypeOK
<1>2. ASSUME NEW q \in Proc, q # p PROVE pc'[q] = "idle"
    BY <1>2 DEF IInv, CopiedInv, TypeInv, TypeOK, LockInv
<1> QED
    BY <1>1, <1>2 DEF IInv, CountInv, ChainInOrder

(* A block that is appended and not linked leaves the links there are. *)
LEMMA AppendedInOrder ==
    ASSUME IInv, NEW b, b.next_block = 0, head' = HeadWith(b), UNCHANGED first_recno
    PROVE  ChainInOrder'
<1>1. \A o \in DOMAIN first_recno : o \in DOMAIN head /\ o \in Nat
    BY DEF IInv, CopiedInv, TypeInv, TypeOK
<1>2. size \in DOMAIN head => head[size].next_block = 0
    BY DEF IInv, CopiedInv, TypeInv, TypeOK, WellFormed
<1>3. \A o \in DOMAIN first_recno :
         /\ head'[o].next_block = head[o].next_block
         /\ head[o].next_block # 0 => head'[o] = head[o]
    BY <1>1, <1>2 DEF HeadWith
<1>4. ChainNumbered'
    BY <1>3 DEF IInv, ChainNumbered
<1>5. ChainIsList'
    BY <1>3 DEF IInv, ChainIsList
<1> QED
    BY <1>4, <1>5 DEF ChainInOrder

(* One that is linked comes after the last one, and begins where that ends. *)
LEMMA LinkedInOrder ==
    ASSUME IInv, NEW b, b.next_block = 0, NEW parent \in DOMAIN first_recno,
           parent < size, head[parent].next_block = 0,
           head' = HeadLinked(b, parent), first_recno' = FirstLinked(parent)
    PROVE  /\ ChainInOrder' /\ size \notin DOMAIN first_recno
           /\ first_recno'[size] = RecnoAfter(first_recno[parent], head[parent])
<1>0. /\ DOMAIN first_recno \subseteq DOMAIN head /\ DOMAIN head \subseteq Nat /\ size \in Nat
      /\ head \in [DOMAIN head -> InfoBlock]
    BY DEF IInv, CopiedInv, TypeInv, TypeOK
<1>1. /\ \A o \in DOMAIN first_recno : o \in DOMAIN head /\ o # size
      /\ \A o \in DOMAIN first_recno : head[o].next_block \in DOMAIN first_recno
      /\ 0 \in DOMAIN first_recno /\ first_recno[0] = 1
  <2>1. \A o \in DOMAIN first_recno : head[o].next_block \in DOMAIN first_recno
    BY DEF IInv, CopiedInv, TypeInv, WellFormed
  <2>2. 0 \in DOMAIN first_recno /\ first_recno[0] = 1
    BY DEF IInv, CopiedInv, TypeInv, WellFormed, ChainNumbered
  <2>3. size \in DOMAIN first_recno => head[size].next_block = 0
    BY <1>0 DEF IInv, CopiedInv, TypeInv, WellFormed
  <2>4. size \notin DOMAIN first_recno
    BY <1>0, <2>3 DEF IInv, ChainIsList
  <2> QED
    BY <1>0, <2>1, <2>2, <2>4
<1>2. /\ first_recno'[size] = RecnoAfter(first_recno[parent], head[parent])
      /\ \A o \in DOMAIN first_recno : first_recno'[o] = first_recno[o]
      /\ DOMAIN first_recno' = DOMAIN first_recno \cup {size}
    BY <1>1 DEF FirstLinked
<1>3. /\ head'[size].next_block = 0
      /\ \A o \in DOMAIN first_recno \ {parent} : head'[o] = head[o]
      /\ head'[parent] = [head[parent] EXCEPT !.next_block = size]
    BY <1>1 DEF HeadLinked, HeadWith
<1>4. head'[parent].next_block = size
      /\ RecnoAfter(first_recno[parent], head'[parent])
            = RecnoAfter(first_recno[parent], head[parent])
    BY <1>0, <1>1, <1>3 DEF InfoBlock, RecnoAfter, flatrecs_get_record_capacity
<1>5. ASSUME NEW o \in DOMAIN first_recno', head'[o].next_block # 0
      PROVE  /\ first_recno'[head'[o].next_block] = RecnoAfter(first_recno'[o], head'[o])
             /\ head'[o].next_block > o
  <2>1. CASE o = parent
    BY <1>0, <1>2, <1>4, <2>1
  <2>2. CASE o # parent
    <3>1. o \in DOMAIN first_recno \ {parent}
      BY <1>2, <1>3, <1>5, <2>2
    <3>2. head[o].next_block # 0 /\ head[o].next_block \in DOMAIN first_recno
      BY <1>1, <1>3, <1>5, <3>1
    <3>3. first_recno[head[o].next_block] = RecnoAfter(first_recno[o], head[o])
          /\ head[o].next_block > o
      BY <3>1, <3>2 DEF IInv, ChainNumbered, ChainIsList
    <3> QED
      BY <1>2, <1>3, <3>1, <3>2, <3>3
  <2> QED
    BY <2>1, <2>2
<1>6. ASSUME NEW o \in DOMAIN first_recno', head'[o].next_block = 0 PROVE o = size
  <2>1. o # size => o \in DOMAIN first_recno
    BY <1>2
  <2>2. o = parent => FALSE
    BY <1>0, <1>4, <1>6
  <2>3. o # size => head[o].next_block = 0
    BY <1>3, <1>6, <2>1, <2>2
  <2>4. \A a, c \in DOMAIN first_recno :
           head[a].next_block = 0 /\ head[c].next_block = 0 => a = c
    BY DEF IInv, ChainIsList
  <2> QED
    BY <2>1, <2>2, <2>3, <2>4
<1> QED
    BY <1>1, <1>2, <1>5, <1>6 DEF ChainInOrder, ChainNumbered, ChainIsList

LEMMA RetryCounted ==
    ASSUME IInv, NEW p \in Proc, pc[p] = "loop", Beyond(var[p]),
           NEW err \in RND_ERROR, Retry(p, err), UNCHANGED first_recno
    PROVE  pc' = [pc EXCEPT ![p] = "loop"] /\ Counted(p)'
<1>1. var[p] \in Locals /\ Counted(p)
      /\ head[var[p].iblock_offset] \in InfoBlock /\ first_recno[var[p].iblock_offset] \in Nat
    BY DEF IInv, CopiedInv, CountInv, TypeInv, TypeOK, LockInv
<1>2. NextStart(var[p]) >= first_recno[var[p].iblock_offset]
    BY <1>1, Advance, CapacityType, LoopTypes DEF RecnoAfter
<1>3. var'[p] = [var[p] EXCEPT !.start_rec = NextStart(var[p]), !.rval = err, !.clean = FALSE]
    BY DEF Retry, IInv, CopiedInv, TypeInv, TypeOK
<1>4. /\ var'[p].start_rec = NextStart(var[p]) /\ var'[p].clean = FALSE
      /\ var'[p].iblock_offset = var[p].iblock_offset
    BY <1>1, <1>3 DEF Locals
<1>5. pc' = [pc EXCEPT ![p] = "loop"]
    BY DEF Retry, IInv, CopiedInv, TypeInv, TypeOK
<1> QED
    BY <1>2, <1>4, <1>5 DEF Counted

LEMMA StartCounted ==
    ASSUME IInv, NEW p \in Proc, NEW b, NEW t, NEW o, NEW r,
           var' = [var EXCEPT ![p] = Start(b, t, o, r)], UNCHANGED first_recno
    PROVE  Counted(p)'
<1>1. var'[p] = Start(b, t, o, r) /\ first_recno[0] = 1
    BY DEF IInv, CopiedInv, TypeInv, TypeOK, ChainNumbered
<1> QED
    BY <1>1 DEF Counted, Start

LEMMA InvStep ==
    ASSUME IInv, [Next]_vars
    PROVE  IInv'
<1>0. CopiedInv' /\ CopiedInv /\ ChainNumbered /\ ChainIsList
    BY CopiedStep DEF IInv
<1>a. UNCHANGED <<head, first_recno>> => ChainInOrder'
    BY <1>0 DEF ChainInOrder, ChainNumbered, ChainIsList
<1>1. ASSUME NEW p \in Proc, GetNextOffset(p) PROVE IInv'
  <2>1. /\ UNCHANGED <<head, first_recno>> /\ lock = NoProc
        /\ pc' = [pc EXCEPT ![p] = "loop"]
        /\ var' = [var EXCEPT ![p] = Start(head[0], thead, NoOffset, NewRecno(thead))]
    BY <1>1 DEF GetNextOffset, Goto, TableFree
  <2>2. Counted(p)'
    BY <2>1, StartCounted
  <2> QED
    BY <1>0, <1>a, <2>1, <2>2, CountFrame
<1>2. ASSUME NEW p \in Proc, Found(p) \/ UserStores(p) PROVE IInv'
  <2>1. /\ UNCHANGED <<head, first_recno>> /\ pc[p] # "idle"
        /\ \E l \in {"user", "write"} : pc' = [pc EXCEPT ![p] = l]
    BY <1>2 DEF Found, UserStores, Goto
  <2> QED
    BY <1>0, <1>a, <2>1, CountFrame
<1>3. ASSUME NEW p \in Proc, NextBlock(p) PROVE IInv'
  <2>1. UNCHANGED <<head, first_recno>> /\ pc[p] = "loop" /\ Beyond(var[p])
        /\ var[p].iblock.next_block # 0
    BY <1>3 DEF NextBlock
  <2>2. CASE Abandon(p)
    <3>1. \E l \in {"idle", "user"} : pc' = [pc EXCEPT ![p] = l]
      BY <2>2 DEF Abandon, Leave, Goto
    <3> QED
      BY <1>0, <1>a, <2>1, <3>1, CountFrame
  <2>3. CASE var' = [var EXCEPT ![p] = AtNext(@)] /\ UNCHANGED <<lock, pc>>
    <3> DEFINE o == var[p].iblock_offset
               n == head[o].next_block
    <3>1. var[p].iblock = head[o] /\ var[p] \in Locals /\ o \in DOMAIN first_recno
      BY <1>0, <2>1 DEF CopiedInv, CopyInv, Copied, TypeInv, TypeOK, LockInv
    <3>2. n # 0 /\ first_recno[n] = RecnoAfter(first_recno[o], head[o])
      BY <1>0, <2>1, <3>1 DEF ChainNumbered
    <3>3. var'[p] = AtNext(var[p]) /\ pc' = [pc EXCEPT ![p] = "loop"]
      BY <1>0, <2>1, <2>3 DEF CopiedInv, TypeInv, TypeOK
    <3>4. /\ var'[p].start_rec = NextStart(var[p]) /\ var'[p].iblock_offset = n
          /\ var'[p].clean = var[p].clean
      BY <3>1, <3>3 DEF AtNext, Locals
    <3>5. /\ NextStart(var[p]) >= RecnoAfter(first_recno[o], head[o])
          /\ var[p].clean => NextStart(var[p]) = RecnoAfter(first_recno[o], head[o])
      BY <2>1, Advance
    <3> HIDE DEF n, o
    <3>6. Counted(p)'
      BY <2>1, <3>2, <3>4, <3>5 DEF Counted
    <3> QED
      BY <1>0, <1>a, <2>1, <3>3, <3>6, CountFrame
  <2> QED
    BY <1>3, <2>2, <2>3 DEF NextBlock
<1>4. ASSUME NEW p \in Proc, AppendFails(p) PROVE IInv'
  <2>1. UNCHANGED <<head, first_recno>> /\ pc[p] = "loop" /\ Beyond(var[p])
    BY <1>4 DEF AppendFails, AtEnd
  <2>2. PICK err \in RND_ERROR : Retry(p, err)
    BY <1>4 DEF AppendFails, RND_ERROR
  <2> QED
    BY <1>0, <1>a, <2>1, <2>2, RetryCounted, CountFrame
<1>b. ASSUME NEW p \in Proc, NEW b \in NewHeads(NewBlockSize(var[p]))
      PROVE  b.next_block = 0
    BY DEF NewHeads, Block, NoHead
<1>5. ASSUME NEW p \in Proc, LinkFails(p) PROVE IInv'
  <2>1. pc[p] = "loop" /\ Beyond(var[p]) /\ UNCHANGED first_recno
        /\ \E b \in NewHeads(NewBlockSize(var[p])) : head' = HeadWith(b)
    BY <1>5 DEF LinkFails, AtEnd
  <2>2. PICK err \in RND_ERROR : Retry(p, err)
    BY <1>5 DEF LinkFails, RND_ERROR
  <2>3. ChainInOrder'
    BY <1>b, <2>1, AppendedInOrder
  <2> QED
    BY <1>0, <2>1, <2>2, <2>3, RetryCounted, CountFrame
<1>6. ASSUME NEW p \in Proc, Extend(p) PROVE IInv'
  <2> DEFINE o == var[p].iblock_offset
  <2>1. pc[p] = "loop" /\ Beyond(var[p]) /\ o \in DOMAIN first_recno /\ o < size
        /\ head[o].next_block = 0 /\ var[p] \in Locals
    BY <1>0, <1>6, ExtendBeyondFirst DEF Extend, AtEnd, CopiedInv, TypeInv, TypeOK
  <2>2. \E b \in NewHeads(NewBlockSize(var[p])) :
           \/ head' = HeadLinked(b, o) /\ first_recno' = FirstLinked(o)
           \/ head' = HeadWith(b) /\ UNCHANGED first_recno
    BY <1>0, <1>6, ExtendAppends
  <2>3. ChainInOrder'
    BY <1>b, <2>1, <2>2, AppendedInOrder, LinkedInOrder
  <2>4. CASE Abandon(p)
    <3>1. \E l \in {"idle", "user"} : pc' = [pc EXCEPT ![p] = l]
      BY <2>4 DEF Abandon, Leave, Goto
    <3> QED
      BY <1>0, <2>1, <2>3, <3>1, CountFrame
  <2>5. CASE ~Abandon(p)
    <3>1. pc' = [pc EXCEPT ![p] = "loop"] /\ pc'[p] = "loop"
      BY <1>0, <1>6, <2>1, <2>5 DEF Extend, CopiedInv, TypeInv, TypeOK
    <3>2. PICK b \in NewHeads(NewBlockSize(var[p])) :
              /\ head' = HeadLinked(b, o) /\ first_recno' = FirstLinked(o)
              /\ var' = [var EXCEPT ![p].start_rec = NextStart(var[p]),
                                    ![p].iblock = b,
                                    ![p].iblock_offset = size,
                                    ![p].rval = "SUCCESS"]
      BY <1>0, <1>6, <3>1, ExtendLinks
    <3>3. first_recno'[size] = RecnoAfter(first_recno[o], head[o])
      BY <1>b, <2>1, <3>2, LinkedInOrder
    <3>4. /\ var'[p].start_rec = NextStart(var[p]) /\ var'[p].iblock_offset = size
          /\ var'[p].clean = var[p].clean
      BY <1>0, <2>1, <3>2 DEF CopiedInv, TypeInv, TypeOK, Locals
    <3>5. /\ NextStart(var[p]) >= RecnoAfter(first_recno[o], head[o])
          /\ var[p].clean => NextStart(var[p]) = RecnoAfter(first_recno[o], head[o])
      BY <2>1, Advance
    <3> HIDE DEF o
    <3>6. Counted(p)'
      BY <3>3, <3>4, <3>5 DEF Counted
    <3> QED
      BY <1>0, <2>1, <2>3, <3>1, <3>6, CountFrame
  <2> QED
    BY <2>4, <2>5
<1>7. ASSUME NEW p \in Proc, NEW r \in Asked, UserAsks(p, r) PROVE IInv'
  <2>1. /\ UNCHANGED <<head, first_recno>> /\ pc[p] # "idle"
        /\ pc' = [pc EXCEPT ![p] = "loop"]
        /\ var' = [var EXCEPT ![p] = Start(var[p].bhead, var[p].thead,
                                           var[p].offset_new_record, r)]
    BY <1>7 DEF UserAsks, Goto
  <2>2. Counted(p)'
    BY <2>1, StartCounted
  <2> QED
    BY <1>0, <1>a, <2>1, <2>2, CountFrame
<1>8. ASSUME NEW p \in Proc, UserDeclines(p) \/ WriteBack(p) \/ Crash(p) PROVE IInv'
  <2>1. /\ UNCHANGED first_recno /\ pc[p] # "idle" /\ pc' = [pc EXCEPT ![p] = "idle"]
        /\ pc[p] = "write" \/ UNCHANGED head
        /\ head' = head \/ head' = [head EXCEPT ![0] = var[p].bhead]
    BY <1>8 DEF UserDeclines, WriteBack, Crash, Leave, Goto
  <2>2. var[p].bhead = head[0] /\ 0 \in DOMAIN head /\ head \in [DOMAIN head -> InfoBlock]
    BY <1>0, <2>1, LeadsToHeads DEF CopiedInv, CopyInv, Copied, TypeInv, TypeOK
  <2>3. head' = head
    BY <2>1, <2>2
  <2> QED
    BY <1>0, <1>a, <2>1, <2>3, CountFrame
<1>9. CASE UNCHANGED vars
    BY <1>0, <1>a, <1>9 DEF vars, IInv, CountInv, Counted, ChainInOrder
<1> QED
    BY <1>1, <1>2, <1>3, <1>4, <1>5, <1>6, <1>7, <1>8, <1>9 DEF Next, Turn

LEMMA InitIInv == Init /\ TwoBlocksAtLeast => IInv
    BY InitCopied, FirstAssumption DEF Init, IInv, ChainIsList, ChainNumbered, CountInv

(***************************************************************************)
(* For a table that starts with two blocks the inductive invariant holds:  *)
(* under the lock, the copies of heads stay what the file has, the chain   *)
(* is a list that leads forward in the file, and its blocks are numbered   *)
(* one after the other, whichever calls fail, those nobody looks at        *)
(* included: a block whose head was lost is counted as it is read.          *)
(***************************************************************************)
THEOREM Invariance == TwoBlocksAtLeast => (Spec => []IInv)
<1> SUFFICES ASSUME TwoBlocksAtLeast PROVE Spec => []IInv
    OBVIOUS
<1>1. IInv /\ [Next]_vars => IInv'
    BY InvStep
<1> QED
    BY InitIInv, <1>1, PTL DEF Spec

(***************************************************************************)
(* The unsigned difference recno - start_rec never wraps, however often an *)
(* extension fails and start_rec is advanced all the same.                 *)
(***************************************************************************)
THEOREM CountingNeverWraps == TwoBlocksAtLeast => (Spec => []StartNeverPasses)
<1> SUFFICES ASSUME TwoBlocksAtLeast PROVE Spec => []StartNeverPasses
    OBVIOUS
<1>1. IInv => StartNeverPasses
    BY DEF IInv, CopiedInv
<1> QED
    BY Invariance, <1>1, PTL

(***************************************************************************)
(* As long as no extension has failed in a call, start_rec is the number   *)
(* of the first record of the block the loop is at, whatever blocks were   *)
(* made for which records before, and by whom.                             *)
(***************************************************************************)
THEOREM CountingIsRight == TwoBlocksAtLeast => (Spec => []CountsCapacities)
<1> SUFFICES ASSUME TwoBlocksAtLeast PROVE Spec => []CountsCapacities
    OBVIOUS
<1>1. IInv => CountsCapacities
    BY DEF IInv, CountInv, Counted, CountsCapacities
<1> QED
    BY Invariance, <1>1, PTL

-----------------------------------------------------------------------------
(* Extensions *)

LEMMA BeyondStep ==
    ASSUME IInv, [Next]_vars, NEW p \in Proc, NEW o \in DOMAIN head, pc[p] = "loop",
           head[o].next_block = 0, head'[o].next_block # 0
    PROVE  var[p].recno >= RecnoAfter(first_recno[o], head[o])
<1> USE DEF IInv
<1>1. lock = p
    BY DEF CopiedInv, TypeInv, LockInv
<1>2. ASSUME NEW q \in Proc, WriteBack(q) PROVE FALSE
    BY <1>1, <1>2 DEF CopiedInv, TypeInv, LockInv, WriteBack
<1>3. \A b : b.next_block = 0 => HeadWith(b)[o].next_block = 0
    BY DEF HeadWith
<1>4. PICK q \in Proc : LinkFails(q) \/ Extend(q)
    BY <1>2 DEF Next, Turn, GetNextOffset, Found, NextBlock, AppendFails,
                UserAsks, UserDeclines, UserStores, Crash, vars
<1>5. q = p /\ Beyond(var[p])
    BY <1>1, <1>4 DEF LinkFails, Extend, AtEnd, CopiedInv, TypeInv, LockInv
<1>6. PICK b \in NewHeads(NewBlockSize(var[p])) :
         \/ head' = HeadWith(b)
         \/ Extend(p) /\ head' = HeadLinked(b, var[p].iblock_offset)
    BY <1>4, <1>5, ExtendAppends DEF LinkFails
<1>7. o = var[p].iblock_offset
  <2>1. b.next_block = 0
    BY DEF NewHeads, Block, NoHead
  <2>2. head' = HeadLinked(b, var[p].iblock_offset)
    BY <1>3, <1>6, <2>1
  <2>3. o # var[p].iblock_offset => head'[o] = HeadWith(b)[o]
    BY <2>2 DEF HeadLinked, HeadWith
  <2> QED
    BY <1>3, <2>1, <2>3
<1>8. var[p].recno \in Nat /\ NextStart(var[p]) \in Nat
      /\ RecnoAfter(first_recno[o], head[o]) \in Nat
    BY <1>7, LoopTypes, RecnoAfterType DEF CopiedInv, TypeInv, TypeOK, Locals, LockInv
<1> QED
    BY <1>5, <1>7, <1>8, Advance

(***************************************************************************)
(* A chain is extended only for a record beyond all that it has room for,  *)
(* also after extensions have failed and start_rec has run ahead.          *)
(***************************************************************************)
THEOREM ExtensionsAreNeeded == TwoBlocksAtLeast => (Spec => ExtendsOnlyBeyond)
<1> SUFFICES ASSUME TwoBlocksAtLeast PROVE Spec => ExtendsOnlyBeyond
    OBVIOUS
<1>1. IInv /\ [Next]_vars =>
        [\A p \in Proc, o \in DOMAIN head :
            pc[p] = "loop" /\ head[o].next_block = 0 /\ head'[o].next_block # 0 =>
                var[p].recno >= RecnoAfter(first_recno[o], head[o])]_vars
    BY BeyondStep
<1> QED
    BY Invariance, <1>1, PTL DEF Spec, ExtendsOnlyBeyond

-----------------------------------------------------------------------------
(* The turns of the loop *)

(* There is room for a record in block b of the table. *)
Room(b) == RecnoAfter(0, b) > 0

(***************************************************************************)
(* A block of one chunk can hold a record, chunks make up all of the       *)
(* numbers, as the powers of two that block sizes are do, and the blocks   *)
(* the table starts with have room.                                        *)
(***************************************************************************)
RoomInChunks ==
    /\ SizeofHeadBlock + RecSize + 1 <= ChunkSize
    /\ \E m \in Nat : Word = m * ChunkSize
    /\ \A o \in DOMAIN InitialFirst : Room(InitialHead[o])

LEMMA DivMod ==
    ASSUME NEW n \in Nat, NEW d \in Nat, d > 0,
           NEW q, q = n \div d, NEW r, r = n % d
    PROVE  q \in Int /\ n = d * q + r
OBVIOUS

LEMMA ChunksInWord ==
    ASSUME RoomInChunks, NEW k \in Nat
    PROVE  (k * ChunkSize) % Word = 0 \/ (k * ChunkSize) % Word >= ChunkSize
<1> DEFINE c == ChunkSize
           q == (k * c) \div Word
           r == (k * c) % Word
<1>1. PICK m \in Nat : Word = m * c
    BY DEF RoomInChunks
<1>2. c \in Nat /\ c > 0 /\ Word \in Nat /\ Word > 0
    BY FlatRecsAssumption
<1>3. k * c \in Nat
    BY <1>2
<1>4. q \in Int /\ r \in 0 .. Word - 1 /\ k * c = Word * q + r
  <2>1. q \in Int /\ k * c = Word * q + r
    BY <1>2, <1>3, DivMod
  <2>2. r \in 0 .. Word - 1
    BY <1>3, WordRange
  <2> QED
    BY <2>1, <2>2
<1> HIDE DEF c, q, r
<1>5. r = (k - m * q) * c
  <2>1. Word * q = (m * q) * c
    BY <1>1, <1>2, <1>4
  <2>2. m * q \in Int
    BY <1>4
  <2>3. (k - m * q) * c = k * c - (m * q) * c
    BY <1>2, <2>2
  <2> QED
    BY <1>2, <1>3, <1>4, <2>1, <2>3
<1>6. ASSUME NEW j \in Int, j * c >= 0 PROVE j * c = 0 \/ j * c >= c
    BY <1>2, <1>6
<1>7. k - m * q \in Int
    BY <1>4
<1> QED
    BY <1>4, <1>5, <1>6, <1>7 DEF c, r

(* A new block has room: also one of size 0, whose capacity wraps around. *)
LEMMA NewBlockRoom ==
    ASSUME RoomInChunks, NEW v \in Locals
    PROVE  Room(Block(SizeofHeadBlock, NewBlockSize(v), 0))
<1> DEFINE s == NewBlockSize(v)
           t == [rec_size |-> RecSize]
           bytes_capacity == (s - SizeofHeadBlock) % Word
<1>1. /\ Word \in Nat /\ ChunkSize \in Nat /\ ChunkSize > 0 /\ RecSize \in Nat
      /\ SizeofHeadBlock + RecSize + 1 <= ChunkSize /\ ChunkSize <= Word
  <2>1. PICK m \in Nat : Word = m * ChunkSize
    BY DEF RoomInChunks
  <2>2. Word > 0 /\ ChunkSize \in Nat /\ ChunkSize > 0
    BY FlatRecsAssumption
  <2>3. m >= 1
    BY <2>1, <2>2
  <2>4. m * ChunkSize >= ChunkSize
    BY <2>2, <2>3
  <2> QED
    BY <2>1, <2>4, FlatRecsAssumption DEF RoomInChunks
<1>2. s \in 0 .. Word - 1 /\ (s = 0 \/ s >= ChunkSize)
  <2>1. flatrecs_full_recsize(v.thead) \in Nat /\ v.recno - NextStart(v) \in Int
    BY LoopTypes, RecsizeType DEF Locals, InfoTable
  <2>2. (flatrecs_full_recsize(v.thead) * (v.recno - NextStart(v))) % Word \in Nat
    BY <2>1, WordRange
  <2>3. PICK k \in Nat : s = (k * ChunkSize) % Word
    <3> DEFINE n == (flatrecs_full_recsize(v.thead) * (v.recno - NextStart(v))) % Word
    <3>1. n + ChunkSize - 1 \in Nat
      BY <1>1, <2>2
    <3>2. s = (((n + ChunkSize - 1) \div ChunkSize) * ChunkSize) % Word
      BY DEF NewBlockSize
    <3> HIDE DEF n, s
    <3>3. (n + ChunkSize - 1) \div ChunkSize \in Nat
      BY <1>1, <3>1, DivType
    <3> QED
      BY <3>2, <3>3
  <2>4. k * ChunkSize \in Int
    BY <1>1
  <2> HIDE DEF s
  <2> QED
    BY <2>3, <2>4, ChunksInWord, WordRange
<1>3. bytes_capacity >= RecSize + 1 /\ bytes_capacity \in Nat
  <2> HIDE DEF s
  <2>1. CASE s = 0
    <3>1. (0 - 32) % Word = Word - 32
      BY <1>1 DEF SizeofHeadBlock
    <3> QED
      BY <1>1, <2>1, <3>1 DEF SizeofHeadBlock
  <2>2. CASE s >= ChunkSize
    <3>1. s - 32 \in 0 .. Word - 1
      BY <1>1, <1>2, <2>2 DEF SizeofHeadBlock
    <3>2. (s - 32) % Word = s - 32
      BY <3>1, WordFits
    <3> QED
      BY <1>1, <1>2, <2>2, <3>1, <3>2 DEF SizeofHeadBlock
  <2> QED
    BY <1>2, <2>1, <2>2
<1>4. flatrecs_full_recsize(t) = RecSize + 1
    BY <1>1, WordFits DEF flatrecs_full_recsize, SizeofHeadBlock
<1>5. bytes_capacity \div (RecSize + 1) >= 1
  <2>1. \A n \in Nat, d \in Nat : d > 0 /\ n >= d => n \div d >= 1
    OBVIOUS
  <2>2. RecSize + 1 \in Nat /\ RecSize + 1 > 0
    BY <1>1
  <2> HIDE DEF bytes_capacity
  <2> QED
    BY <1>3, <2>1, <2>2
<1>6. flatrecs_get_record_capacity(t, Block(SizeofHeadBlock, s, 0))
        = bytes_capacity \div (RecSize + 1)
    BY <1>1, <1>4 DEF flatrecs_get_record_capacity, Block
<1> QED
  <2> DEFINE cap == flatrecs_get_record_capacity(t, Block(SizeofHeadBlock, s, 0))
  <2>1. cap \in Nat /\ cap >= 1
    <3>1. bytes_capacity \div (RecSize + 1) \in Nat
      <4>1. RecSize + 1 \in Nat \ {0}
        BY <1>1
      <4> HIDE DEF bytes_capacity
      <4> QED
        BY <1>3, <4>1, DivType
    <3> QED
      BY <1>5, <1>6, <3>1
  <2>2. RecnoAfter(0, Block(SizeofHeadBlock, s, 0)) = 0 + cap
    BY DEF RecnoAfter
  <2> HIDE DEF cap
  <2> QED
    BY <2>1, <2>2 DEF Room

(* What room a block has does not depend on where it leads to. *)
LEMMA RoomStays ==
    ASSUME NEW b \in InfoBlock, NEW c, HeadLost(b) \/ Room(b),
           c.block_size = b.block_size, c.bytes_to_data = b.bytes_to_data
    PROVE  HeadLost(c) \/ Room(c)
BY DEF HeadLost, Room, RecnoAfter, flatrecs_get_record_capacity

(* Every block of the chain has, unless its head was lost. *)
RoomInv == \A o \in DOMAIN first_recno : HeadLost(head[o]) \/ Room(head[o])

LEMMA RoomStep ==
    ASSUME IInv, RoomInChunks, RoomInv, [Next]_vars
    PROVE  RoomInv'
<1>1. /\ \A o \in DOMAIN first_recno : o \in DOMAIN head
      /\ head \in [DOMAIN head -> InfoBlock] /\ var \in [Proc -> Locals]
    BY DEF IInv, CopiedInv, TypeInv, TypeOK
<1>2. CASE UNCHANGED <<head, first_recno>>
    BY <1>2 DEF RoomInv
<1>3. ASSUME NEW p \in Proc, NEW b \in NewHeads(NewBlockSize(var[p]))
      PROVE  HeadLost(b) \/ Room(b)
    BY <1>1, NewBlockRoom DEF NewHeads, HeadLost, NoHead, Block
<1>4. ASSUME NEW b, HeadLost(b) \/ Room(b), head' = HeadWith(b), UNCHANGED first_recno
      PROVE  RoomInv'
    BY <1>1, <1>4 DEF RoomInv, HeadWith
<1>5. ASSUME NEW b, HeadLost(b) \/ Room(b), NEW parent \in DOMAIN first_recno,
             parent # size, size \notin DOMAIN first_recno,
             head' = HeadLinked(b, parent), first_recno' = FirstLinked(parent)
      PROVE  RoomInv'
  <2>1. /\ head'[size] = b
        /\ \A o \in DOMAIN first_recno :
              /\ head'[o].block_size = head[o].block_size
              /\ head'[o].bytes_to_data = head[o].bytes_to_data
        /\ DOMAIN first_recno' = DOMAIN first_recno \cup {size}
    BY <1>1, <1>5 DEF HeadLinked, HeadWith, FirstLinked, InfoBlock
  <2>2. ASSUME NEW o \in DOMAIN first_recno PROVE HeadLost(head'[o]) \/ Room(head'[o])
    BY <1>1, <2>1, RoomStays DEF RoomInv
  <2> QED
    BY <1>5, <2>1, <2>2 DEF RoomInv
<1>6. ASSUME NEW p \in Proc, Extend(p) PROVE RoomInv'
  <2>1. PICK b \in NewHeads(NewBlockSize(var[p])) :
              \/ head' = HeadWith(b) /\ UNCHANGED first_recno
              \/ /\ head' = HeadLinked(b, var[p].iblock_offset)
                 /\ first_recno' = FirstLinked(var[p].iblock_offset)
    BY <1>6, ExtendAppends DEF IInv
  <2>2. /\ var[p].iblock_offset \in DOMAIN first_recno /\ var[p].iblock_offset < size
        /\ head[var[p].iblock_offset].next_block = 0 /\ var[p].iblock_offset # size
    BY <1>6, ExtendBeyondFirst DEF IInv, CopiedInv, TypeInv, TypeOK
  <2>3. HeadLost(b) \/ Room(b)
    BY <1>3
  <2>4. b.next_block = 0
    BY DEF NewHeads, Block, NoHead
  <2> QED
    BY <1>4, <1>5, <2>1, <2>2, <2>3, <2>4, LinkedInOrder
<1>7. ASSUME NEW p \in Proc, WriteBack(p) PROVE UNCHANGED <<head, first_recno>>
  <2>1. var[p].bhead = head[0] /\ 0 \in DOMAIN head
    BY <1>7, LeadsToHeads DEF WriteBack, IInv, CopiedInv, CopyInv, Copied
  <2> QED
    BY <1>1, <1>7, <2>1 DEF WriteBack
<1>8. ASSUME NEW p \in Proc, LinkFails(p) PROVE RoomInv'
    BY <1>3, <1>4, <1>8 DEF LinkFails
<1> QED
    BY <1>2, <1>6, <1>7, <1>8
    DEF Next, Turn, GetNextOffset, Found, NextBlock, AppendFails, UserAsks, UserDeclines,
        UserStores, Crash, vars

(* A block whose head was lost has room for no record. *)
LEMMA NoRoom ==
    ASSUME RoomInChunks, NEW v \in Locals, v.thead.rec_size = RecSize, HeadLost(v.iblock)
    PROVE  RecCapacity(v) = 0
<1>1. /\ Word \in Nat /\ RecSize \in Nat /\ RecSize + 1 \in 0 .. Word - 1
  <2>1. PICK m \in Nat : Word = m * ChunkSize
    BY DEF RoomInChunks
  <2>2. Word > 0 /\ ChunkSize \in Nat /\ ChunkSize > 0
    BY FlatRecsAssumption
  <2>3. m >= 1
    BY <2>1, <2>2
  <2>4. m * ChunkSize >= ChunkSize
    BY <2>2, <2>3
  <2> QED
    BY <2>1, <2>4, FlatRecsAssumption DEF RoomInChunks, SizeofHeadBlock
<1>2. flatrecs_full_recsize(v.thead) = RecSize + 1
    BY <1>1, WordFits DEF flatrecs_full_recsize
<1>3. (v.iblock.block_size - v.iblock.bytes_to_data) % Word = 0
    BY <1>1 DEF HeadLost
<1>4. \A d \in Nat : d > 0 => 0 \div d = 0
    OBVIOUS
<1> QED
    BY <1>1, <1>2, <1>3, <1>4 DEF RecCapacity, flatrecs_get_record_capacity

(* One that has no next one either is the one that zeros are read for. *)
LEMMA LostLast ==
    ASSUME NEW b \in InfoBlock, HeadLost(b), b.next_block = 0
    PROVE  b = NoHead
BY DEF InfoBlock, HeadLost, NoHead, Block

LEMMA TurnStep ==
    ASSUME IInv, RoomInv, RoomInChunks, [Next]_vars,
           NEW p \in Proc, pc[p] = "loop", pc'[p] = "loop"
    PROVE  UNCHANGED vars \/
           /\ var'[p].recno = var[p].recno
           /\ \/ var'[p].start_rec > var[p].start_rec
              \/ /\ HeadLost(var[p].iblock)
                 /\ var'[p].start_rec = var[p].start_rec
                 /\ \/ var'[p].iblock_offset > var[p].iblock_offset
                    \/ var[p].iblock = NoHead /\ var'[p].iblock = NoHead
<1> DEFINE v == var[p]
           o == v.iblock_offset
<1>0. /\ v \in Locals /\ pc \in [Proc -> Labels] /\ var \in [Proc -> Locals] /\ lock = p
      /\ v.start_rec \in 1 .. v.recno /\ v.recno < Word /\ Copied(p)
      /\ o \in DOMAIN first_recno /\ o < size /\ thead.rec_size = RecSize
      /\ v.iblock = head[o] /\ v.iblock \in InfoBlock /\ v.thead.rec_size = RecSize
    BY DEF IInv, CopiedInv, TypeInv, TypeOK, LockInv, StartNeverPasses, CopyInv, Copied, Labels,
           Locals
<1>1. (HeadLost(v.iblock) /\ RecCapacity(v) = 0) \/ RecCapacity(v) > 0
  <2>1. HeadLost(head[o]) \/ RecnoAfter(0, head[o]) > 0
    BY <1>0 DEF RoomInv, Room
  <2>2. RecCapacity(v) = flatrecs_get_record_capacity([rec_size |-> RecSize], head[o])
    BY <1>0 DEF RecCapacity, flatrecs_get_record_capacity, flatrecs_full_recsize
  <2>3. RecCapacity(v) \in Nat
    BY <1>0, LoopTypes
  <2>4. CASE HeadLost(head[o])
    BY <1>0, <2>4, NoRoom
  <2>5. CASE RecnoAfter(0, head[o]) > 0
    BY <2>2, <2>3, <2>5 DEF RecnoAfter
  <2> QED
    BY <2>1, <2>4, <2>5
<1>2. ASSUME Beyond(v)
      PROVE  NextStart(v) > v.start_rec \/ (HeadLost(v.iblock) /\ NextStart(v) = v.start_rec)
  <2>1. NextStart(v) = v.start_rec + RecCapacity(v)
    BY <1>0, <1>2, CountingFits
  <2>2. RecCapacity(v) \in Nat /\ v.start_rec \in Nat
    BY <1>0, LoopTypes DEF Locals
  <2> QED
    BY <1>1, <2>1, <2>2
<1>3. CASE NextBlock(p) \/ AppendFails(p) \/ LinkFails(p) \/ Extend(p)
  <2>1. Beyond(v)
    BY <1>3 DEF NextBlock, AppendFails, LinkFails, Extend, AtEnd
  <2>2. ~Abandon(p)
    BY <1>0 DEF Abandon, Leave, Goto, Labels
  <2> DEFINE start == NextStart(v)
  <2>3. /\ var'[p].recno = v.recno /\ var'[p].start_rec = start
        /\ HeadLost(v.iblock) => \/ var'[p].iblock_offset > o
                                 \/ v.iblock = NoHead /\ var'[p].iblock = NoHead
    <3>1. CASE NextBlock(p)
      <4>1. var'[p] = AtNext(v) /\ v.iblock.next_block # 0
        BY <1>0, <2>2, <3>1 DEF NextBlock
      <4>2. /\ var'[p].recno = v.recno /\ var'[p].start_rec = start
            /\ var'[p].iblock_offset = v.iblock.next_block
        BY <1>0, <4>1 DEF AtNext, Locals
      <4>3. v.iblock.next_block > o
        BY <1>0, <4>1 DEF IInv, ChainIsList
      <4> QED
        BY <4>2, <4>3
    <3>2. CASE AppendFails(p) \/ LinkFails(p)
      <4>1. \E err : var'[p] = [v EXCEPT !.start_rec = start, !.rval = err, !.clean = FALSE]
        BY <1>0, <3>2 DEF AppendFails, LinkFails, Retry
      <4>2. HeadLost(v.iblock) => v.iblock = NoHead
        BY <1>0, <3>2, LostLast DEF AppendFails, LinkFails, AtEnd
      <4> HIDE DEF start
      <4>3. /\ var'[p].recno = v.recno /\ var'[p].start_rec = start
            /\ var'[p].iblock = v.iblock
        BY <1>0, <4>1 DEF Locals
      <4> QED
        BY <4>2, <4>3
    <3>3. CASE Extend(p)
      <4>1. \E b : var'[p] = [v EXCEPT !.start_rec = start, !.iblock = b,
                                       !.iblock_offset = size, !.rval = "SUCCESS"]
        BY <1>0, <2>2, <3>3 DEF Extend
      <4> HIDE DEF start
      <4>2. /\ var'[p].recno = v.recno /\ var'[p].start_rec = start
            /\ var'[p].iblock_offset = size
        BY <1>0, <4>1 DEF Locals
      <4>3. size > o
        BY <1>0
      <4> QED
        BY <4>2, <4>3
    <3> QED
      BY <1>3, <3>1, <3>2, <3>3
  <2> HIDE DEF start
  <2> QED
    BY <1>2, <2>1, <2>3 DEF start
<1>4. ASSUME NEW q \in Proc,
             GetNextOffset(q) \/ Found(q) \/ UserDeclines(q) \/ UserStores(q) \/ WriteBack(q)
             \/ Crash(q) \/ \E r \in Asked : UserAsks(q, r)
      PROVE  FALSE
  <2>1. lock # NoProc
    BY <1>0, FlatRecsAssumption
  <2>2. pc[q] # "idle" => q = p
    BY <1>0 DEF IInv, CopiedInv, TypeInv, LockInv
  <2> QED
    BY <1>0, <1>4, <2>1, <2>2
    DEF GetNextOffset, TableFree, Found, UserDeclines, UserStores, WriteBack, Crash, UserAsks,
        Leave, Goto, Labels
<1>5. ASSUME NEW q \in Proc, NextBlock(q) \/ AppendFails(q) \/ LinkFails(q) \/ Extend(q)
      PROVE  q = p
    BY <1>0, <1>5 DEF NextBlock, AppendFails, LinkFails, Extend, AtEnd,
                      IInv, CopiedInv, TypeInv, LockInv
<1> QED
    BY <1>3, <1>4, <1>5 DEF Next, Turn

(***************************************************************************)
(* Each turn of the loop, whatever it was that failed in it, passes by a   *)
(* record, and CountingNeverWraps says that none passes by the one it is   *)
(* looking for; or it is a turn at a block whose head was lost, and then   *)
(* it goes on to a block further on, or is where it was, at a last block   *)
(* that zeros are read for.                                                *)
(***************************************************************************)
THEOREM LoopAdvances ==
    TwoBlocksAtLeast /\ RoomInChunks => (Spec => TurnsAdvance)
<1> SUFFICES ASSUME TwoBlocksAtLeast, RoomInChunks PROVE Spec => TurnsAdvance
    OBVIOUS
<1>1. Init => RoomInv
    BY DEF Init, RoomInv, RoomInChunks
<1>2. IInv /\ RoomInv /\ [Next]_vars => RoomInv'
    BY RoomStep
<1>3. IInv /\ RoomInv /\ [Next]_vars =>
        [\A p \in Proc : pc[p] = "loop" /\ pc'[p] = "loop" =>
            /\ var'[p].recno = var[p].recno
            /\ \/ var'[p].start_rec > var[p].start_rec
               \/ /\ HeadLost(var[p].iblock)
                  /\ var'[p].start_rec = var[p].start_rec
                  /\ \/ var'[p].iblock_offset > var[p].iblock_offset
                     \/ var[p].iblock = NoHead /\ var'[p].iblock = NoHead]_vars
    BY TurnStep
<1> QED
    BY <1>1, <1>2, <1>3, Invariance, PTL DEF Spec, TurnsAdvance

-----------------------------------------------------------------------------
(* Links stay *)

LEMMA ChainStep ==
    ASSUME IInv, [Next]_vars, NEW o \in DOMAIN head
    PROVE  o \in DOMAIN head' /\ (head[o].next_block # 0 => head'[o] = head[o])
<1>1. size \in DOMAIN head => head[size].next_block = 0
    BY DEF IInv, CopiedInv, TypeInv, WellFormed, TypeOK
<1>2. ASSUME NEW b, head' = HeadWith(b)
      PROVE  o \in DOMAIN head' /\ (head[o].next_block # 0 => head'[o] = head[o])
    BY <1>1, <1>2 DEF HeadWith
<1>3. ASSUME NEW b, NEW parent \in DOMAIN head, head[parent].next_block = 0,
             head' = HeadLinked(b, parent)
      PROVE  o \in DOMAIN head' /\ (head[o].next_block # 0 => head'[o] = head[o])
    BY <1>1, <1>3 DEF HeadLinked, HeadWith
<1>4. ASSUME NEW p \in Proc, LinkFails(p)
      PROVE  o \in DOMAIN head' /\ (head[o].next_block # 0 => head'[o] = head[o])
    BY <1>2, <1>4 DEF LinkFails
<1>5. ASSUME NEW p \in Proc, Extend(p)
      PROVE  o \in DOMAIN head' /\ (head[o].next_block # 0 => head'[o] = head[o])
  <2>1. var[p].iblock_offset \in DOMAIN head /\ head[var[p].iblock_offset].next_block = 0
    BY <1>5, ExtendBeyondFirst DEF IInv
  <2>2. \E b : head' = HeadWith(b) \/ head' = HeadLinked(b, var[p].iblock_offset)
    BY <1>5, ExtendAppends DEF IInv
  <2> QED
    BY <1>2, <1>3, <2>1, <2>2
<1>6. ASSUME NEW p \in Proc, WriteBack(p) PROVE head' = head
  <2>1. head' = head \/ head' = [head EXCEPT ![0] = var[p].bhead]
    BY <1>6 DEF WriteBack
  <2>2. var[p].bhead = head[0]
    BY <1>6 DEF WriteBack, IInv, CopiedInv, CopyInv, Copied
  <2> QED
    BY <2>1, <2>2 DEF IInv, CopiedInv, TypeInv, TypeOK, WellFormed
<1>7. \/ head' = head
      \/ \E p \in Proc : LinkFails(p) \/ Extend(p) \/ WriteBack(p)
    BY DEF Next, Turn, GetNextOffset, Found, NextBlock, AppendFails, UserAsks,
           UserDeclines, UserStores, Crash, vars
<1> QED
    BY <1>4, <1>5, <1>6, <1>7

(***************************************************************************)
(* A linked block of a table that starts with two blocks stays linked: the *)
(* head that is written back is never older than a link in it.             *)
(***************************************************************************)
THEOREM ChainIsKept == TwoBlocksAtLeast => (Spec => ChainKept)
<1> SUFFICES ASSUME TwoBlocksAtLeast PROVE Spec => ChainKept
    OBVIOUS
<1>1. IInv /\ [Next]_vars => [LinksStay]_vars
    BY ChainStep DEF LinksStay
<1> QED
    BY Invariance, <1>1, PTL DEF Spec, ChainKept

-----------------------------------------------------------------------------
(* Refinement *)

LEMMA NumbersStep ==
    ASSUME IInv, [Next]_vars
    PROVE  [Numbers!Next]_<<thead.last_recno, {s.recno : s \in stored}>>
<1>1. ASSUME NEW p \in Proc, WriteBack(p)
      PROVE  UNCHANGED <<thead, stored>> \/ Numbers!Next
  <2>1. CASE /\ thead' = var[p].thead
             /\ stored' = stored \cup {[recno  |-> var[p].thead.last_recno,
                                        offset |-> var[p].offset_new_record]}
    <3>1. var[p].thead = [thead EXCEPT !.last_recno = @ + 1]
      BY <1>1 DEF WriteBack, IInv, CopiedInv, CopyInv, Copied
    <3>2. thead'.last_recno = thead.last_recno + 1
      BY <2>1, <3>1 DEF IInv, CopiedInv, TypeInv, TypeOK, InfoTable
    <3>3. {s.recno : s \in stored'} = {s.recno : s \in stored} \cup {thead'.last_recno}
      <4> DEFINE new == [recno  |-> var[p].thead.last_recno,
                         offset |-> var[p].offset_new_record]
      <4>1. new.recno = thead'.last_recno /\ stored' = stored \cup {new}
        BY <2>1
      <4> HIDE DEF new
      <4>2. \A n : n \in {s.recno : s \in stored'} <=>
                   n \in {s.recno : s \in stored} \/ n = new.recno
        BY <4>1
      <4> QED
        BY <4>1, <4>2
    <3> QED
      BY <3>2, <3>3 DEF Numbers!Next
  <2> QED
    BY <1>1, <2>1 DEF WriteBack
<1>2. UNCHANGED <<thead, stored>> \/ \E p \in Proc : WriteBack(p)
  <2>1. ASSUME NEW p \in Proc, Extend(p) PROVE UNCHANGED <<thead, stored>>
    BY <2>1, ExtendBeyondFirst DEF IInv
  <2> QED
    BY <2>1 DEF Next, Turn, GetNextOffset, Found, NextBlock, AppendFails, LinkFails, UserAsks,
           UserDeclines, UserStores, Crash, vars
<1> QED
    BY <1>1, <1>2

(***************************************************************************)
(* flatrecs_get_next_offset gives record numbers one after the other, each *)
(* to one record, whoever fails or dies.                                   *)
(***************************************************************************)
THEOREM Implementation == TwoBlocksAtLeast => (Spec => ImplementsRecNumbers)
<1> SUFFICES ASSUME TwoBlocksAtLeast PROVE Spec => Numbers!Spec
    BY DEF ImplementsRecNumbers
<1>1. Init => Numbers!Init
    BY DEF Init, Numbers!Init
<1>2. IInv /\ [Next]_vars =>
        [Numbers!Next]_<<thead.last_recno, {s.recno : s \in stored}>>
    BY NumbersStep
<1> QED
    BY Invariance, <1>1, <1>2, PTL DEF Spec, Numbers!Spec
=============================================================================
