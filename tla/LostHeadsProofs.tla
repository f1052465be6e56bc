-------------------------- MODULE LostHeadsProofs --------------------------
(***************************************************************************)
(* What the block layer guarantees whichever stdio call fails, also those  *)
(* whose result it throws away: a block is then linked without a head in   *)
(* the file, and no other block is the worse for it, when the blocks that  *)
(* are asked for are larger than any head.                                 *)
(***************************************************************************)
EXTENDS BlocksProofs

(* Facts about the bytes set aside for blocks *)

LEMMA SpanType ==
    ASSUME TypeInv
    PROVE  /\ \A s \in Spans : s.offset \in Nat /\ s.size \in Nat
           /\ \A b \in DOMAIN head :
                /\ b \in Nat /\ Extent(head[b]) \in Nat /\ Extent(head[b]) >= SizeofHeadBlock
                /\ [offset |-> b, size |-> Extent(head[b])] \in Spans
           /\ \A b \in Linked : head[b].next_block \in Spans
<1>1. \A b \in DOMAIN head :
         /\ b \in Nat /\ head[b] \in BlockHead
         /\ Extent(head[b]) \in Nat /\ Extent(head[b]) >= SizeofHeadBlock
    BY ExtentType DEF TypeInv, TypeOK
<1>2. \A b \in DOMAIN head : head[b].next_block.offset \in Nat /\ head[b].next_block.size \in Nat
    BY <1>1 DEF BlockHead, BlockLoc
<1> QED
    BY <1>1, <1>2 DEF Spans, Linked

(* A head that can be read starts before what lies beyond its bytes. *)
LEMMA ReadableSpan ==
    ASSUME TypeInv, NEW o \in Readable
    PROVE  \E s \in Spans : s.offset = o /\ s.size >= SizeofHeadFile
BY DEF Readable

LEMMA ReadableBefore ==
    ASSUME TypeInv, NEW p \in Proc, BeyondAll(p), NEW o \in Readable
    PROVE  o < pos[p]
<1>1. PICK s \in Spans : s.offset = o /\ s.size >= SizeofHeadFile
    BY ReadableSpan
<1>2. s.offset \in Nat /\ s.size \in Nat /\ s.offset + s.size <= pos[p] /\ pos[p] \in Nat
    BY SpanType DEF BeyondAll, TypeInv, TypeOK
<1> QED
    BY <1>1, <1>2 DEF SizeofHeadFile

(* The block p adds has room for its head. *)
LEMMA NewBlockSize ==
    ASSUME LostInv, BlocksHoldHeads, NEW p \in Proc, Adding(p)
    PROVE  /\ req[p].block_size \in Nat /\ req[p].block_size >= SizeofHeadFile
           /\ pos[p] \in Nat /\ NewBlock(p) \in BlockLoc
           /\ LET h == SetInfoBlock(req[p].block_type, req[p].block_size) IN
              /\ h \in BlockHead
              /\ Extent(h) = req[p].block_size
              /\ h.next_block = NoBlock
              /\ h.block_type = req[p].block_type
           /\ BytesToData(req[p].block_type) = SizeofHeadBlock
<1>1. /\ req[p].block_size \in Sizes /\ req[p].block_size \in Nat /\ pos[p] \in Nat
      /\ req[p].block_type \in {"GENERIC", "DATA"}
    BY BlocksAssumption DEF LostInv, TypeInv, TypeOK, LockInv, Request
<1>2. req[p].block_size >= SizeofHeadFile
    BY <1>1 DEF BlocksHoldHeads
<1>3. req[p].block_type \in BTYPE
    BY <1>1 DEF BTYPE
<1>4. SetInfoBlock(req[p].block_type, req[p].block_size).block_type = req[p].block_type
    BY DEF SetInfoBlock
<1> QED
    BY <1>1, <1>2, <1>3, <1>4, NewBlockExtent, SetInfoBlockType
    DEF NewBlock, BlockLoc, SizeofHeadFile, SizeofHeadBlock

-----------------------------------------------------------------------------
(* The initial states *)

LEMMA InitLostInv == Init => LostInv
<1> SUFFICES ASSUME Init PROVE LostInv
    OBVIOUS
<1> USE BlocksAssumption
<1>1. TypeInv /\ LockInv /\ LinksFormLists
    BY InitInv DEF IInv
<1>2. DOMAIN head = Roots /\ size = InitialSize
    BY DEF Init
<1>3. \A b \in DOMAIN head : Extent(head[b]) = ChunkSize /\ head[b].next_block = NoBlock
    BY FirstBlockExtent DEF Init
<1>4. Linked = {}
    BY <1>3 DEF Linked, PointsToChild, NoBlock
<1>5. Spans = {[offset |-> r, size |-> ChunkSize] : r \in Roots}
    BY <1>2, <1>3, <1>4 DEF Spans
<1>6. SpansApart
    BY <1>2, <1>5 DEF SpansApart
<1>7. Roots \subseteq Readable
  <2>1. ASSUME NEW r \in Roots
        PROVE  \E s \in Spans : s.size >= SizeofHeadFile /\ s.offset = r
    <3>1. [offset |-> r, size |-> ChunkSize] \in Spans
      BY <1>5
    <3> QED
      BY <3>1
  <2> QED
    BY <2>1 DEF Readable
<1>8. SpaceInv
    BY <1>1, <1>2, <1>4, <1>6, <1>7 DEF SpaceInv
<1>9. \A p \in Proc : LostStreamInv(p)
    BY <1>7 DEF Init, LostStreamInv, NothingPending, NoRequest, Adding
<1>10. \A p \in Proc : ~Adding(p)
    BY DEF Init, Adding, NoRequest
<1> QED
    BY <1>1, <1>8, <1>9, <1>10 DEF LostInv

-----------------------------------------------------------------------------
(* What a step does to the file *)

(* The head of p's block appears at the start of the bytes set aside for it. *)
HeadAdded(p) ==
    /\ BeyondAll(p) /\ pos[p] % ChunkSize = 0 /\ size = pos[p] + req[p].block_size
    /\ size' >= size
    /\ head' = [o \in DOMAIN head \cup {pos[p]} |->
                   IF o = pos[p] THEN SetInfoBlock(req[p].block_type, req[p].block_size)
                   ELSE head[o]]

(* The block at cur[p], with a head or without, gets p's block for a child. *)
ChildAdded(p) ==
    /\ Placed(p)
    /\ ~PointsToChild(ReadHead(cur[p]))
    /\ size' >= size
    /\ DOMAIN head' = DOMAIN head \cup {cur[p]}
    /\ \A b \in DOMAIN head : b # cur[p] => head'[b] = head[b]
    /\ head'[cur[p]] \in BlockHead
    /\ head'[cur[p]].next_block = NewBlock(p)
    /\ head'[cur[p]].block_type = ReadHead(cur[p]).block_type
    /\ head'[cur[p]].block_size = ReadHead(cur[p]).block_size

LEMMA LostSettleEffect ==
    ASSUME LostInv, NEW p \in Proc, Settle(p)
    PROVE  head' = head /\ size' = size + req[p].block_size
<1>1. pending[p] = [kind |-> "byte", at |-> size + req[p].block_size - 1, len |-> 1,
                    head |-> ZeroHead]
    BY DEF LostInv, LostStreamInv, Settle, LastByteOf
<1>2. req[p].block_size \in Nat /\ size \in Nat
    BY DEF LostInv, TypeInv, TypeOK, Request
<1> QED
    BY <1>1, <1>2 DEF Settle, Flush

LEMMA LostRestoreEffect ==
    ASSUME LostInv, BlocksHoldHeads, NEW p \in Proc, Restore(p)
    PROVE  /\ pending' = [pending EXCEPT ![p] = NothingPending]
           /\ UNCHANGED file \/ HeadAdded(p)
<1>1. /\ pending[p] = [kind |-> "head", at |-> pos[p], len |-> SizeofHeadBlock,
                       head |-> SetInfoBlock(req[p].block_type, req[p].block_size)]
      /\ BeyondAll(p) /\ pos[p] % ChunkSize = 0 /\ size = pos[p] + req[p].block_size
      /\ Adding(p)
    BY DEF LostInv, LostStreamInv, LockInv, Restore
<1>2. pos[p] \in Nat /\ size \in Nat
    BY DEF LostInv, TypeInv, TypeOK
<1>3. CASE Flush(p)
    BY <1>1, <1>2, <1>3 DEF Flush, HeadAdded, SizeofHeadBlock
<1>4. CASE LoseWrite(p)
    BY <1>4 DEF LoseWrite
<1> QED
    BY <1>3, <1>4 DEF Restore

LEMMA LostReleaseEffect ==
    ASSUME LostInv, NEW p \in Proc, Release(p)
    PROVE  UNCHANGED file \/ (Adding(p) /\ ChildAdded(p))
<1>1. CASE pending[p] = NothingPending
    BY <1>1, FlushNothing DEF LostInv, TypeInv, Release, LoseWrite, file
<1>2. CASE /\ Adding(p) /\ Placed(p)
           /\ ib[p] = ReadHead(cur[p]) /\ ~PointsToChild(ib[p])
           /\ pending[p] = LinkWrite(p)
  <2>1. /\ ib[p] \in BlockHead /\ req[p] \in Request
        /\ pos[p] \in Nat /\ size \in Nat /\ cur[p] \in Nat
    BY DEF LostInv, TypeInv, TypeOK
  <2>2. NewBlock(p) \in BlockLoc /\ BytesToData(req[p].block_type) \in Nat
    BY <2>1 DEF NewBlock, BlockLoc, Request, BytesToData, SizeofHeadBlock, SizeofHeadTable,
                SizeofHeadFile
  <2>3. WriteLength(ib[p].block_type, BytesToData(req[p].block_type)) \in Nat
        /\ SizeofHeadBlock \in Nat
    BY <2>1, <2>2, WriteLengthType DEF BlockHead, SizeofHeadBlock
  <2>4. PICK h \in BlockHead, l \in Nat :
           /\ pending[p] = [kind |-> "head", at |-> cur[p], len |-> l, head |-> h]
           /\ h.next_block = NewBlock(p)
           /\ h.block_type = ib[p].block_type
           /\ h.block_size = ib[p].block_size
    <3>1. CASE req[p].op = "extend"
      <4>1. pending[p] =
              [kind |-> "head", at |-> cur[p],
               len  |-> WriteLength(ib[p].block_type, BytesToData(req[p].block_type)),
               head |-> LinkedByExtend(ib[p], NewBlock(p), BytesToData(req[p].block_type))]
        BY <1>2, <3>1 DEF LinkWrite
      <4>2. LET h == LinkedByExtend(ib[p], NewBlock(p), BytesToData(req[p].block_type)) IN
            /\ h \in BlockHead
            /\ h.next_block = NewBlock(p)
            /\ h.block_type = ib[p].block_type
            /\ h.block_size = ib[p].block_size
        BY <2>1, <2>2, LinkedHead
      <4> QED
        BY <2>3, <4>1, <4>2
    <3>2. CASE req[p].op # "extend"
      <4>1. pending[p] = [kind |-> "head", at |-> cur[p], len |-> SizeofHeadBlock,
                          head |-> LinkedByAddLink(ib[p], NewBlock(p))]
        BY <1>2, <3>2 DEF LinkWrite
      <4>2. LET h == LinkedByAddLink(ib[p], NewBlock(p)) IN
            /\ h \in BlockHead
            /\ h.next_block = NewBlock(p)
            /\ h.block_type = ib[p].block_type
            /\ h.block_size = ib[p].block_size
        BY <2>1, <2>2, LinkedHead
      <4> QED
        BY <2>3, <4>1, <4>2
    <3> QED
      BY <3>1, <3>2
  <2>5. CASE Flush(p)
    <3>1. size' >= size
      BY <2>1, <2>4, <2>5 DEF Flush
    <3>2. head' = [o \in DOMAIN head \cup {cur[p]} |-> IF o = cur[p] THEN h ELSE head[o]]
      BY <2>4, <2>5 DEF Flush
    <3> QED
      BY <1>2, <2>4, <3>1, <3>2 DEF ChildAdded
  <2>6. CASE LoseWrite(p)
    BY <2>6 DEF LoseWrite
  <2> QED
    BY <2>5, <2>6 DEF Release
<1> QED
    BY <1>1, <1>2 DEF LostInv, LostStreamInv, Release

(* A process changes the file in one of those ways, and only to add a block. *)
LEMMA LostStepEffect ==
    ASSUME LostInv, BlocksHoldHeads, NEW p \in Proc, StepBy(p)
    PROVE  \/ UNCHANGED file
           \/ Adding(p) /\ (SpaceAdded \/ HeadAdded(p) \/ ChildAdded(p))
<1>1. CASE Settle(p)
    BY <1>1, LostSettleEffect
    DEF Settle, SpaceAdded, LostInv, LockInv, TypeInv, TypeOK, Request
<1>2. CASE Restore(p)
    BY <1>2, LostRestoreEffect DEF Restore, LostInv, LockInv
<1>3. CASE Release(p)
    BY <1>3, LostReleaseEffect
<1>4. CASE ~(Settle(p) \/ Restore(p) \/ Release(p))
    BY <1>4 DEF StepBy, Step, Advance, Begin, BeginWalk, Tell, Locate, Grow, WriteHeader, Walk,
                ReadLink, WriteLink, SystemError, ReadError, Crash, LoseWrite
<1> QED
    BY <1>1, <1>2, <1>3, <1>4

-----------------------------------------------------------------------------
(* The three things a step can do to the file keep the bytes of blocks apart. *)

LEMMA SpaceAddedKeepsSpace ==
    ASSUME TypeInv, TypeInv', SpaceInv, SpaceAdded
    PROVE  SpaceInv' /\ Spans' = Spans
<1>1. Spans' = Spans /\ Linked' = Linked
    BY DEF SpaceAdded, Spans, Linked
<1>2. Readable' = Readable
    BY <1>1 DEF Readable
<1>3. SpansApart'
    BY <1>1, SpanType DEF SpaceInv, SpansApart, SpaceAdded, TypeInv, TypeOK
<1>4. LinksFormLists'
    BY <1>1 DEF SpaceInv, LinksFormLists, SpaceAdded
<1> QED
    BY <1>1, <1>2, <1>3, <1>4 DEF SpaceInv, SpaceAdded

(* Bytes set aside stay so, and then so do the places where heads are read. *)
LEMMA ReadableStays ==
    ASSUME Spans \subseteq Spans'
    PROVE  Readable \subseteq Readable'
BY DEF Readable

LEMMA HeadAddedKeepsSpace ==
    ASSUME LostInv, BlocksHoldHeads, TypeInv', NEW p \in Proc, Adding(p), HeadAdded(p)
    PROVE  /\ SpaceInv' /\ Spans' = Spans \cup {NewBlock(p)} /\ Linked' = Linked
           /\ \A b \in DOMAIN head : b \in DOMAIN head' /\ head'[b] = head[b]
<1> DEFINE h == SetInfoBlock(req[p].block_type, req[p].block_size)
<1>0. TypeInv /\ SpaceInv
    BY DEF LostInv
<1>1. /\ req[p].block_size \in Nat /\ req[p].block_size >= SizeofHeadFile /\ pos[p] \in Nat
      /\ Extent(h) = req[p].block_size /\ h.next_block = NoBlock
      /\ size \in Nat /\ size' \in Nat
    BY <1>0, NewBlockSize DEF TypeInv, TypeOK
<1>2. \A b \in DOMAIN head : b < pos[p]
  <2>1. ASSUME NEW b \in DOMAIN head PROVE b < pos[p]
    <3>1. /\ b \in Nat /\ Extent(head[b]) \in Nat /\ Extent(head[b]) >= SizeofHeadBlock
          /\ [offset |-> b, size |-> Extent(head[b])] \in Spans
      BY <1>0, SpanType
    <3>2. b + Extent(head[b]) <= pos[p]
      BY <3>1 DEF HeadAdded, BeyondAll
    <3> QED
      BY <1>1, <3>1, <3>2 DEF SizeofHeadBlock
  <2> QED
    BY <2>1
<1>3. /\ pos[p] \notin DOMAIN head
      /\ DOMAIN head' = DOMAIN head \cup {pos[p]}
      /\ head'[pos[p]] = h
      /\ \A b \in DOMAIN head : head'[b] = head[b]
    BY <1>1, <1>2 DEF HeadAdded
<1>4. Linked' = Linked
    BY <1>1, <1>3 DEF Linked, PointsToChild, NoBlock
<1>5. Spans' = Spans \cup {NewBlock(p)}
  <2>1. {[offset |-> b, size |-> Extent(head'[b])] : b \in DOMAIN head'}
          = {[offset |-> b, size |-> Extent(head[b])] : b \in DOMAIN head} \cup {NewBlock(p)}
    BY <1>1, <1>3 DEF NewBlock
  <2>2. {head'[b].next_block : b \in Linked'} = {head[b].next_block : b \in Linked}
    BY <1>3, <1>4 DEF Linked
  <2> QED
    BY <2>1, <2>2 DEF Spans
<1>6. SpansApart'
  <2>1. ASSUME NEW s \in Spans'
        PROVE  s.offset % ChunkSize = 0 /\ s.offset + s.size <= size'
    BY <1>0, <1>1, <1>5, SpanType DEF SpaceInv, SpansApart, HeadAdded, NewBlock
  <2>2. ASSUME NEW s \in Spans', NEW t \in Spans', s.offset < t.offset
        PROVE  s.offset + s.size <= t.offset
    <3>1. CASE s \in Spans /\ t \in Spans
      BY <1>0, <2>2, <3>1 DEF SpaceInv, SpansApart
    <3>2. CASE s \in Spans /\ t = NewBlock(p)
      BY <3>2 DEF HeadAdded, BeyondAll, NewBlock
    <3>3. CASE s = NewBlock(p)
      BY <1>0, <1>1, <1>5, <2>2, <3>3, SpanType DEF HeadAdded, BeyondAll, NewBlock
    <3> QED
      BY <1>5, <3>1, <3>2, <3>3
  <2> QED
    BY <2>1, <2>2 DEF SpansApart
<1>7. Roots \subseteq DOMAIN head' \cap Readable'
    BY <1>0, <1>3, <1>5, ReadableStays DEF SpaceInv
<1>8. \A b \in Linked' : head'[b].next_block.size >= SizeofHeadFile
    BY <1>0, <1>3, <1>4 DEF SpaceInv, Linked
<1>9. LinksFormLists'
    BY <1>0, <1>3, <1>4 DEF SpaceInv, LinksFormLists, Linked
<1> QED
    BY <1>3, <1>4, <1>5, <1>6, <1>7, <1>8, <1>9 DEF SpaceInv

LEMMA ChildAddedKeepsSpace ==
    ASSUME LostInv, BlocksHoldHeads, TypeInv', NEW p \in Proc, Adding(p), ChildAdded(p)
    PROVE  /\ SpaceInv' /\ Spans \subseteq Spans'
           /\ \A b \in DOMAIN head :
                /\ b \in DOMAIN head'
                /\ head'[b].block_type = head[b].block_type
                /\ head'[b].block_size = head[b].block_size
                /\ PointsToChild(head[b]) => head'[b].next_block = head[b].next_block
<1> DEFINE own == [offset |-> cur[p], size |-> SizeofHeadBlock]
<1>0. TypeInv /\ SpaceInv /\ cur[p] \in Readable
    BY DEF LostInv, LostStreamInv
<1>1. /\ req[p].block_size \in Nat /\ req[p].block_size >= SizeofHeadFile
      /\ pos[p] \in Nat /\ cur[p] \in Nat /\ size \in Nat /\ size' \in Nat /\ size' >= size
    BY <1>0, NewBlockSize DEF TypeInv, TypeOK, ChildAdded
<1>2. PICK here \in Spans : here.offset = cur[p] /\ here.size >= SizeofHeadFile
    BY <1>0, ReadableSpan
<1>3. /\ DOMAIN head' = DOMAIN head \cup {cur[p]}
      /\ \A b \in DOMAIN head : b # cur[p] => head'[b] = head[b]
      /\ head'[cur[p]].next_block = NewBlock(p)
      /\ cur[p] \in DOMAIN head =>
           /\ head'[cur[p]].block_type = head[cur[p]].block_type
           /\ head'[cur[p]].block_size = head[cur[p]].block_size
      /\ cur[p] \notin DOMAIN head => Extent(head'[cur[p]]) = SizeofHeadBlock
    BY DEF ChildAdded, ReadHead, ZeroHead, Extent, BytesToData, SizeofHeadBlock
<1>4. \A b \in DOMAIN head : Extent(head'[b]) = Extent(head[b])
    BY <1>3 DEF Extent
<1>5. /\ cur[p] \notin Linked
      /\ Linked' = Linked \cup {cur[p]}
      /\ \A b \in Linked : b \in DOMAIN head /\ head'[b] = head[b]
  <2>1. cur[p] \notin Linked
    BY DEF ChildAdded, ReadHead, Linked
  <2>2. PointsToChild(head'[cur[p]])
    BY <1>1, <1>3 DEF PointsToChild, NewBlock, ChildAdded, Placed
  <2> QED
    BY <1>3, <2>1, <2>2 DEF Linked
<1>6. Spans \subseteq Spans'
  <2>1. \A b \in DOMAIN head : [offset |-> b, size |-> Extent(head[b])] \in Spans'
    BY <1>3, <1>4 DEF Spans
  <2>2. \A b \in Linked : head[b].next_block \in Spans'
    BY <1>5 DEF Spans
  <2> QED
    BY <2>1, <2>2 DEF Spans
<1>7. \A s \in Spans' : s \in Spans \/ s = NewBlock(p) \/ s = own
  <2>1. ASSUME NEW b \in DOMAIN head'
        PROVE  [offset |-> b, size |-> Extent(head'[b])] \in Spans \cup {own}
    BY <1>3, <1>4 DEF Spans
  <2>2. ASSUME NEW b \in Linked' PROVE head'[b].next_block \in Spans \cup {NewBlock(p)}
    BY <1>3, <1>5 DEF Spans
  <2> QED
    BY <2>1, <2>2 DEF Spans
<1>8. \A s \in Spans : s.offset \in Nat /\ s.size \in Nat /\ s.offset % ChunkSize = 0
                       /\ s.offset + s.size <= size
                       /\ (s.offset + s.size <= pos[p] \/ s = NewBlock(p))
    BY <1>0, SpanType DEF SpaceInv, SpansApart, ChildAdded, Placed
<1>9. here.offset + here.size <= pos[p]
  <2>1. here # NewBlock(p)
    BY <1>1, <1>2 DEF ChildAdded, Placed, NewBlock
  <2> QED
    BY <1>8, <2>1
<1>10. SpansApart'
  <2>1. ASSUME NEW s \in Spans'
        PROVE  s.offset % ChunkSize = 0 /\ s.offset + s.size <= size'
    <3>1. CASE s \in Spans
      BY <1>1, <1>8, <3>1
    <3>2. CASE s = NewBlock(p)
      BY <1>1, <3>2 DEF NewBlock, ChildAdded, Placed
    <3>3. CASE s = own
      BY <1>1, <1>2, <1>8, <3>3 DEF SizeofHeadBlock, SizeofHeadFile
    <3> QED
      BY <1>7, <3>1, <3>2, <3>3
  <2>2. ASSUME NEW s \in Spans', NEW t \in Spans', s.offset < t.offset
        PROVE  s.offset + s.size <= t.offset
    <3>1. CASE s \in Spans /\ t \in Spans
      BY <1>0, <2>2, <3>1 DEF SpaceInv, SpansApart
    <3>2. CASE s \in Spans /\ t = NewBlock(p)
      BY <1>1, <1>8, <2>2, <3>2 DEF NewBlock
    <3>3. CASE s \in Spans /\ t = own
      BY <1>0, <1>2, <2>2, <3>3 DEF SpaceInv, SpansApart
    <3>4. CASE s = NewBlock(p)
      <4>1. t \notin Spans /\ t # own
        BY <1>1, <1>8, <2>2, <3>4 DEF NewBlock, ChildAdded, Placed
      <4> QED
        BY <1>1, <1>7, <2>2, <3>4, <4>1 DEF NewBlock
    <3>5. CASE s = own
      <4>1. CASE t \in Spans
        <5>1. here.offset + here.size <= t.offset
          BY <1>0, <1>2, <2>2, <3>5, <4>1 DEF SpaceInv, SpansApart
        <5> QED
          BY <1>1, <1>2, <1>8, <3>5, <4>1, <5>1 DEF SizeofHeadBlock, SizeofHeadFile
      <4>2. CASE t = NewBlock(p)
        BY <1>1, <1>2, <1>8, <1>9, <3>5, <4>2 DEF NewBlock, SizeofHeadBlock, SizeofHeadFile
      <4>3. t # own
        BY <1>1, <2>2, <3>5
      <4> QED
        BY <1>7, <4>1, <4>2, <4>3
    <3> QED
      BY <1>7, <3>1, <3>2, <3>3, <3>4, <3>5
  <2> QED
    BY <2>1, <2>2 DEF SpansApart
<1>11. Roots \subseteq DOMAIN head' \cap Readable'
    BY <1>0, <1>3, <1>6, ReadableStays DEF SpaceInv
<1>12. \A b \in Linked' : head'[b].next_block.size >= SizeofHeadFile
    BY <1>0, <1>1, <1>3, <1>5 DEF SpaceInv, NewBlock
<1>13. LinksFormLists'
  <2>1. ASSUME NEW b \in Linked
        PROVE  /\ b < head'[b].next_block.offset
               /\ head'[b].next_block.offset \notin Roots
               /\ head'[b].next_block.offset # pos[p]
    BY <1>0, <1>5 DEF SpaceInv, LinksFormLists, ChildAdded, Placed
  <2>2. ASSUME NEW b \in Linked, NEW c \in Linked,
               head'[b].next_block.offset = head'[c].next_block.offset
        PROVE  b = c
    BY <1>0, <1>5, <2>2 DEF SpaceInv, LinksFormLists
  <2>3. /\ cur[p] < head'[cur[p]].next_block.offset /\ pos[p] \notin Roots
        /\ head'[cur[p]].next_block.offset = pos[p]
    BY <1>3 DEF ChildAdded, Placed, NewBlock
  <2> QED
    BY <1>5, <2>1, <2>2, <2>3 DEF LinksFormLists
<1>14. ASSUME NEW b \in DOMAIN head
       PROVE  /\ b \in DOMAIN head'
              /\ head'[b].block_type = head[b].block_type
              /\ head'[b].block_size = head[b].block_size
              /\ PointsToChild(head[b]) => head'[b].next_block = head[b].next_block
    BY <1>3, <1>5 DEF Linked
<1> QED
    BY <1>6, <1>10, <1>11, <1>12, <1>13, <1>14 DEF SpaceInv

LEMMA SpaceStep ==
    ASSUME LostInv, BlocksHoldHeads, TypeInv', NEW p \in Proc, StepBy(p)
    PROVE  SpaceInv' /\ Spans \subseteq Spans' /\ Readable \subseteq Readable'
<1>1. TypeInv /\ SpaceInv
    BY DEF LostInv
<1>2. SpaceInv' /\ Spans \subseteq Spans'
  <2>1. CASE UNCHANGED file
    BY <1>1, <2>1, SpaceAddedKeepsSpace DEF SpaceAdded, file, TypeInv, TypeOK
  <2>2. CASE SpaceAdded
    BY <1>1, <2>2, SpaceAddedKeepsSpace
  <2>3. CASE Adding(p) /\ HeadAdded(p)
    BY <2>3, HeadAddedKeepsSpace
  <2>4. CASE Adding(p) /\ ChildAdded(p)
    BY <2>4, ChildAddedKeepsSpace
  <2> QED
    BY <2>1, <2>2, <2>3, <2>4, LostStepEffect
<1> QED
    BY <1>2, ReadableStays

-----------------------------------------------------------------------------
(* What processes know of the file *)

LEMMA SameLostStream ==
    ASSUME NEW q \in Proc, LostStreamInv(q), Same(q), UNCHANGED file
    PROVE  LostStreamInv(q)'
<1>1. Spans' = Spans /\ Readable' = Readable /\ Linked' = Linked
    BY DEF file, Spans, Readable, Linked
<1>2. NewBlock(q)' = NewBlock(q) /\ LinkWrite(q)' = LinkWrite(q) /\ Adding(q)' = Adding(q)
    BY DEF Same, NewBlock, LinkWrite, Adding
<1>3. Placed(q)' = Placed(q) /\ BeyondAll(q)' = BeyondAll(q) /\ AtEnd(q)' = AtEnd(q)
    BY <1>1, <1>2 DEF Same, file, Placed, BeyondAll, AtEnd
<1>4. ReadHead(cur[q])' = ReadHead(cur[q])
    BY DEF Same, file, ReadHead
<1> QED
    BY <1>1, <1>2, <1>3, <1>4 DEF Same, LostStreamInv, LastByteOf, file

LEMMA OtherLostStream ==
    ASSUME LostInv, BlocksHoldHeads, ExclusiveAccess, TypeInv',
           NEW p \in Proc, NEW q \in Proc, p # q, StepBy(p)
    PROVE  LostStreamInv(q)'
<1>1. Same(q)
    BY OthersSame DEF LostInv, TypeInv, StepBy
<1>2. LostStreamInv(q) /\ Readable \subseteq Readable'
    BY SpaceStep DEF LostInv
<1>3. CASE UNCHANGED file
    BY <1>1, <1>2, <1>3, SameLostStream
<1>4. CASE Adding(p)
  <2>1. ~Adding(q)
    BY <1>4, Alone DEF LostInv
  <2>2. pc[q] \notin {"tell", "locate", "grow", "settle", "header", "restore", "read", "link"}
    BY <2>1 DEF LostInv, LockInv
  <2> QED
    BY <1>1, <1>2, <2>1, <2>2 DEF Same, LostStreamInv, Adding
<1> QED
    BY <1>3, <1>4, LostStepEffect

(* The block for which space was found becomes the last one. *)
LEMMA SpaceIsPlace ==
    ASSUME LostInv, BlocksHoldHeads, NEW p \in Proc, Adding(p), BeyondAll(p),
           pos[p] % ChunkSize = 0, size = pos[p] + req[p].block_size
    PROVE  Placed(p)
<1>1. TypeInv /\ SpaceInv /\ cur[p] \in Readable
    BY DEF LostInv, LostStreamInv
<1>2. cur[p] < pos[p] /\ pos[p] \notin Roots
  <2>1. ASSUME pos[p] \in Roots PROVE FALSE
    <3>1. pos[p] < pos[p] /\ pos[p] \in Nat
      BY <1>1, <2>1, ReadableBefore DEF SpaceInv, TypeInv, TypeOK
    <3> QED
      BY <3>1
  <2> QED
    BY <1>1, <2>1, ReadableBefore
<1>3. ASSUME NEW b \in Linked PROVE head[b].next_block.offset # pos[p]
  <2> DEFINE s == head[b].next_block
  <2>1. s \in Spans /\ s.offset \in Nat /\ s.size \in Nat /\ s.size >= SizeofHeadFile
    BY <1>1, SpanType DEF SpaceInv
  <2>2. s.offset + s.size <= pos[p] /\ pos[p] \in Nat
    BY <1>1, <2>1 DEF BeyondAll, TypeInv, TypeOK
  <2> QED
    BY <2>1, <2>2 DEF SizeofHeadFile
<1>4. pos[p] + req[p].block_size <= size
    BY <1>1 DEF TypeInv, TypeOK, Request
<1> QED
    BY <1>2, <1>3, <1>4 DEF BeyondAll, Placed

LEMMA OwnLostStream ==
    ASSUME LostInv, BlocksHoldHeads, TypeInv', NEW p \in Proc, StepBy(p)
    PROVE  LostStreamInv(p)'
<1> USE DEF Goto, Return, Finish
<1>0. /\ LostStreamInv(p) /\ TypeInv /\ SpaceInv /\ LockInv /\ req[p] \in Request
      /\ Roots \subseteq Readable /\ Readable \subseteq Readable' /\ cur[p] \in Readable
    BY SpaceStep DEF LostInv, SpaceInv, TypeInv, TypeOK, LostStreamInv
<1>t. /\ pending \in [Proc -> Pending] /\ pc \in [Proc -> Calls \cup {"idle"}]
      /\ req \in [Proc -> Request] /\ pos \in [Proc -> Nat] /\ cur \in [Proc -> Nat]
      /\ ib \in [Proc -> BlockHead] /\ rval \in [Proc -> RND_ERROR]
    BY <1>0 DEF TypeInv, TypeOK
<1>s. UNCHANGED file => Spans' = Spans /\ Linked' = Linked /\ Readable' = Readable
    BY DEF file, Spans, Linked, Readable
<1>p. ASSUME UNCHANGED <<file, req, pos>>, cur'[p] < pos[p], Placed(p)
      PROVE  Placed(p)'
    BY <1>s, <1>p DEF Placed, NewBlock, file
(* Nothing is known of a process between two operations but where it is. *)
<1>i. ASSUME pc'[p] \in {"idle", "tell"}, cur'[p] \in Readable',
             pending'[p] = NothingPending
      PROVE  LostStreamInv(p)'
    BY <1>i DEF LostStreamInv
(* An operation that fails has nothing left to write. *)
<1>e. ASSUME pc'[p] = "release", cur' = cur, pending'[p] = NothingPending
      PROVE  LostStreamInv(p)'
    BY <1>0, <1>e DEF LostStreamInv
<1>1. ASSUME NEW op \in {"extend", "append"}, NEW r \in Roots,
             NEW t \in ChildTypes, NEW s \in Sizes, Begin(p, op, r, t, s)
      PROVE  LostStreamInv(p)'
  <2>1. pc'[p] = "tell" /\ cur'[p] \in Readable /\ pending'[p] = NothingPending
    BY <1>0, <1>t, <1>1 DEF Begin, LostStreamInv
  <2> QED
    BY <1>0, <1>i, <2>1
<1>2. ASSUME NEW r \in Roots, BeginWalk(p, r)
      PROVE  LostStreamInv(p)'
  <2>1. /\ pc'[p] = "walk" /\ cur'[p] \in Readable /\ pending'[p] = NothingPending
        /\ req'[p].op = "walk"
    BY <1>0, <1>t, <1>2 DEF BeginWalk, LostStreamInv, NoRequest
  <2> QED
    BY <1>0, <2>1 DEF LostStreamInv, Adding
<1>3. CASE Tell(p)
    BY <1>0, <1>t, <1>3 DEF Tell, file, LostStreamInv
<1>4. CASE Locate(p)
  <2>1. CASE pc'[p] = "grow"
    BY <1>0, <1>t, <1>4, <2>1 DEF Locate, file, AtEnd, ValidNewBlockLocation, LostStreamInv
  <2>2. CASE pc'[p] # "grow"
    BY <1>0, <1>t, <1>4, <2>2, <1>e DEF Locate, LostStreamInv
  <2> QED
    BY <2>1, <2>2
<1>5. CASE Grow(p)
    BY <1>0, <1>t, <1>5 DEF Grow, file, AtEnd, LastByteOf, LostStreamInv
<1>6. CASE Settle(p)
  <2>1. /\ head' = head /\ size' = size + req[p].block_size
        /\ pos[p] = size /\ pos[p] % ChunkSize = 0
        /\ UNCHANGED <<req, pos, cur>>
        /\ pc'[p] = "header" /\ pending'[p] = NothingPending
    <3>1. head' = head /\ size' = size + req[p].block_size
      BY <1>6, LostSettleEffect
    <3>2. pos[p] = size /\ pos[p] % ChunkSize = 0
      BY <1>0, <1>6 DEF Settle, AtEnd, LostStreamInv
    <3>3. UNCHANGED <<req, pos, cur>> /\ pc'[p] = "header" /\ pending'[p] = NothingPending
      BY <1>t, <1>6 DEF Settle, Flush
    <3> QED
      BY <3>1, <3>2, <3>3
  <2>2. BeyondAll(p)'
    <3>1. Spans' = Spans
      BY <2>1 DEF Spans, Linked
    <3> QED
      BY <1>0, <2>1, <3>1 DEF BeyondAll, SpaceInv, SpansApart
  <2> QED
    BY <1>0, <2>1, <2>2 DEF LostStreamInv
<1>7. CASE WriteHeader(p)
  <2>1. Adding(p)
    BY <1>0, <1>7 DEF WriteHeader, LockInv
  <2>2. BytesToData(req[p].block_type) = SizeofHeadBlock
        /\ SetInfoBlock(req[p].block_type, req[p].block_size).block_type = req[p].block_type
    BY <2>1, NewBlockSize
  <2>3. BeyondAll(p)' = BeyondAll(p)
    BY <1>7, <1>s DEF WriteHeader, BeyondAll
  <2> QED
    BY <1>0, <1>s, <1>t, <1>7, <2>2, <2>3 DEF WriteHeader, file, LostStreamInv
<1>8. CASE Restore(p)
  <2>1. /\ pending'[p] = NothingPending /\ pc'[p] \in {"walk", "read"}
        /\ UNCHANGED <<req, pos, cur>>
        /\ Adding(p) /\ BeyondAll(p) /\ pos[p] % ChunkSize = 0
        /\ size = pos[p] + req[p].block_size
    <3>1. pending'[p] = NothingPending
      BY <1>t, <1>8, LostRestoreEffect
    <3>2. pc'[p] \in {"walk", "read"} /\ UNCHANGED <<req, pos, cur>>
      BY <1>t, <1>8 DEF Restore
    <3>3. Adding(p) /\ BeyondAll(p) /\ pos[p] % ChunkSize = 0
          /\ size = pos[p] + req[p].block_size
      BY <1>0, <1>8 DEF Restore, LostStreamInv, LockInv
    <3> QED
      BY <3>1, <3>2, <3>3
  <2>2. Placed(p)
    BY <2>1, SpaceIsPlace
  <2>3. Placed(p)'
    <3>1. CASE UNCHANGED file
      <4>1. cur'[p] < pos[p]
        BY <2>1, <2>2 DEF Placed
      <4> QED
        BY <1>p, <2>1, <2>2, <3>1, <4>1
    <3>2. CASE HeadAdded(p)
      <4>1. /\ Spans' = Spans \cup {NewBlock(p)} /\ Linked' = Linked
            /\ \A b \in Linked : head'[b] = head[b]
        BY <2>1, <3>2, HeadAddedKeepsSpace DEF Linked
      <4>2. NewBlock(p)' = NewBlock(p)
        BY <2>1 DEF NewBlock
      <4>3. pos[p] + req[p].block_size <= size'
        BY <2>1, <3>2 DEF HeadAdded
      <4> QED
        BY <2>1, <2>2, <4>1, <4>2, <4>3 DEF Placed
    <3> QED
      BY <1>8, <3>1, <3>2, LostRestoreEffect
  <2> QED
    BY <1>0, <2>1, <2>3 DEF LostStreamInv
<1>9. CASE Walk(p)
  <2>1. /\ pending'[p] = NothingPending /\ pc'[p] \in {"walk", "read", "release"}
        /\ pc'[p] = "read" => Adding(p) /\ pc[p] = "walk"
        /\ UNCHANGED <<file, req, pos>>
    <3>1. UNCHANGED <<file, pending, req, pos>> /\ pending[p] = NothingPending
      BY <1>0, <1>9 DEF Walk, LostStreamInv, file
    <3>2. pc'[p] \in {"walk", "read", "release"}
      BY <1>t, <1>9 DEF Walk
    <3>3. pc'[p] = "read" => Adding(p)
      BY <1>0, <1>t, <1>9 DEF Walk, LockInv, Adding, Request
    <3> QED
      BY <1>9, <3>1, <3>2, <3>3 DEF Walk
  <2>2. cur'[p] \in Readable /\ (Adding(p) => Placed(p)')
    <3>1. CASE UNCHANGED cur
      <4>1. Adding(p) => Placed(p)
        BY <1>0, <1>9 DEF Walk, LostStreamInv
      <4> QED
        BY <1>0, <1>p, <2>1, <3>1, <4>1 DEF Placed
    <3>2. CASE PointsToChild(ReadHead(cur[p]))
               /\ cur' = [cur EXCEPT ![p] = ReadHead(@).next_block.offset]
      <4>1. cur[p] \in Linked /\ cur'[p] = head[cur[p]].next_block.offset
        BY <1>0, <1>t, <3>2 DEF ReadHead, Linked, PointsToChild, ZeroHead, NoBlock
      <4>2. head[cur[p]].next_block \in Spans /\ head[cur[p]].next_block.size >= SizeofHeadFile
        BY <1>0, <4>1, SpanType DEF SpaceInv
      <4>3. cur'[p] \in Readable
        BY <4>1, <4>2 DEF Readable
      <4>4. CASE Adding(p)
        <5>1. Placed(p) /\ cur'[p] # pos[p]
          BY <1>0, <1>9, <4>1, <4>4 DEF Walk, LostStreamInv, Placed
        <5>2. cur'[p] < pos[p]
          <6>1. PICK s \in Spans : s.offset = cur'[p] /\ s.size >= SizeofHeadFile
            BY <1>0, <4>3, ReadableSpan
          <6>2. s.offset + s.size <= pos[p]
            BY <5>1, <6>1 DEF Placed, NewBlock
          <6> QED
            BY <1>0, <1>t, <6>1, <6>2, SpanType DEF SizeofHeadFile
        <5> QED
          BY <1>0, <1>p, <2>1, <4>3, <5>1, <5>2
      <4> QED
        BY <4>3, <4>4
    <3> QED
      BY <1>9, <3>1, <3>2 DEF Walk
  <2> QED
    BY <1>0, <1>s, <2>1, <2>2 DEF LostStreamInv, Adding
<1>10. CASE ReadLink(p)
  <2>1. /\ UNCHANGED <<file, req, pos, cur>> /\ pending'[p] = NothingPending
        /\ pc'[p] = "link" /\ ib'[p] = ReadHead(cur[p]) /\ Adding(p) /\ Placed(p)
    BY <1>0, <1>t, <1>10 DEF ReadLink, LostStreamInv, LockInv
  <2>2. Placed(p)' /\ ReadHead(cur[p])' = ReadHead(cur[p])
    BY <1>p, <2>1 DEF Placed, ReadHead, file
  <2> QED
    BY <1>0, <2>1, <2>2 DEF LostStreamInv
<1>11. CASE WriteLink(p)
  <2>1. /\ UNCHANGED <<file, req, pos, cur, ib>> /\ pc'[p] = "release"
        /\ pending[p] = NothingPending
        /\ ib[p] = ReadHead(cur[p]) /\ Adding(p) /\ Placed(p)
    BY <1>0, <1>t, <1>11 DEF WriteLink, LostStreamInv, LockInv
  <2>2. CASE pending'[p] = NothingPending
    BY <1>e, <2>1, <2>2
  <2>3. CASE ~PointsToChild(ib[p]) /\ pending'[p] = LinkWrite(p)
    <3>1. Placed(p)' /\ ReadHead(cur[p])' = ReadHead(cur[p])
      BY <1>p, <2>1 DEF Placed, ReadHead, file
    <3>2. LinkWrite(p)' = LinkWrite(p) /\ Adding(p)'
      BY <2>1 DEF LinkWrite, NewBlock, Adding
    <3> QED
      BY <1>0, <2>1, <2>3, <3>1, <3>2 DEF LostStreamInv
  <2> QED
    BY <1>t, <1>11, <2>1, <2>2, <2>3 DEF WriteLink
<1>12. CASE Release(p)
  <2>1. pc'[p] = "idle" /\ cur' = cur /\ pending'[p] = NothingPending
    BY <1>t, <1>12 DEF Release, Flush, LoseWrite
  <2> QED
    BY <1>0, <1>i, <2>1
<1>13. CASE SystemError(p)
    BY <1>t, <1>13, <1>e DEF SystemError, LoseWrite
<1>14. CASE ReadError(p)
    BY <1>0, <1>t, <1>14, <1>e DEF ReadError, LostStreamInv
<1>15. CASE Crash(p)
  <2>1. pc'[p] = "idle" /\ cur'[p] = 0 /\ pending'[p] = NothingPending
    BY <1>t, <1>15 DEF Crash
  <2> QED
    BY <1>0, <1>i, <2>1, BlocksAssumption
<1> QED
    BY <1>1, <1>2, <1>3, <1>4, <1>5, <1>6, <1>7, <1>8, <1>9, <1>10, <1>11, <1>12,
       <1>13, <1>14, <1>15 DEF StepBy, Step, Advance

LEMMA LostStepInv ==
    ASSUME LostInv, BlocksHoldHeads, ExclusiveAccess, [Next]_vars
    PROVE  LostInv'
<1>1. TypeInv' /\ LockInv'
    BY TypeStep, LockStep DEF LostInv
<1>2. ASSUME NEW p \in Proc, StepBy(p) PROVE LostInv'
  <2>1. SpaceInv'
    BY <1>1, <1>2, SpaceStep
  <2>2. \A q \in Proc : LostStreamInv(q)'
    BY <1>1, <1>2, OtherLostStream, OwnLostStream
  <2>3. ASSUME NEW q \in Proc, Adding(q)' PROVE req'[q].block_size \in Sizes
    <3>1. CASE q # p
      <4>1. req'[q] = req[q]
        BY <1>2, <3>1, OthersSame DEF LostInv, TypeInv, StepBy, Same
      <4> QED
        BY <2>3, <4>1 DEF LostInv, Adding
    <3>2. CASE q = p
      <4>1. ASSUME NEW op \in {"extend", "append"}, NEW r \in Roots,
                   NEW t \in ChildTypes, NEW s \in Sizes, Begin(p, op, r, t, s)
            PROVE  req'[p].block_size \in Sizes
        BY <4>1 DEF Begin, LostInv, TypeInv, TypeOK
      <4>2. CASE req' = req
        BY <2>3, <3>2, <4>2 DEF LostInv, Adding
      <4>3. CASE Release(p) \/ Crash(p) \/ \E r \in Roots : BeginWalk(p, r)
        <5>1. req \in [Proc -> Request]
          BY DEF LostInv, TypeInv, TypeOK
        <5>2. CASE Release(p) \/ Crash(p)
          BY <2>3, <3>2, <5>1, <5>2 DEF Release, Crash, Adding, NoRequest
        <5>3. CASE \E r \in Roots : BeginWalk(p, r)
          BY <2>3, <3>2, <5>1, <5>3 DEF BeginWalk, Adding, NoRequest
        <5> QED
          BY <4>3, <5>2, <5>3
      <4>4. CASE Step(p) /\ ~Release(p)
        BY <4>2, <4>4 DEF Step, Advance, Tell, Locate, Grow, Settle, WriteHeader, Restore,
                          Walk, ReadLink, WriteLink, ReadError, SystemError
      <4> QED
        BY <1>2, <3>2, <4>1, <4>3, <4>4 DEF StepBy
    <3> QED
      BY <3>1, <3>2
  <2> QED
    BY <1>1, <2>1, <2>2, <2>3 DEF LostInv
<1>3. CASE UNCHANGED vars
  <2>1. SpaceInv'
    BY <1>1, <1>3, SpaceAddedKeepsSpace DEF vars, SpaceAdded, LostInv, TypeInv, TypeOK
  <2>2. ASSUME NEW q \in Proc PROVE LostStreamInv(q)'
    BY <1>3, SameLostStream DEF vars, file, Same, LostInv
  <2>3. \A q \in Proc : Adding(q)' => req'[q].block_size \in Sizes
    BY <1>3 DEF vars, LostInv, Adding
  <2> QED
    BY <1>1, <2>1, <2>2, <2>3 DEF LostInv
<1> QED
    BY <1>2, <1>3 DEF Next, StepBy

-----------------------------------------------------------------------------
(* The theorems *)

(***************************************************************************)
(* The bytes set aside for blocks, by their heads or by links to them,     *)
(* stay apart and what each process knows of them stays true, whichever    *)
(* stdio call fails: no write of blocks_append_block reaches bytes of      *)
(* another block, a head being lost or not (blocks.c:377).                 *)
(***************************************************************************)
THEOREM LostInvariance == BlocksHoldHeads => (ExclusiveSpec => []LostInv)
<1> SUFFICES ASSUME BlocksHoldHeads PROVE ExclusiveSpec => []LostInv
    OBVIOUS
<1>1. Init => LostInv /\ ExclusiveAccess
    BY InitLostInv DEF Init, ExclusiveAccess
<1>2. LostInv /\ ExclusiveAccess /\ [Next /\ ExclusiveAccess']_vars
        => LostInv' /\ ExclusiveAccess'
    BY LostStepInv DEF vars, ExclusiveAccess
<1> QED
    BY <1>1, <1>2, PTL DEF ExclusiveSpec

(***************************************************************************)
(* Blocks whose heads are in the file share no byte, start at multiples of *)
(* the chunk size and are linked into lists, lost heads or not.            *)
(***************************************************************************)
THEOREM BlocksStayApart ==
    BlocksHoldHeads => (ExclusiveSpec => [](BlocksDisjoint /\ BlocksAligned /\ LinksFormLists))
<1>1. LostInv => BlocksDisjoint /\ BlocksAligned /\ LinksFormLists
  <2> SUFFICES ASSUME LostInv PROVE BlocksDisjoint /\ BlocksAligned /\ LinksFormLists
      OBVIOUS
  <2>1. TypeInv /\ SpansApart /\ LinksFormLists
    BY DEF LostInv, SpaceInv
  <2>2. \A b \in DOMAIN head : [offset |-> b, size |-> Extent(head[b])] \in Spans
    BY <2>1, SpanType
  <2>3. ASSUME NEW b \in DOMAIN head
        PROVE  b % ChunkSize = 0 /\ b + Extent(head[b]) <= size
    <3> DEFINE s == [offset |-> b, size |-> Extent(head[b])]
    <3>1. s.offset % ChunkSize = 0 /\ s.offset + s.size <= size
      BY <2>1, <2>2 DEF SpansApart
    <3> QED
      BY <3>1
  <2>4. ASSUME NEW a \in DOMAIN head, NEW b \in DOMAIN head, a < b
        PROVE  a + Extent(head[a]) <= b
    <3> DEFINE s == [offset |-> a, size |-> Extent(head[a])]
               t == [offset |-> b, size |-> Extent(head[b])]
    <3>1. s.offset < t.offset => s.offset + s.size <= t.offset
      BY <2>1, <2>2 DEF SpansApart
    <3> QED
      BY <2>4, <3>1
  <2> QED
    BY <2>1, <2>3, <2>4 DEF BlocksDisjoint, BlocksAligned
<1> QED
    BY <1>1, LostInvariance, PTL

LEMMA LostPersistStep ==
    ASSUME LostInv, BlocksHoldHeads, ExclusiveAccess, [Next]_vars
    PROVE  \A b \in DOMAIN head :
              /\ b \in DOMAIN head'
              /\ head'[b].block_type = head[b].block_type
              /\ head'[b].block_size = head[b].block_size
              /\ PointsToChild(head[b]) => head'[b].next_block = head[b].next_block
<1>1. CASE head' = head
    BY <1>1
<1>2. TypeInv'
    BY TypeStep DEF LostInv
<1>3. ASSUME NEW p \in Proc, StepBy(p), head' # head
      PROVE  Adding(p) /\ (HeadAdded(p) \/ ChildAdded(p))
    BY <1>3, LostStepEffect DEF SpaceAdded, file
<1>4. ASSUME NEW p \in Proc, Adding(p), HeadAdded(p)
      PROVE  \A b \in DOMAIN head : b \in DOMAIN head' /\ head'[b] = head[b]
    BY <1>2, <1>4, HeadAddedKeepsSpace
<1>5. CASE \E p \in Proc : Adding(p) /\ ChildAdded(p)
    BY <1>2, <1>5, ChildAddedKeepsSpace
<1>6. CASE UNCHANGED vars
    BY <1>1, <1>6 DEF vars
<1> QED
    BY <1>1, <1>3, <1>4, <1>5, <1>6 DEF Next, StepBy

(***************************************************************************)
(* No step orphans a block or writes over one, lost heads or not: a link   *)
(* to a block without a head is as safe as any other.                      *)
(***************************************************************************)
THEOREM LinksStayAnyway == BlocksHoldHeads => (ExclusiveSpec => LinksPersist)
<1> SUFFICES ASSUME BlocksHoldHeads PROVE ExclusiveSpec => LinksPersist
    OBVIOUS
<1> DEFINE Persist ==
      \A b \in DOMAIN head :
          /\ b \in DOMAIN head'
          /\ head'[b].block_type = head[b].block_type
          /\ head'[b].block_size = head[b].block_size
          /\ PointsToChild(head[b]) => head'[b].next_block = head[b].next_block
<1>1. Init => ExclusiveAccess
    BY DEF Init, ExclusiveAccess
<1>2. ExclusiveAccess /\ [Next /\ ExclusiveAccess']_vars => ExclusiveAccess'
    BY DEF vars, ExclusiveAccess
<1>3. LostInv /\ ExclusiveAccess /\ [Next /\ ExclusiveAccess']_vars => [Persist]_vars
  <2> SUFFICES ASSUME LostInv, ExclusiveAccess, [Next]_vars PROVE Persist
      OBVIOUS
  <2> QED
      BY LostPersistStep
<1>4. [][Persist]_vars => LinksPersist
    BY PTL DEF LinksPersist
<1> QED
    BY <1>1, <1>2, <1>3, <1>4, LostInvariance, PTL DEF ExclusiveSpec

(***************************************************************************)
(* On a file with one chain no exclusion beyond the lock of that chain is  *)
(* needed for it.                                                          *)
(***************************************************************************)
THEOREM SingleChainIsSafe ==
    BlocksHoldHeads /\ Roots = {0} =>
        (Spec => [](BlocksDisjoint /\ BlocksAligned /\ LinksFormLists))
BY SingleChainIsExclusive, BlocksStayApart, PTL
=============================================================================
