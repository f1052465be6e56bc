---------------------------- MODULE BlocksProofs ----------------------------
(***************************************************************************)
(* What the block layer guarantees for every number of processes and       *)
(* chains, every chunk size and every choice of failing calls but one,     *)
(* when blocks are added with exclusive access.                            *)
(***************************************************************************)
EXTENDS BlocksInvariant, TLAPS

(* Facts about heads *)

LEMMA SetInfoBlockType ==
    ASSUME NEW t \in BTYPE, NEW s \in Nat
    PROVE  SetInfoBlock(t, s) \in BlockHead
BY DEF SetInfoBlock, BlockHead, BTYPE, BytesToData, BlockLoc, NoBlock, Info,
       SizeofHeadBlock, SizeofHeadTable, SizeofHeadFile

LEMMA PrepHeadFileType ==
    ASSUME NEW s \in Nat
    PROVE  PrepHeadFile(s) \in BlockHead
BY DEF PrepHeadFile, SetInfoBlock, BlockHead, BTYPE, BytesToData, BlockLoc, NoBlock,
       Info, SizeofHeadBlock, SizeofHeadTable, SizeofHeadFile

LEMMA ZeroHeadType == ZeroHead \in BlockHead
BY DEF ZeroHead, BlockHead, BTYPE, BlockLoc, NoBlock, Info

LEMMA ExtentType ==
    ASSUME NEW h \in BlockHead
    PROVE  Extent(h) \in Nat /\ Extent(h) >= SizeofHeadBlock /\ Extent(h) >= h.block_size
BY DEF BlockHead, BTYPE, Extent, BytesToData,
       SizeofHeadBlock, SizeofHeadTable, SizeofHeadFile

(* A block with room for its head extends to its size; any other, to its head. *)
LEMMA NewBlockExtent ==
    ASSUME NEW t \in {"GENERIC", "DATA"}, NEW s \in Nat
    PROVE  /\ Extent(SetInfoBlock(t, s)) = IF s < SizeofHeadBlock THEN SizeofHeadBlock ELSE s
           /\ SetInfoBlock(t, s).bytes_to_data = SizeofHeadBlock
           /\ SetInfoBlock(t, s).next_block = NoBlock
           /\ SetInfoBlock(t, s).block_size = s
           /\ BytesToData(t) = SizeofHeadBlock
BY DEF SetInfoBlock, Extent, BytesToData, SizeofHeadBlock, SizeofHeadTable, SizeofHeadFile

LEMMA FirstBlockExtent ==
    ASSUME NEW s \in Nat, s >= SizeofHeadFile,
           NEW h \in {PrepHeadFile(s), SetInfoBlock("FILE", s), SetInfoBlock("GENERIC", s)}
    PROVE  Extent(h) = s /\ h.next_block = NoBlock
<1>1. CASE h = PrepHeadFile(s)
    BY <1>1 DEF PrepHeadFile, SetInfoBlock, Extent, BytesToData, SizeofHeadBlock,
                SizeofHeadTable, SizeofHeadFile
<1>2. CASE h = SetInfoBlock("FILE", s)
    BY <1>2 DEF SetInfoBlock, Extent, BytesToData, SizeofHeadBlock, SizeofHeadTable,
                SizeofHeadFile
<1>3. CASE h = SetInfoBlock("GENERIC", s)
    BY <1>3 DEF SetInfoBlock, Extent, BytesToData, SizeofHeadBlock, SizeofHeadTable,
                SizeofHeadFile
<1> QED
    BY <1>1, <1>2, <1>3

(* What the two link functions write: the same block, with another child. *)
LEMMA LinkedHead ==
    ASSUME NEW h \in BlockHead, NEW loc \in BlockLoc, NEW l \in Nat
    PROVE  /\ LinkedByExtend(h, loc, l) \in BlockHead
           /\ LinkedByExtend(h, loc, l).next_block = loc
           /\ LinkedByExtend(h, loc, l).block_type = h.block_type
           /\ LinkedByExtend(h, loc, l).block_size = h.block_size
           /\ LinkedByAddLink(h, loc) \in BlockHead
           /\ LinkedByAddLink(h, loc).next_block = loc
           /\ LinkedByAddLink(h, loc).block_type = h.block_type
           /\ LinkedByAddLink(h, loc).block_size = h.block_size
BY DEF LinkedByExtend, LinkedByAddLink, BlockHead, BTYPE, Info

LEMMA WriteLengthType ==
    ASSUME NEW t \in BTYPE, NEW l \in Nat
    PROVE  WriteLength(t, l) \in Nat
BY DEF WriteLength, BytesToData, BTYPE, SizeofHeadBlock, SizeofHeadTable, SizeofHeadFile

-----------------------------------------------------------------------------
(* The initial states *)

LEMMA InitInv == Init => IInv
<1> SUFFICES ASSUME Init PROVE IInv
    OBVIOUS
<1> USE BlocksAssumption
<1>1. TypeOK
    BY SetInfoBlockType, PrepHeadFileType, ZeroHeadType
    DEF Init, TypeOK, Pending, NothingPending, Request, NoRequest, BTYPE, RND_ERROR, BlockLoc
<1>2. LockInv
    BY DEF Init, LockInv, Adding, NoRequest
<1>3. Roots = DOMAIN head
    BY DEF Init
<1>4. \A b \in DOMAIN head :
        /\ Extent(head[b]) = ChunkSize
        /\ head[b].next_block = NoBlock
    BY FirstBlockExtent DEF Init
<1>5. BlocksDisjoint
    BY <1>3, <1>4 DEF Init, BlocksDisjoint
<1>6. BlocksAligned
    BY <1>3 DEF BlocksAligned
<1>7. LinkTargetsReady /\ LinksFormLists
    BY <1>4 DEF LinkTargetsReady, LinksFormLists, Linked, PointsToChild, NoBlock
<1>8. \A p \in Proc : StreamInv(p)
    BY <1>3 DEF Init, StreamInv, NothingPending, NoRequest, Adding
<1>9. size >= InitialSize
    BY DEF Init
<1> QED
    BY <1>1, <1>2, <1>3, <1>5, <1>6, <1>7, <1>8, <1>9 DEF IInv, TypeInv

-----------------------------------------------------------------------------
(* What a step leaves alone, and what it does to the file *)

(* Nothing of what process q itself knows changes. *)
Same(q) ==
    /\ pending'[q] = pending[q] /\ pc'[q] = pc[q] /\ req'[q] = req[q]
    /\ pos'[q] = pos[q] /\ cur'[q] = cur[q] /\ ib'[q] = ib[q] /\ rval'[q] = rval[q]

FileInv ==
    /\ Roots \subseteq DOMAIN head
    /\ BlocksDisjoint
    /\ BlocksAligned
    /\ LinkTargetsReady
    /\ LinksFormLists

(* The file gets longer, and that is all. *)
SpaceAdded == head' = head /\ size' >= size

(* The head of p's block appears in the space reserved for it. *)
BlockWritten(p) ==
    LET h == SetInfoBlock(req[p].block_type, req[p].block_size) IN
    /\ Reserved(p)
    /\ size' >= size /\ size' >= pos[p] + SizeofHeadBlock
    /\ head' = [o \in DOMAIN head \cup {pos[p]} |-> IF o = pos[p] THEN h ELSE head[o]]

(* The block at cur[p], which had no child, gets p's block for one. *)
LinkAdded(p) ==
    /\ Appended(p)
    /\ ~PointsToChild(head[cur[p]])
    /\ size' >= size
    /\ DOMAIN head' = DOMAIN head
    /\ \A b \in DOMAIN head : b # cur[p] => head'[b] = head[b]
    /\ head'[cur[p]] \in BlockHead
    /\ head'[cur[p]].next_block = NewBlock(p)
    /\ head'[cur[p]].block_type = head[cur[p]].block_type
    /\ head'[cur[p]].block_size = head[cur[p]].block_size

(* One process at a time adds a block. *)
LEMMA Alone ==
    ASSUME TypeInv, LockInv, ExclusiveAccess, NEW p \in Proc, NEW q \in Proc,
           Adding(p), Adding(q)
    PROVE  p = q
<1>1. req[p].chain \in Roots /\ req[q].chain \in Roots
    BY DEF TypeInv, TypeOK, Request
<1>2. lock[req[p].chain] = p /\ lock[req[q].chain] = q
    BY <1>1 DEF LockInv
<1>3. p # NoProc /\ q # NoProc
    BY BlocksAssumption
<1> QED
    BY <1>1, <1>2, <1>3 DEF ExclusiveAccess

LEMMA OthersSame ==
    ASSUME TypeOK, NEW p \in Proc, NEW q \in Proc, p # q,
           \/ \E op \in {"extend", "append"}, r \in Roots, t \in ChildTypes, s \in Sizes :
                 Begin(p, op, r, t, s)
           \/ \E r \in Roots : BeginWalk(p, r)
           \/ Step(p)
           \/ Crash(p)
    PROVE  Same(q)
<1> USE DEF TypeOK, Same, Goto, Return, Finish, Flush, LoseWrite, file
<1>1. CASE \E op \in {"extend", "append"}, r \in Roots, t \in ChildTypes, s \in Sizes :
              Begin(p, op, r, t, s)
    BY <1>1 DEF Begin
<1>2. CASE \E r \in Roots : BeginWalk(p, r)
    BY <1>2 DEF BeginWalk
<1>3. CASE Tell(p)
    BY <1>3 DEF Tell
<1>4. CASE Locate(p)
    BY <1>4 DEF Locate
<1>5. CASE Grow(p)
    BY <1>5 DEF Grow
<1>6. CASE Settle(p)
    BY <1>6 DEF Settle
<1>7. CASE WriteHeader(p)
    BY <1>7 DEF WriteHeader
<1>8. CASE Restore(p)
    BY <1>8 DEF Restore
<1>9. CASE Walk(p)
    BY <1>9 DEF Walk
<1>10. CASE ReadLink(p)
    BY <1>10 DEF ReadLink
<1>11. CASE WriteLink(p)
    BY <1>11 DEF WriteLink
<1>12. CASE Release(p)
    BY <1>12 DEF Release
<1>13. CASE SystemError(p)
    BY <1>13 DEF SystemError
<1>14. CASE ReadError(p)
    BY <1>14 DEF ReadError
<1>15. CASE Crash(p)
    BY <1>15 DEF Crash
<1> QED
    BY <1>1, <1>2, <1>3, <1>4, <1>5, <1>6, <1>7, <1>8, <1>9, <1>10, <1>11, <1>12,
       <1>13, <1>14, <1>15 DEF Step, Advance

(* Writing out an empty buffer changes nothing. *)
LEMMA FlushNothing ==
    ASSUME TypeOK, NEW p \in Proc, Flush(p), pending[p] = NothingPending
    PROVE  UNCHANGED file /\ pending' = [pending EXCEPT ![p] = NothingPending]
BY DEF TypeOK, Flush, NothingPending, file

LEMMA SettleEffect ==
    ASSUME IInv, NEW p \in Proc, Settle(p)
    PROVE  head' = head /\ size' = size + req[p].block_size
<1>1. pending[p] = [kind |-> "byte", at |-> size + req[p].block_size - 1, len |-> 1,
                    head |-> ZeroHead]
    BY DEF IInv, StreamInv, Settle, LastByteOf
<1>2. req[p].block_size \in Nat /\ size \in Nat
    BY DEF IInv, TypeInv, TypeOK, Request
<1> QED
    BY <1>1, <1>2 DEF Settle, Flush

LEMMA RestoreEffect ==
    ASSUME IInv, HeadsWritten, NEW p \in Proc, Restore(p)
    PROVE  BlockWritten(p) /\ pending' = [pending EXCEPT ![p] = NothingPending]
<1>1. /\ Flush(p)
      /\ pending[p] = [kind |-> "head", at |-> pos[p], len |-> SizeofHeadBlock,
                       head |-> SetInfoBlock(req[p].block_type, req[p].block_size)]
      /\ Reserved(p)
    BY DEF IInv, StreamInv, Restore, HeadsWritten
<1>2. pos[p] \in Nat /\ size \in Nat
    BY DEF IInv, TypeInv, TypeOK
<1> QED
    BY <1>1, <1>2 DEF Flush, BlockWritten, SizeofHeadBlock

LEMMA ReleaseEffect ==
    ASSUME IInv, NEW p \in Proc, Release(p)
    PROVE  \/ UNCHANGED file
           \/ LinkAdded(p)
<1>1. CASE pending[p] = NothingPending
    BY <1>1, FlushNothing DEF IInv, TypeInv, Release, LoseWrite, file
<1>2. CASE /\ Appended(p)
           /\ ib[p] = head[cur[p]] /\ ~PointsToChild(ib[p])
           /\ pending[p] = LinkWrite(p)
  <2>1. cur[p] \in DOMAIN head /\ head[cur[p]] \in BlockHead /\ req[p] \in Request
        /\ pos[p] \in Nat /\ size \in Nat /\ cur[p] \in Nat
    BY DEF IInv, StreamInv, TypeInv, TypeOK
  <2>2. NewBlock(p) \in BlockLoc /\ BytesToData(req[p].block_type) \in Nat
    BY <2>1 DEF NewBlock, BlockLoc, Request, BytesToData, SizeofHeadBlock, SizeofHeadTable,
                SizeofHeadFile
  <2>3. PICK h \in BlockHead, l \in Nat :
           /\ pending[p] = [kind |-> "head", at |-> cur[p], len |-> l, head |-> h]
           /\ h.next_block = NewBlock(p)
           /\ h.block_type = head[cur[p]].block_type
           /\ h.block_size = head[cur[p]].block_size
    <3>1. CASE req[p].op = "extend"
      <4>1. WriteLength(ib[p].block_type, BytesToData(req[p].block_type)) \in Nat
        BY <1>2, <2>1, <2>2, WriteLengthType DEF BlockHead
      <4>2. LET h == LinkedByExtend(ib[p], NewBlock(p), BytesToData(req[p].block_type)) IN
            /\ h \in BlockHead
            /\ h.next_block = NewBlock(p)
            /\ h.block_type = head[cur[p]].block_type
            /\ h.block_size = head[cur[p]].block_size
        <5>1. ib[p] \in BlockHead /\ ib[p] = head[cur[p]]
          BY <1>2, <2>1
        <5> QED
          BY <2>2, <5>1, LinkedHead
      <4>3. pending[p] =
              [kind |-> "head", at |-> cur[p],
               len  |-> WriteLength(ib[p].block_type, BytesToData(req[p].block_type)),
               head |-> LinkedByExtend(ib[p], NewBlock(p), BytesToData(req[p].block_type))]
        BY <1>2, <3>1 DEF LinkWrite
      <4> QED
        BY <4>1, <4>2, <4>3
    <3>2. CASE req[p].op # "extend"
      <4>1. LET h == LinkedByAddLink(ib[p], NewBlock(p)) IN
            /\ h \in BlockHead
            /\ h.next_block = NewBlock(p)
            /\ h.block_type = head[cur[p]].block_type
            /\ h.block_size = head[cur[p]].block_size
        <5>1. ib[p] \in BlockHead /\ ib[p] = head[cur[p]]
          BY <1>2, <2>1
        <5> QED
          BY <2>2, <5>1, LinkedHead
      <4>2. SizeofHeadBlock \in Nat
        BY DEF SizeofHeadBlock
      <4>3. pending[p] = [kind |-> "head", at |-> cur[p], len |-> SizeofHeadBlock,
                          head |-> LinkedByAddLink(ib[p], NewBlock(p))]
        BY <1>2, <3>2 DEF LinkWrite
      <4> QED
        BY <4>1, <4>2, <4>3
    <3> QED
      BY <3>1, <3>2
  <2>4. CASE Flush(p)
    <3>1. size' >= size
      BY <2>1, <2>3, <2>4 DEF Flush
    <3>2. head' = [o \in DOMAIN head \cup {cur[p]} |-> IF o = cur[p] THEN h ELSE head[o]]
      BY <2>3, <2>4 DEF Flush
    <3> QED
      BY <1>2, <2>1, <2>3, <3>1, <3>2 DEF LinkAdded
  <2>5. CASE LoseWrite(p)
    BY <2>5 DEF LoseWrite
  <2> QED
    BY <2>4, <2>5 DEF Release
<1> QED
  BY <1>1, <1>2 DEF IInv, StreamInv, Release
-----------------------------------------------------------------------------
(* Each part of the invariant is preserved *)

LEMMA TypeStep ==
    ASSUME TypeInv, [Next]_vars
    PROVE  TypeInv'
<1> USE DEF TypeInv, TypeOK, Goto, Return, Finish, file
<1>0. /\ NothingPending \in Pending /\ ZeroHead \in BlockHead
      /\ 0 \in Nat /\ "SUCCESS" \in RND_ERROR /\ "SYSTEM_ERROR" \in RND_ERROR
      /\ "INVALID_BLOCK_LOCATION" \in RND_ERROR /\ "ATTEMPT_TO_ORPHAN_BLOCK" \in RND_ERROR
      /\ \A c \in Calls : c \in Calls \cup {"idle"}
      /\ NoRequest \in Request
      /\ \A r \in Roots : [NoRequest EXCEPT !.chain = r] \in Request
      /\ \A r \in Roots : [NoRequest EXCEPT !.op = "walk", !.chain = r] \in Request
    BY ZeroHeadType, BlocksAssumption
    DEF NothingPending, Pending, RND_ERROR, NoRequest, Request, BTYPE
<1>c. /\ {"tell", "locate", "grow", "settle", "header", "walk", "read", "link", "restore",
          "release"} \subseteq Calls \cup {"idle"}
      /\ "idle" \in Calls \cup {"idle"}
    BY DEF Calls, CheckedCalls, UncheckedCalls
<1>f. ASSUME NEW p \in Proc, Flush(p)
      PROVE  /\ size' \in Nat /\ size' >= InitialSize
             /\ DOMAIN head' \subseteq Nat /\ head' \in [DOMAIN head' -> BlockHead]
             /\ pending' \in [Proc -> Pending]
  <2>1. pending[p].at \in Nat /\ pending[p].len \in Nat /\ pending[p].head \in BlockHead
    BY DEF Pending
  <2>2. size' \in Nat /\ size' >= InitialSize
    BY <1>f, <2>1, BlocksAssumption DEF Flush
  <2>3. DOMAIN head' \subseteq Nat /\ head' \in [DOMAIN head' -> BlockHead]
    BY <1>f, <2>1 DEF Flush
  <2> QED
    BY <1>0, <1>f, <2>2, <2>3 DEF Flush
<1>w. ASSUME NEW p \in Proc, LoseWrite(p)
      PROVE  UNCHANGED file /\ pending' \in [Proc -> Pending]
    BY <1>0, <1>w DEF LoseWrite
<1>l. ASSUME NEW p \in Proc, FreeLocks(p)
      PROVE  lock' \in [Roots -> Proc \cup {NoProc}]
    BY <1>l DEF FreeLocks
<1>n. ASSUME NEW p \in Proc PROVE NewBlock(p) \in BlockLoc
    BY DEF NewBlock, BlockLoc, Request
<1>r. ASSUME NEW p \in Proc PROVE ReadHead(cur[p]) \in BlockHead
    BY <1>0 DEF ReadHead
<1>1. ASSUME NEW p \in Proc, NEW op \in {"extend", "append"}, NEW r \in Roots,
             NEW t \in ChildTypes, NEW s \in Sizes, Begin(p, op, r, t, s)
      PROVE  TypeInv'
  <2>1. [op |-> op, chain |-> r, block_type |-> t, block_size |-> s] \in Request
    BY BlocksAssumption DEF Request, BTYPE
  <2>2. r \in Nat
    BY BlocksAssumption
  <2> QED
    BY <1>1, <1>c, <2>1, <2>2 DEF Begin
<1>2. ASSUME NEW p \in Proc, NEW r \in Roots, BeginWalk(p, r)
      PROVE  TypeInv'
    BY <1>0, <1>c, <1>2, BlocksAssumption DEF BeginWalk
<1>3. ASSUME NEW p \in Proc, Tell(p) PROVE TypeInv'
    BY <1>c, <1>3 DEF Tell
<1>4. ASSUME NEW p \in Proc, Locate(p) PROVE TypeInv'
    BY <1>0, <1>c, <1>4 DEF Locate
<1>5. ASSUME NEW p \in Proc, Grow(p) PROVE TypeInv'
  <2>1. LastByteOf(req[p].block_size) \in Nat
    <3>1. InitialSize \in Nat /\ InitialSize >= 1
      <4>1. 0 \in Roots /\ 0 + ChunkSize <= InitialSize
        BY BlocksAssumption
      <4> QED
        BY <4>1, BlocksAssumption DEF SizeofHeadFile
    <3>2. req[p].block_size \in Nat
      BY DEF Request
    <3> QED
      BY <3>1, <3>2 DEF LastByteOf
  <2>2. [kind |-> "byte", at |-> LastByteOf(req[p].block_size), len |-> 1, head |-> ZeroHead]
          \in Pending
    BY <1>0, <2>1 DEF Pending
  <2> QED
    BY <1>c, <1>5, <2>2 DEF Grow
<1>6. ASSUME NEW p \in Proc, Settle(p) PROVE TypeInv'
    BY <1>c, <1>f, <1>6 DEF Settle
<1>7. ASSUME NEW p \in Proc, WriteHeader(p) PROVE TypeInv'
  <2> DEFINE h == SetInfoBlock(req[p].block_type, req[p].block_size)
  <2>1. h \in BlockHead
    BY SetInfoBlockType DEF Request
  <2>2. BytesToData(h.block_type) \in Nat
    BY DEF BytesToData, SizeofHeadBlock, SizeofHeadTable, SizeofHeadFile
  <2>3. [kind |-> "head", at |-> pos[p], len |-> BytesToData(h.block_type), head |-> h]
          \in Pending
    BY <2>1, <2>2 DEF Pending
  <2> QED
    BY <1>c, <1>7, <2>3 DEF WriteHeader
<1>8. ASSUME NEW p \in Proc, Restore(p) PROVE TypeInv'
    BY <1>c, <1>f, <1>w, <1>8 DEF Restore
<1>9. ASSUME NEW p \in Proc, Walk(p) PROVE TypeInv'
  <2>1. ReadHead(cur[p]).next_block.offset \in Nat
    BY <1>r DEF BlockHead, BlockLoc
  <2> QED
    BY <1>c, <1>9, <2>1 DEF Walk
<1>10. ASSUME NEW p \in Proc, ReadLink(p) PROVE TypeInv'
    BY <1>c, <1>r, <1>10 DEF ReadLink
<1>11. ASSUME NEW p \in Proc, WriteLink(p) PROVE TypeInv'
  <2>1. LinkWrite(p) \in Pending
    <3>1. BytesToData(req[p].block_type) \in Nat /\ SizeofHeadBlock \in Nat
      BY DEF BytesToData, SizeofHeadBlock, SizeofHeadTable, SizeofHeadFile
    <3>2. WriteLength(ib[p].block_type, BytesToData(req[p].block_type)) \in Nat
      BY <3>1, WriteLengthType DEF BlockHead
    <3>3. /\ LinkedByExtend(ib[p], NewBlock(p), BytesToData(req[p].block_type)) \in BlockHead
          /\ LinkedByAddLink(ib[p], NewBlock(p)) \in BlockHead
      BY <1>n, <3>1, LinkedHead
    <3> QED
      BY <3>1, <3>2, <3>3 DEF LinkWrite, Pending
  <2>2. pending' \in [Proc -> Pending]
    BY <1>11, <2>1 DEF WriteLink
  <2>4. rval' \in [Proc -> RND_ERROR]
    BY <1>0, <1>11 DEF WriteLink
  <2>3. pc' \in [Proc -> Calls \cup {"idle"}]
    BY <1>c, <1>11 DEF WriteLink
  <2> QED
    BY <1>11, <2>2, <2>3, <2>4 DEF WriteLink
<1>12. ASSUME NEW p \in Proc, Release(p) PROVE TypeInv'
  <2>1. added' \subseteq BlockLoc
    BY <1>n, <1>12 DEF Release
  <2>2. req' \in [Proc -> Request]
    BY <1>0, <1>12 DEF Release, Request
  <2> QED
    BY <1>0, <1>c, <1>f, <1>w, <1>l, <1>12, <2>1, <2>2 DEF Release
<1>13. ASSUME NEW p \in Proc, SystemError(p) PROVE TypeInv'
    BY <1>0, <1>c, <1>w, <1>13 DEF SystemError
<1>14. ASSUME NEW p \in Proc, ReadError(p) PROVE TypeInv'
    BY <1>0, <1>c, <1>14 DEF ReadError
<1>15. ASSUME NEW p \in Proc, Crash(p) PROVE TypeInv'
    BY <1>0, <1>c, <1>l, <1>15 DEF Crash
<1>16. CASE UNCHANGED vars
    BY <1>16 DEF vars
<1> QED
    BY <1>1, <1>2, <1>3, <1>4, <1>5, <1>6, <1>7, <1>8, <1>9, <1>10, <1>11, <1>12,
       <1>13, <1>14, <1>15, <1>16 DEF Next, Step, Advance
LEMMA LockStep ==
    ASSUME TypeInv, LockInv, [Next]_vars
    PROVE  LockInv'
<1> USE DEF TypeInv, TypeOK, LockInv, Adding, Goto, Return, Finish
(* A step inside an operation leaves the request and the lock as they are. *)
<1>s. ASSUME NEW p \in Proc, UNCHANGED <<req, lock>>, pc[p] # "idle",
             \E l \in Calls : Goto(p, l) /\ (l \in {"tell", "locate", "grow", "settle",
                "header", "restore", "read", "link"} => Adding(p))
      PROVE  LockInv'
    BY <1>s DEF Calls, CheckedCalls, UncheckedCalls
<1>x. ASSUME NEW p \in Proc, UNCHANGED <<req, lock>>, pc[p] # "idle", Goto(p, "release")
      PROVE  LockInv'
  <2>1. "release" \in Calls
    BY DEF Calls, UncheckedCalls
  <2> QED
    BY <1>x, <1>s, <2>1
(* The end of an operation: no request, and no lock. *)
<1>e. ASSUME NEW p \in Proc, NEW r \in Roots, FreeLocks(p), Goto(p, "idle"),
             req' = [req EXCEPT ![p] = [NoRequest EXCEPT !.chain = r]]
      PROVE  LockInv'
  <2>1. req'[p].op = "none" /\ pc'[p] = "idle"
    BY <1>e DEF NoRequest
  <2>2. \A q \in Proc : q # p => req'[q] = req[q] /\ pc'[q] = pc[q]
    BY <1>e
  <2>3. \A x \in Roots : lock'[x] = IF lock[x] = p THEN NoProc ELSE lock[x]
    BY <1>e DEF FreeLocks
  <2> QED
    BY <2>1, <2>2, <2>3, BlocksAssumption
<1>1. ASSUME NEW p \in Proc, NEW op \in {"extend", "append"}, NEW r \in Roots,
             NEW t \in ChildTypes, NEW s \in Sizes, Begin(p, op, r, t, s)
      PROVE  LockInv'
  <2>1. /\ lock[r] = NoProc /\ lock' = [lock EXCEPT ![r] = p]
        /\ pc[p] = "idle" /\ pc' = [pc EXCEPT ![p] = "tell"]
        /\ req' = [req EXCEPT ![p] = [op |-> op, chain |-> r,
                                       block_type |-> t, block_size |-> s]]
    BY <1>1 DEF Begin
  <2>2. \A x \in Roots : lock[x] # p
    BY <2>1
  <2> QED
    BY <2>1, <2>2, BlocksAssumption
<1>2. ASSUME NEW p \in Proc, NEW r \in Roots, BeginWalk(p, r)
      PROVE  LockInv'
    BY <1>2 DEF BeginWalk, NoRequest
<1>3. ASSUME NEW p \in Proc, Tell(p) PROVE LockInv'
    BY <1>3, <1>s DEF Tell, Calls, CheckedCalls
<1>4. ASSUME NEW p \in Proc, Locate(p) PROVE LockInv'
    BY <1>4, <1>s DEF Locate, Calls, CheckedCalls, UncheckedCalls
<1>5. ASSUME NEW p \in Proc, Grow(p) PROVE LockInv'
    BY <1>5, <1>s DEF Grow, Calls, CheckedCalls
<1>6. ASSUME NEW p \in Proc, Settle(p) PROVE LockInv'
    BY <1>6, <1>s DEF Settle, Calls, CheckedCalls
<1>7. ASSUME NEW p \in Proc, WriteHeader(p) PROVE LockInv'
    BY <1>7, <1>s DEF WriteHeader, Calls, CheckedCalls, UncheckedCalls
<1>8. ASSUME NEW p \in Proc, Restore(p) PROVE LockInv'
    BY <1>8, <1>s DEF Restore, Calls, CheckedCalls
<1>9. ASSUME NEW p \in Proc, Walk(p) PROVE LockInv'
  <2>1. req[p].op # "none"
    BY <1>9 DEF Walk
  <2>2. CASE req[p].op = "walk"
    BY <1>9, <1>s, <2>2 DEF Walk, Calls, CheckedCalls, UncheckedCalls
  <2>3. CASE req[p].op \in {"extend", "append"}
    BY <1>9, <1>s, <2>3 DEF Walk, Calls, CheckedCalls
  <2> QED
    BY <2>1, <2>2, <2>3 DEF Request
<1>10. ASSUME NEW p \in Proc, ReadLink(p) PROVE LockInv'
    BY <1>10, <1>s DEF ReadLink, Calls, CheckedCalls
<1>11. ASSUME NEW p \in Proc, WriteLink(p) PROVE LockInv'
    BY <1>11, <1>s DEF WriteLink, Calls, CheckedCalls, UncheckedCalls
<1>12. ASSUME NEW p \in Proc, Release(p) PROVE LockInv'
    BY <1>12, <1>e DEF Release, Request
<1>13. ASSUME NEW p \in Proc, SystemError(p) PROVE LockInv'
    BY <1>13, <1>x DEF SystemError, CheckedCalls
<1>14. ASSUME NEW p \in Proc, ReadError(p) PROVE LockInv'
    BY <1>14, <1>x DEF ReadError
<1>15. ASSUME NEW p \in Proc, Crash(p) PROVE LockInv'
  <2>1. NoRequest = [NoRequest EXCEPT !.chain = 0]
    BY DEF NoRequest
  <2> QED
    BY <1>15, <1>e, <2>1, BlocksAssumption DEF Crash
<1>16. CASE UNCHANGED vars
    BY <1>16 DEF vars
<1> QED
    BY <1>1, <1>2, <1>3, <1>4, <1>5, <1>6, <1>7, <1>8, <1>9, <1>10, <1>11, <1>12,
       <1>13, <1>14, <1>15, <1>16 DEF Next, Step, Advance
(* The three things a step can do to the file keep it well formed. *)
LEMMA SpaceAddedKeepsFile ==
    ASSUME TypeInv, TypeInv', FileInv, SpaceAdded
    PROVE  FileInv'
<1>1. \A b \in DOMAIN head : b \in Nat /\ Extent(head[b]) \in Nat
    BY ExtentType DEF TypeInv, TypeOK
<1>2. BlocksDisjoint'
    BY <1>1 DEF FileInv, BlocksDisjoint, SpaceAdded, TypeInv, TypeOK
<1> QED
    BY <1>2 DEF FileInv, SpaceAdded, BlocksAligned, LinkTargetsReady, LinksFormLists,
                Linked

LEMMA BlockWrittenKeepsFile ==
    ASSUME TypeInv, TypeInv', FileInv, NEW p \in Proc, BlockWritten(p),
           req[p].block_type \in ChildTypes
    PROVE  FileInv' /\ (cur[p] \in DOMAIN head /\ UNCHANGED <<pos, req, cur>> => Appended(p)')
<1> DEFINE s == req[p].block_size
           h == SetInfoBlock(req[p].block_type, s)
<1>1. s \in Nat /\ pos[p] \in Nat /\ size \in Nat /\ size' \in Nat
    BY DEF TypeInv, TypeOK, Request
<1>2. /\ Extent(h) = IF s < SizeofHeadBlock THEN SizeofHeadBlock ELSE s
      /\ h.next_block = NoBlock
      /\ h.block_size = s
  <2>1. req[p].block_type \in {"GENERIC", "DATA"}
    BY BlocksAssumption
  <2> QED
    BY <1>1, <2>1, NewBlockExtent
<1>3. \A b \in DOMAIN head :
         b \in Nat /\ Extent(head[b]) \in Nat /\ b + Extent(head[b]) <= pos[p] /\ b < pos[p]
  <2>1. \A b \in DOMAIN head :
           /\ b \in Nat /\ Extent(head[b]) \in Nat /\ Extent(head[b]) >= SizeofHeadBlock
           /\ b + Extent(head[b]) <= pos[p]
    BY ExtentType DEF TypeInv, TypeOK, BlockWritten, Reserved
  <2> QED
    BY <1>1, <2>1 DEF SizeofHeadBlock
<1>4. /\ pos[p] \notin DOMAIN head
      /\ DOMAIN head' = DOMAIN head \cup {pos[p]}
      /\ head'[pos[p]] = h
      /\ \A b \in DOMAIN head : head'[b] = head[b]
    BY <1>3 DEF BlockWritten
<1>5. pos[p] + Extent(h) <= size' /\ pos[p] <= size'
    BY <1>1, <1>2 DEF BlockWritten, Reserved, SizeofHeadBlock
<1>6. BlocksDisjoint'
  <2>1. ASSUME NEW b \in DOMAIN head' PROVE b + Extent(head'[b]) <= size'
    BY <1>1, <1>3, <1>4, <1>5
  <2>2. ASSUME NEW a \in DOMAIN head', NEW b \in DOMAIN head', a < b
        PROVE  a + Extent(head'[a]) <= b
    <3>1. a \in DOMAIN head
      BY <1>1, <1>3, <1>4, <2>2
    <3>2. CASE b = pos[p]
      BY <1>3, <1>4, <3>1, <3>2
    <3>3. CASE b \in DOMAIN head
      BY <1>4, <2>2, <3>1, <3>3 DEF FileInv, BlocksDisjoint
    <3> QED
      BY <1>4, <3>2, <3>3
  <2> QED
    BY <2>1, <2>2 DEF BlocksDisjoint
<1>7. BlocksAligned'
    BY <1>4 DEF FileInv, BlocksAligned, BlockWritten, Reserved
<1>8. Linked' = Linked
    BY <1>2, <1>4 DEF Linked, PointsToChild, NoBlock
<1>9. LinkTargetsReady'
    BY <1>4, <1>8 DEF FileInv, LinkTargetsReady, Linked
<1>10. LinksFormLists'
    BY <1>4, <1>8 DEF FileInv, LinksFormLists, Linked
<1>11. pos[p] \notin Roots
    BY <1>4 DEF FileInv
<1>12. ASSUME cur[p] \in DOMAIN head, UNCHANGED <<pos, req, cur>> PROVE Appended(p)'
  <2>1. \A b \in Linked : head[b].next_block.offset \in DOMAIN head
    BY DEF FileInv, LinkTargetsReady
  <2>2. \A b \in Linked' : head'[b].next_block.offset # pos[p]
    BY <1>4, <1>8, <2>1 DEF Linked
  <2>3. \A b \in DOMAIN head' : b <= pos[p]
    BY <1>1, <1>3, <1>4
  <2> QED
    BY <1>2, <1>3, <1>4, <1>11, <1>12, <2>2, <2>3 DEF Appended
<1> QED
    BY <1>4, <1>6, <1>7, <1>9, <1>10, <1>12 DEF FileInv

LEMMA LinkAddedKeepsFile ==
    ASSUME TypeInv, TypeInv', FileInv, NEW p \in Proc, cur[p] \in DOMAIN head, LinkAdded(p)
    PROVE  FileInv' /\ Linked' = Linked \cup {cur[p]}
<1>1. /\ pos[p] \in Nat /\ cur[p] \in Nat /\ cur[p] < pos[p]
      /\ size \in Nat /\ size' \in Nat /\ size' >= size
    BY DEF TypeInv, TypeOK, LinkAdded, Appended
<1>2. \A b \in DOMAIN head :
         /\ b \in Nat /\ Extent(head[b]) \in Nat
         /\ Extent(head'[b]) = Extent(head[b])
         /\ head'[b].block_size = head[b].block_size
  <2>1. ASSUME NEW b \in DOMAIN head
        PROVE  /\ head'[b].block_size = head[b].block_size
               /\ head'[b].block_type = head[b].block_type
    BY DEF LinkAdded
  <2> QED
    BY <2>1, ExtentType DEF TypeInv, TypeOK, Extent
<1>3. /\ head'[cur[p]].next_block.offset = pos[p]
      /\ head'[cur[p]].next_block.size = req[p].block_size
    BY DEF LinkAdded, NewBlock
<1>4. /\ Linked' = Linked \cup {cur[p]}
      /\ cur[p] \notin Linked
      /\ \A b \in Linked : head'[b] = head[b]
  <2>1. PointsToChild(head'[cur[p]])
    BY <1>1, <1>3 DEF PointsToChild
  <2>2. cur[p] \notin Linked
    BY DEF LinkAdded, Linked
  <2> QED
    BY <2>1, <2>2 DEF Linked, LinkAdded
<1>5. BlocksDisjoint'
    BY <1>1, <1>2 DEF FileInv, BlocksDisjoint, LinkAdded
<1>6. BlocksAligned' /\ Roots \subseteq DOMAIN head'
    BY DEF FileInv, BlocksAligned, LinkAdded
<1>7. LinkTargetsReady'
  <2>1. ASSUME NEW b \in Linked
        PROVE  /\ head'[b].next_block.offset \in DOMAIN head'
               /\ head'[head'[b].next_block.offset].block_size = head'[b].next_block.size
    BY <1>2, <1>4 DEF FileInv, LinkTargetsReady, LinkAdded
  <2>2. /\ head'[cur[p]].next_block.offset \in DOMAIN head'
        /\ head'[head'[cur[p]].next_block.offset].block_size = head'[cur[p]].next_block.size
    BY <1>2, <1>3 DEF LinkAdded, Appended
  <2> QED
    BY <1>4, <2>1, <2>2 DEF LinkTargetsReady
<1>8. LinksFormLists'
  <2>1. ASSUME NEW b \in Linked
        PROVE  /\ b < head'[b].next_block.offset
               /\ head'[b].next_block.offset \notin Roots
               /\ head'[b].next_block.offset # pos[p]
    BY <1>4 DEF FileInv, LinksFormLists, LinkAdded, Appended
  <2>2. ASSUME NEW b \in Linked, NEW c \in Linked,
               head'[b].next_block.offset = head'[c].next_block.offset
        PROVE  b = c
    BY <1>4, <2>2 DEF FileInv, LinksFormLists
  <2>3. cur[p] < head'[cur[p]].next_block.offset /\ pos[p] \notin Roots
    BY <1>1, <1>3 DEF LinkAdded, Appended
  <2> QED
    BY <1>3, <1>4, <2>1, <2>2, <2>3 DEF LinksFormLists
<1> QED
    BY <1>4, <1>5, <1>6, <1>7, <1>8 DEF FileInv
(* A step by process p: any disjunct of Next. *)
StepBy(p) ==
    \/ \E op \in {"extend", "append"}, r \in Roots, t \in ChildTypes, s \in Sizes :
          Begin(p, op, r, t, s)
    \/ \E r \in Roots : BeginWalk(p, r)
    \/ Step(p)
    \/ Crash(p)

(* A process changes the file in one of those ways, and only to add a block. *)
LEMMA StepEffect ==
    ASSUME IInv, HeadsWritten, NEW p \in Proc, StepBy(p)
    PROVE  \/ UNCHANGED file
           \/ Adding(p) /\ (SpaceAdded \/ BlockWritten(p) \/ LinkAdded(p))
<1>1. CASE Settle(p)
    BY <1>1, SettleEffect
    DEF Settle, SpaceAdded, IInv, LockInv, TypeInv, TypeOK, Request
<1>2. CASE Restore(p)
    BY <1>2, RestoreEffect DEF Restore, IInv, LockInv
<1>3. CASE Release(p)
  <2>1. CASE pending[p] = NothingPending
    BY <1>3, <2>1, FlushNothing DEF Release, LoseWrite, IInv, TypeInv
  <2>2. CASE pending[p] # NothingPending
    BY <1>3, <2>2, ReleaseEffect DEF IInv, StreamInv, Release
  <2> QED
    BY <2>1, <2>2
<1>4. CASE ~(Settle(p) \/ Restore(p) \/ Release(p))
    BY <1>4 DEF StepBy, Step, Advance, Begin, BeginWalk, Tell, Locate, Grow, WriteHeader, Walk,
                ReadLink, WriteLink, SystemError, ReadError, Crash, LoseWrite
<1> QED
    BY <1>1, <1>2, <1>3, <1>4

LEMMA FileStep ==
    ASSUME IInv, HeadsWritten, TypeInv', NEW p \in Proc, StepBy(p)
    PROVE  FileInv' /\ DOMAIN head \subseteq DOMAIN head'
<1>1. TypeInv /\ FileInv /\ cur[p] \in DOMAIN head
    BY DEF IInv, FileInv, StreamInv
<1>2. CASE UNCHANGED file
    BY <1>1, <1>2, SpaceAddedKeepsFile DEF SpaceAdded, file, TypeInv, TypeOK
<1>3. CASE SpaceAdded
    BY <1>1, <1>3, SpaceAddedKeepsFile DEF SpaceAdded
<1>4. CASE Adding(p) /\ BlockWritten(p)
    BY <1>1, <1>4, BlockWrittenKeepsFile DEF BlockWritten, IInv, LockInv
<1>5. CASE LinkAdded(p)
    BY <1>1, <1>5, LinkAddedKeepsFile DEF LinkAdded
<1> QED
    BY <1>2, <1>3, <1>4, <1>5, StepEffect

(* What a process knows of a file that does not change stays true. *)
LEMMA SameStream ==
    ASSUME NEW q \in Proc, StreamInv(q), Same(q), UNCHANGED file
    PROVE  StreamInv(q)'
BY DEF Same, StreamInv, Reserved, AtEnd, Appended, Linked, LinkWrite, NewBlock, LastByteOf,
       Adding, file

(* What the other processes know stays true: they are not adding blocks. *)
LEMMA OtherStream ==
    ASSUME IInv, ExclusiveAccess, HeadsWritten, TypeInv',
           NEW p \in Proc, NEW q \in Proc, p # q, StepBy(p)
    PROVE  StreamInv(q)'
<1>1. Same(q)
    BY OthersSame DEF IInv, TypeInv, StepBy
<1>2. StreamInv(q) /\ DOMAIN head \subseteq DOMAIN head'
    BY FileStep DEF IInv
<1>3. CASE UNCHANGED file
    BY <1>1, <1>2, <1>3, SameStream
<1>4. CASE Adding(p)
  <2>1. ~Adding(q)
    BY <1>4, Alone DEF IInv
  <2>2. pc[q] \notin {"tell", "locate", "grow", "settle", "header", "restore", "read", "link"}
    BY <2>1 DEF IInv, LockInv
  <2> QED
    BY <1>1, <1>2, <2>1, <2>2 DEF Same, StreamInv, Adding
<1> QED
    BY <1>3, <1>4, StepEffect

(* What the process itself knows, at its next call. *)
LEMMA OwnStream ==
    ASSUME IInv, HeadsWritten, TypeInv', NEW p \in Proc, StepBy(p)
    PROVE  StreamInv(p)'
<1> USE DEF StreamInv, Adding, Goto, Return, Finish
<1>0. StreamInv(p) /\ TypeInv /\ FileInv /\ LockInv /\ req[p] \in Request
      /\ DOMAIN head \subseteq DOMAIN head'
    BY FileStep DEF IInv, FileInv, TypeInv, TypeOK
<1>t. /\ pending \in [Proc -> Pending] /\ pc \in [Proc -> Calls \cup {"idle"}]
      /\ req \in [Proc -> Request] /\ pos \in [Proc -> Nat] /\ cur \in [Proc -> Nat]
      /\ ib \in [Proc -> BlockHead] /\ rval \in [Proc -> RND_ERROR]
    BY <1>0 DEF TypeInv, TypeOK
(* Nothing is known of a process between two operations but where it is. *)
<1>i. ASSUME pc'[p] \in {"idle", "tell"}, cur'[p] \in DOMAIN head',
             pending'[p] = NothingPending
      PROVE  StreamInv(p)'
    BY <1>i
(* An operation that fails has nothing left to write. *)
<1>e. ASSUME Return(p, "SYSTEM_ERROR") \/ Return(p, "INVALID_BLOCK_LOCATION")
                \/ Return(p, "ATTEMPT_TO_ORPHAN_BLOCK"),
             cur' = cur, pending'[p] = NothingPending
      PROVE  StreamInv(p)'
    BY <1>0, <1>t, <1>e
<1>1. ASSUME NEW op \in {"extend", "append"}, NEW r \in Roots,
             NEW t \in ChildTypes, NEW s \in Sizes, Begin(p, op, r, t, s)
      PROVE  StreamInv(p)'
    BY <1>0, <1>t, <1>1, <1>i DEF Begin, FileInv
<1>2. ASSUME NEW r \in Roots, BeginWalk(p, r)
      PROVE  StreamInv(p)'
    BY <1>0, <1>t, <1>2 DEF BeginWalk, FileInv, NoRequest, file
<1>3. CASE Tell(p)
    BY <1>0, <1>t, <1>3 DEF Tell, file
<1>4. CASE Locate(p)
    BY <1>0, <1>t, <1>4, <1>e DEF Locate, file, AtEnd, ValidNewBlockLocation
<1>5. CASE Grow(p)
    BY <1>0, <1>t, <1>5 DEF Grow, file, AtEnd, LastByteOf
<1>6. CASE Settle(p)
  <2>1. head' = head /\ size' = size + req[p].block_size
    BY <1>6, SettleEffect
  <2>2. Reserved(p)'
    BY <1>0, <1>6, <2>1 DEF Settle, Reserved, AtEnd, FileInv, BlocksDisjoint
  <2> QED
    BY <1>0, <1>t, <1>6, <2>1, <2>2 DEF Settle, Flush
<1>7. CASE WriteHeader(p)
  <2>1. BytesToData(req[p].block_type) = SizeofHeadBlock
        /\ SetInfoBlock(req[p].block_type, req[p].block_size).block_type = req[p].block_type
    <3>1. req[p].block_type \in {"GENERIC", "DATA"} /\ req[p].block_size \in Nat
      BY <1>0, <1>7, BlocksAssumption DEF WriteHeader, LockInv, Request
    <3> QED
      BY <3>1, NewBlockExtent DEF SetInfoBlock
  <2> QED
    BY <1>0, <1>t, <1>7, <2>1 DEF WriteHeader, Reserved, file
<1>8. CASE Restore(p)
  <2>1. BlockWritten(p) /\ pending'[p] = NothingPending
    BY <1>8, <1>t, RestoreEffect
  <2>2. Appended(p)'
    BY <1>0, <1>8, <2>1, BlockWrittenKeepsFile DEF Restore, LockInv
  <2> QED
    BY <1>0, <1>t, <1>8, <2>1, <2>2 DEF Restore
<1>9. CASE Walk(p)
  <2>1. pending'[p] = NothingPending /\ pc'[p] \in {"walk", "read", "release"}
    BY <1>0, <1>t, <1>9 DEF Walk
  <2>2. cur'[p] \in DOMAIN head /\ (Adding(p) => Appended(p)')
    <3>1. CASE UNCHANGED cur
      BY <1>0, <1>9, <3>1 DEF Walk, Appended, Linked, file
    <3>2. CASE PointsToChild(ReadHead(cur[p]))
               /\ cur' = [cur EXCEPT ![p] = ReadHead(@).next_block.offset]
      <4>1. cur[p] \in Linked /\ cur'[p] = head[cur[p]].next_block.offset
        BY <1>0, <1>t, <3>2 DEF ReadHead, Linked
      <4>2. cur'[p] \in DOMAIN head
        BY <1>0, <4>1 DEF FileInv, LinkTargetsReady
      <4>3. CASE Adding(p)
        <5>1. Appended(p) /\ cur'[p] # pos[p]
          BY <1>0, <1>9, <4>1, <4>3 DEF Walk, Appended
        <5>2. cur'[p] < pos[p]
          BY <1>0, <1>t, <4>2, <5>1 DEF Appended, TypeInv, TypeOK
        <5> QED
          BY <1>9, <4>2, <5>1, <5>2 DEF Walk, Appended, Linked, file
      <4> QED
        BY <4>2, <4>3
    <3> QED
      BY <1>9, <3>1, <3>2 DEF Walk
  <2> QED
    BY <1>0, <1>t, <1>9, <2>1, <2>2 DEF Walk, file, LockInv, Request
<1>10. CASE ReadLink(p)
    BY <1>0, <1>t, <1>10 DEF ReadLink, ReadHead, Appended, Linked, file
<1>11. CASE WriteLink(p)
    BY <1>0, <1>t, <1>11, <1>e DEF WriteLink, Appended, Linked, LinkWrite, NewBlock, file, LockInv
<1>12. CASE Release(p)
    BY <1>0, <1>t, <1>12, <1>i DEF Release, Flush, LoseWrite
<1>13. CASE SystemError(p)
    BY <1>0, <1>t, <1>13, <1>e DEF SystemError, LoseWrite
<1>14. CASE ReadError(p)
    BY <1>0, <1>t, <1>14, <1>e DEF ReadError
<1>15. CASE Crash(p)
    BY <1>0, <1>t, <1>15, <1>i, BlocksAssumption DEF Crash, FileInv
<1> QED
    BY <1>1, <1>2, <1>3, <1>4, <1>5, <1>6, <1>7, <1>8, <1>9, <1>10, <1>11, <1>12,
       <1>13, <1>14, <1>15 DEF StepBy, Step, Advance
LEMMA StepInv ==
    ASSUME IInv, HeadsWritten, ExclusiveAccess, [Next]_vars
    PROVE  IInv'
<1>1. TypeInv' /\ LockInv'
    BY TypeStep, LockStep DEF IInv
<1>2. ASSUME NEW p \in Proc, StepBy(p) PROVE IInv'
  <2>1. FileInv'
    BY <1>1, <1>2, FileStep
  <2>2. \A q \in Proc : StreamInv(q)'
    BY <1>1, <1>2, OtherStream, OwnStream
  <2> QED
    BY <1>1, <2>1, <2>2 DEF IInv, FileInv
<1>3. CASE UNCHANGED vars
  <2>1. FileInv'
    BY <1>1, <1>3, SpaceAddedKeepsFile DEF vars, SpaceAdded, IInv, FileInv, TypeInv, TypeOK
  <2>2. ASSUME NEW q \in Proc PROVE StreamInv(q)'
    BY <1>3, SameStream DEF vars, file, Same, IInv
  <2> QED
    BY <1>1, <2>1, <2>2 DEF IInv, FileInv
<1> QED
    BY <1>2, <1>3 DEF Next, StepBy

-----------------------------------------------------------------------------
(* The theorems *)

(***************************************************************************)
(* Every variable has its type, whoever holds which lock and whatever call *)
(* fails: the positions and lengths the functions of blocks.c compute stay *)
(* natural numbers because a file never gets shorter than it started.      *)
(***************************************************************************)
THEOREM TypeCorrect == Spec => []TypeOK
<1>1. Init => TypeInv
    BY InitInv DEF IInv
<1>2. TypeInv /\ [Next]_vars => TypeInv'
    BY TypeStep
<1>3. TypeInv => TypeOK
    BY DEF TypeInv
<1> QED
    BY <1>1, <1>2, <1>3, PTL DEF Spec

(* The inductive invariant holds while blocks are added with exclusive access. *)
THEOREM Invariance == HeadsWritten => (ExclusiveSpec => []IInv)
<1> SUFFICES ASSUME HeadsWritten PROVE ExclusiveSpec => []IInv
    OBVIOUS
<1>1. Init => IInv /\ ExclusiveAccess
    BY InitInv DEF Init, ExclusiveAccess
<1>2. IInv /\ ExclusiveAccess /\ [Next /\ ExclusiveAccess']_vars => IInv' /\ ExclusiveAccess'
    BY StepInv DEF vars, ExclusiveAccess
<1> QED
    BY <1>1, <1>2, PTL DEF ExclusiveSpec

(* With one chain there is one lock, which is exclusive access. *)
LEMMA SingleChainIsExclusive == Roots = {0} => (Spec => ExclusiveSpec)
<1> SUFFICES ASSUME Roots = {0} PROVE Spec => ExclusiveSpec
    OBVIOUS
<1>1. [Next]_vars => [Next /\ ExclusiveAccess']_vars
    BY DEF ExclusiveAccess
<1> QED
    BY <1>1, PTL DEF Spec, ExclusiveSpec

(***************************************************************************)
(* With exclusive access no two blocks share a byte, blocks start at       *)
(* multiples of the chunk size, links lead to finished blocks and form     *)
(* lists, for any number of processes that fail and die at any point.      *)
(***************************************************************************)
THEOREM FileWellFormed ==
    HeadsWritten =>
      (ExclusiveSpec => [](BlocksDisjoint /\ BlocksAligned /\ LinkTargetsReady /\ LinksFormLists))
<1>1. IInv => BlocksDisjoint /\ BlocksAligned /\ LinkTargetsReady /\ LinksFormLists
    BY DEF IInv
<1> QED
    BY <1>1, Invariance, PTL

LEMMA DivMod ==
    ASSUME NEW n \in Nat, NEW d \in Nat, d > 0, NEW q, q = n \div d, NEW r, r = n % d
    PROVE  q \in Int /\ r \in 0 .. d - 1 /\ n = d * q + r
OBVIOUS

(* Less than a chunk beyond a multiple of the chunk size is no multiple of it. *)
LEMMA BetweenChunks ==
    ASSUME NEW c \in Nat, NEW k \in Nat, k > 0, c % k = 0, NEW d \in 1 .. k - 1
    PROVE  (c + d) % k # 0
<1> SUFFICES ASSUME (c + d) % k = 0 PROVE FALSE
    OBVIOUS
<1> DEFINE q == c \div k
           s == (c + d) \div k
<1>1. q \in Int /\ c = k * q
    <2>1. q \in Int /\ c = k * q + (c % k)
      BY DivMod
    <2> HIDE DEF q
    <2> QED
      BY <2>1
<1>2. s \in Int /\ c + d = k * s
    <2>1. c + d \in Nat
      OBVIOUS
    <2>2. s \in Int /\ c + d = k * s + ((c + d) % k)
      BY <2>1, DivMod
    <2> HIDE DEF s
    <2> QED
      BY <2>2
<1> HIDE DEF q, s
<1>3. k * (s - q) = d
    <2>1. k * (s - q) = k * s - k * q
      BY <1>1, <1>2
    <2> QED
      BY <1>1, <1>2, <2>1
<1>4. \A j \in Int : k * j >= k \/ k * j <= 0
    OBVIOUS
<1> QED
    BY <1>1, <1>2, <1>3, <1>4

(***************************************************************************)
(* A head can be read wherever a block is being added, and wherever a walk *)
(* comes to, but for a last block that is shorter than 72 bytes, of a file *)
(* that ends there for good.                                               *)
(***************************************************************************)
THEOREM ReadsFailAtEnd == HeadsWritten => (ExclusiveSpec => []ShortReadsAtEnd)
<1>1. IInv => ShortReadsAtEnd
  <2> SUFFICES ASSUME IInv, NEW p \in Proc, pc[p] \in {"walk", "read"}, ShortRead(p)
               PROVE  /\ req[p].op = "walk"
                      /\ cur[p] \in DOMAIN head /\ Extent(head[cur[p]]) < SizeofHeadFile
                      /\ size % ChunkSize # 0
      BY DEF ShortReadsAtEnd
  <2> DEFINE c == cur[p]
             e == Extent(head[c])
  <2>1. /\ c \in DOMAIN head /\ c \in Nat /\ size \in Nat /\ e \in Nat /\ e >= SizeofHeadBlock
        /\ c % ChunkSize = 0 /\ c + e <= size
        /\ ChunkSize \in Nat /\ ChunkSize >= SizeofHeadFile
    BY ExtentType, BlocksAssumption
    DEF IInv, TypeInv, TypeOK, StreamInv, BlocksAligned, BlocksDisjoint
  <2> HIDE DEF c, e
  <2>2. pc[p] = "walk" /\ size < c + SizeofHeadFile
    BY <2>1 DEF ShortRead, SizeofHeadBlock, SizeofHeadFile, c
  <2>3. size % ChunkSize # 0
    <3> DEFINE r == size - c
    <3>1. r \in 1 .. ChunkSize - 1 /\ size = c + r
      BY <2>1, <2>2 DEF SizeofHeadBlock, SizeofHeadFile
    <3> HIDE DEF r
    <3>2. ChunkSize > 0
      BY <2>1 DEF SizeofHeadFile
    <3> QED
      BY <2>1, <3>1, <3>2, BetweenChunks
  <2>4. ~Adding(p)
    <3> SUFFICES ASSUME Adding(p) PROVE FALSE
        OBVIOUS
    <3>1. Appended(p)
      BY <2>2 DEF IInv, StreamInv
    <3>2. /\ pos[p] \in DOMAIN head /\ pos[p] \in Nat /\ c < pos[p]
          /\ pos[p] % ChunkSize = 0
      BY <3>1 DEF Appended, IInv, TypeInv, TypeOK, BlocksAligned, c
    <3>3. pos[p] + Extent(head[pos[p]]) <= size /\ Extent(head[pos[p]]) \in Nat
      BY <3>2, ExtentType DEF IInv, TypeInv, TypeOK, BlocksDisjoint
    <3>4. c + ChunkSize <= pos[p]
      <4> DEFINE d == pos[p] - c
      <4>1. d \in Nat \ {0} /\ pos[p] = c + d
        BY <2>1, <3>2
      <4> HIDE DEF d
      <4>2. ChunkSize > 0
        BY <2>1 DEF SizeofHeadFile
      <4>3. ~(d \in 1 .. ChunkSize - 1)
        BY <2>1, <3>2, <4>1, <4>2, BetweenChunks
      <4> QED
        BY <2>1, <4>1, <4>3
    <3> DEFINE end == pos[p] + Extent(head[pos[p]])
    <3>5. end \in Nat /\ end <= size /\ end >= c + SizeofHeadFile
      BY <2>1, <3>2, <3>3, <3>4 DEF SizeofHeadFile
    <3> HIDE DEF end
    <3> QED
      BY <2>1, <2>2, <3>5 DEF SizeofHeadFile
  <2>5. req[p].op = "walk"
    BY <2>2, <2>4 DEF IInv, TypeInv, TypeOK, LockInv, Adding, Request
  <2> QED
    BY <2>1, <2>2, <2>3, <2>5 DEF c, e, SizeofHeadFile
<1> QED
    BY <1>1, Invariance, PTL

LEMMA BlockWrittenKeepsHeads ==
    ASSUME IInv, NEW p \in Proc, BlockWritten(p)
    PROVE  \A b \in DOMAIN head : b \in DOMAIN head' /\ head'[b] = head[b]
<1>1. \A b \in DOMAIN head :
         /\ b \in Nat /\ Extent(head[b]) \in Nat /\ Extent(head[b]) >= SizeofHeadBlock
         /\ b + Extent(head[b]) <= pos[p]
    BY ExtentType DEF IInv, TypeInv, TypeOK, BlockWritten, Reserved
<1>2. \A b \in DOMAIN head : b # pos[p]
    BY <1>1 DEF SizeofHeadBlock
<1> QED
    BY <1>2 DEF BlockWritten

LEMMA PersistStep ==
    ASSUME IInv, HeadsWritten, ExclusiveAccess, [Next]_vars
    PROVE  \A b \in DOMAIN head :
              /\ b \in DOMAIN head'
              /\ head'[b].block_type = head[b].block_type
              /\ head'[b].block_size = head[b].block_size
              /\ PointsToChild(head[b]) => head'[b].next_block = head[b].next_block
<1>1. CASE head' = head
    BY <1>1
<1>2. ASSUME NEW p \in Proc, StepBy(p), head' # head
      PROVE  BlockWritten(p) \/ LinkAdded(p)
    BY <1>2, StepEffect DEF SpaceAdded, file
<1>3. ASSUME NEW p \in Proc, BlockWritten(p)
      PROVE  \A b \in DOMAIN head : b \in DOMAIN head' /\ head'[b] = head[b]
    BY <1>3, BlockWrittenKeepsHeads
<1>4. ASSUME NEW p \in Proc, LinkAdded(p), NEW b \in DOMAIN head
      PROVE  /\ b \in DOMAIN head'
             /\ head'[b].block_type = head[b].block_type
             /\ head'[b].block_size = head[b].block_size
             /\ PointsToChild(head[b]) => head'[b].next_block = head[b].next_block
    BY <1>4 DEF LinkAdded
<1>5. CASE UNCHANGED vars
    BY <1>1, <1>5 DEF vars
<1> QED
    BY <1>1, <1>2, <1>3, <1>4, <1>5 DEF Next, StepBy

(***************************************************************************)
(* No step orphans a block or writes one over another, as the test in      *)
(* blocks_extend_chain and chains_add_link is there to ensure, for callers *)
(* that hold their lock but may name any link they once saw.               *)
(***************************************************************************)
THEOREM LinksStay == HeadsWritten => (ExclusiveSpec => LinksPersist)
<1> SUFFICES ASSUME HeadsWritten PROVE ExclusiveSpec => LinksPersist
    OBVIOUS
<1> DEFINE Persist ==
      \A b \in DOMAIN head :
          /\ b \in DOMAIN head'
          /\ head'[b].block_type = head[b].block_type
          /\ head'[b].block_size = head[b].block_size
          /\ PointsToChild(head[b]) => head'[b].next_block = head[b].next_block
<1>1. Init => ExclusiveAccess
    BY DEF Init, ExclusiveAccess
<1>2. ExclusiveAccess /\ [Next /\ ExclusiveAccess']_vars => ExclusiveAccess'
    BY DEF vars, ExclusiveAccess
<1>3. IInv /\ ExclusiveAccess /\ [Next /\ ExclusiveAccess']_vars => [Persist]_vars
  <2> SUFFICES ASSUME IInv, ExclusiveAccess, [Next]_vars PROVE Persist
      OBVIOUS
  <2> QED
      BY PersistStep
<1>4. [][Persist]_vars => LinksPersist
    BY PTL DEF LinksPersist
<1> QED
    BY <1>1, <1>2, <1>3, <1>4, Invariance, PTL DEF ExclusiveSpec

(* A block reported as added really is a child, offset 0 being no child. *)
AddedInv == AddedIsLinked /\ \A loc \in added : loc.offset # 0

LEMMA AddedStep ==
    ASSUME IInv, AddedInv, HeadsWritten, LinksWritten, ExclusiveAccess, [Next]_vars
    PROVE  AddedInv'
<1>1. ASSUME NEW loc \in added PROVE \E b \in DOMAIN head' : head'[b].next_block = loc
  <2>1. PICK b \in DOMAIN head : head[b].next_block = loc
    BY DEF AddedInv, AddedIsLinked
  <2>2. PointsToChild(head[b])
    BY <2>1 DEF AddedInv, PointsToChild
  <2> QED
    BY <2>1, <2>2, PersistStep
<1>2. CASE added' = added
    BY <1>1, <1>2 DEF AddedInv, AddedIsLinked
<1>3. ASSUME NEW p \in Proc, Release(p), added' # added
      PROVE  /\ added' = added \cup {NewBlock(p)} /\ NewBlock(p).offset # 0
             /\ \E b \in DOMAIN head' : head'[b].next_block = NewBlock(p)
  <2>1. added' = added \cup {NewBlock(p)} /\ req[p].op # "walk" /\ rval[p] = "SUCCESS"
    BY <1>3 DEF Release
  <2>2. Adding(p)
    BY <1>3, <2>1 DEF IInv, TypeInv, TypeOK, LockInv, Release, Adding, Request
  <2>3. /\ Flush(p) /\ Appended(p) /\ pending[p] = LinkWrite(p) /\ cur[p] \in DOMAIN head
        /\ ib[p] = head[cur[p]]
    BY <1>3, <2>1, <2>2 DEF IInv, StreamInv, Release, LinksWritten
  <2>4. cur[p] \in Nat /\ pos[p] \in Nat /\ pos[p] # 0
    BY <2>3 DEF Appended, IInv, TypeInv, TypeOK
  <2>5. LinkWrite(p).kind = "head" /\ LinkWrite(p).at = cur[p]
        /\ LinkWrite(p).head.next_block = NewBlock(p)
    <3>1. ib[p] \in BlockHead
      BY DEF IInv, TypeInv, TypeOK
    <3> QED
      BY <3>1 DEF LinkWrite, LinkedByExtend, LinkedByAddLink, BlockHead
  <2>6. cur[p] \in DOMAIN head' /\ head'[cur[p]].next_block = NewBlock(p)
    BY <2>3, <2>5 DEF Flush
  <2> QED
    BY <2>1, <2>4, <2>6 DEF NewBlock
<1>4. added' = added \/ \E p \in Proc : Release(p)
  <2>1. ASSUME NEW p \in Proc, Advance(p) \/ SystemError(p), ~Release(p)
        PROVE  added' = added
    BY <2>1 DEF Advance, Tell, Locate, Grow, Settle, WriteHeader, Restore, Walk, ReadLink,
                WriteLink, ReadError, SystemError
  <2>2. ASSUME NEW p \in Proc, Crash(p) \/ \E r \in Roots : BeginWalk(p, r)
        PROVE  added' = added
    BY <2>2 DEF Crash, BeginWalk
  <2>3. ASSUME NEW p \in Proc, NEW op \in {"extend", "append"}, NEW r \in Roots,
               NEW t \in ChildTypes, NEW s \in Sizes, Begin(p, op, r, t, s)
        PROVE  added' = added
    BY <2>3 DEF Begin
  <2>4. CASE UNCHANGED vars
    BY <2>4 DEF vars
  <2> QED
    BY <2>1, <2>2, <2>3, <2>4 DEF Next, Step
<1>5. ASSUME NEW p \in Proc, Release(p), added' # added PROVE AddedInv'
    BY <1>1, <1>3, <1>5 DEF AddedInv, AddedIsLinked
<1> QED
    BY <1>2, <1>4, <1>5

(***************************************************************************)
(* A block whose addition was reported as a success is in its chain from   *)
(* then on, when neither of the two unchecked writes fails.                *)
(***************************************************************************)
THEOREM AddedStaysLinked ==
    HeadsWritten /\ LinksWritten => (ExclusiveSpec => []AddedIsLinked)
<1> SUFFICES ASSUME HeadsWritten, LinksWritten PROVE ExclusiveSpec => []AddedIsLinked
    OBVIOUS
<1>1. Init => ExclusiveAccess /\ AddedInv
    BY DEF Init, ExclusiveAccess, AddedInv, AddedIsLinked
<1>2. ExclusiveAccess /\ [Next /\ ExclusiveAccess']_vars => ExclusiveAccess'
    BY DEF vars, ExclusiveAccess
<1>3. IInv /\ AddedInv /\ ExclusiveAccess /\ [Next /\ ExclusiveAccess']_vars => AddedInv'
    BY AddedStep
<1>4. AddedInv => AddedIsLinked
    BY DEF AddedInv
<1> QED
    BY <1>1, <1>2, <1>3, <1>4, Invariance, PTL DEF ExclusiveSpec
=============================================================================
