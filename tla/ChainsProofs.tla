---------------------------- MODULE ChainsProofs ----------------------------
(***************************************************************************)
(* The block layer implements the append-only lists of Chains: its links,  *)
(* followed from the root of a chain to the end, are such a list, and the  *)
(* steps of the processes change it as Chains allows.                      *)
(***************************************************************************)
EXTENDS BlocksProofs, WellFoundedInduction

(* Induction on the offsets of a file *)

LEMMA Least ==
    ASSUME NEW T, T \subseteq Nat, T # {}
    PROVE  \E m \in T : \A k \in T : m <= k
<1> DEFINE R == {ss \in Nat \X Nat : ss[1] < ss[2]}
<1>1. IsWellFoundedOn(R, Nat)
    BY NatLessThanWellFounded DEF OpToRel
<1> HIDE DEF R
<1>2. PICK m \in T : \A k \in T : <<k, m>> \notin R
    BY <1>1, WFMin
<1>3. ASSUME NEW k \in T PROVE m <= k
  <2>1. m \in Nat /\ k \in Nat
    OBVIOUS
  <2>2. k < m => <<k, m>> \in R
    BY <2>1 DEF R
  <2> QED
    BY <1>2, <2>1, <2>2
<1> QED
    BY <1>3

LEMMA Greatest ==
    ASSUME NEW n \in Nat, NEW T, T \subseteq 0 .. n, T # {}
    PROVE  \E m \in T : \A k \in T : k <= m
<1> DEFINE U == {k \in Nat : n - k \in T}
<1>1. U \subseteq Nat /\ U # {}
  <2>1. PICK t \in T : TRUE
    OBVIOUS
  <2>2. n - t \in Nat /\ n - (n - t) = t
    OBVIOUS
  <2>3. n - t \in U
    BY <2>2
  <2> QED
    BY <2>3
<1>2. PICK u \in U : \A k \in U : u <= k
    BY <1>1, Least
<1>3. ASSUME NEW k \in T PROVE k <= n - u
  <2>1. k \in Nat /\ n - k \in Nat /\ n - (n - k) = k
    OBVIOUS
  <2>2. n - k \in U
    BY <2>1
  <2>3. u <= n - k /\ u \in Nat
    BY <1>2, <2>2
  <2> QED
    BY <2>1, <2>3
<1> QED
    BY <1>3

-----------------------------------------------------------------------------
(* Following the links of a file whose heads are h *)

(* They lead forward, to other heads. *)
LinksForward(h, n) ==
    /\ n \in Nat /\ DOMAIN h \subseteq 0 .. n
    /\ \A o \in DOMAIN h : PointsToChild(h[o]) =>
          /\ h[o].next_block \in BlockLoc
          /\ h[o].next_block.offset \in DOMAIN h
          /\ o < h[o].next_block.offset

(* What PathFrom is for the heads of the file. *)
Paths(h) ==
    CHOOSE f : f = [o \in DOMAIN h |->
        IF PointsToChild(h[o])
        THEN <<h[o].next_block>> \o f[h[o].next_block.offset]
        ELSE << >>]

(* There are such paths: those from the last k offsets make up one more. *)
LEMMA PathsExist ==
    ASSUME NEW h, NEW n, LinksForward(h, n)
    PROVE  Paths(h) = [o \in DOMAIN h |->
              IF PointsToChild(h[o])
              THEN <<h[o].next_block>> \o Paths(h)[h[o].next_block.offset]
              ELSE << >>]
<1> DEFINE Turn(f, o) == IF PointsToChild(h[o])
                         THEN <<h[o].next_block>> \o f[h[o].next_block.offset]
                         ELSE << >>
           Below(f, k) == f = [o \in DOMAIN h |-> IF k <= o THEN Turn(f, o) ELSE << >>]
           T == {k \in Nat : \E f : Below(f, k)}
<1>0. n \in Nat /\ \A o \in DOMAIN h : o \in Nat /\ o <= n
    BY DEF LinksForward
<1>1. n + 1 \in T
  <2>1. Below([o \in DOMAIN h |-> << >>], n + 1)
    BY <1>0
  <2> HIDE DEF Below
  <2> QED
    BY <1>0, <2>1
<1>2. PICK m \in T : \A k \in T : m <= k
  <2> HIDE DEF Below
  <2>1. T \subseteq Nat /\ T # {}
    BY <1>1
  <2> HIDE DEF T
  <2> QED
    BY <2>1, Least
<1>3. m \in Nat /\ \E f : Below(f, m)
  <2> HIDE DEF Below
  <2> QED
    OBVIOUS
<1>4. m = 0
  <2> SUFFICES ASSUME m # 0 PROVE FALSE
    OBVIOUS
  <2>1. PICK f : Below(f, m)
    BY <1>3
  <2> DEFINE g == [o \in DOMAIN h |-> IF m - 1 <= o THEN Turn(f, o) ELSE << >>]
  <2>2. ASSUME NEW o \in DOMAIN h, m - 1 <= o PROVE Turn(f, o) = Turn(g, o)
    <3>1. CASE PointsToChild(h[o])
      <4> DEFINE next == h[o].next_block.offset
      <4>1. next \in DOMAIN h /\ o < next /\ next \in Nat /\ o \in Nat
        BY <1>0, <3>1 DEF LinksForward
      <4>2. m <= next /\ m - 1 <= next
        BY <1>3, <2>2, <4>1
      <4>3. f[next] = Turn(f, next)
        BY <2>1, <4>1, <4>2
      <4>4. g[next] = Turn(f, next)
        BY <4>1, <4>2
      <4> HIDE DEF g
      <4> QED
        BY <3>1, <4>3, <4>4
    <3>2. CASE ~PointsToChild(h[o])
      BY <3>2
    <3> QED
      BY <3>1, <3>2
  <2>3. Below(g, m - 1)
    <3> HIDE DEF Turn
    <3> QED
      BY <2>2
  <2>4. m - 1 \in Nat
    BY <1>3
  <2> HIDE DEF g, Below
  <2>5. m - 1 \in T
    BY <2>3, <2>4
  <2> QED
    BY <1>2, <1>3, <2>4, <2>5
<1>5. PICK f : f = [o \in DOMAIN h |-> Turn(f, o)]
  <2>1. PICK f : Below(f, 0)
    BY <1>3, <1>4
  <2>2. \A o \in DOMAIN h : 0 <= o
    BY <1>0
  <2> HIDE DEF Turn
  <2> QED
    BY <2>1, <2>2
<1> QED
    BY <1>5 DEF Paths

(* One turn of a path, and what the rest of it is. *)
LEMMA PathTurn ==
    ASSUME NEW h, NEW n, LinksForward(h, n), NEW o \in DOMAIN h
    PROVE  /\ ~PointsToChild(h[o]) => Paths(h)[o] = << >>
           /\ PointsToChild(h[o]) =>
                Paths(h)[o] = <<h[o].next_block>> \o Paths(h)[h[o].next_block.offset]
BY PathsExist

LEMMA Prepend ==
    ASSUME NEW S, NEW e \in S, NEW s \in Seq(S)
    PROVE  /\ <<e>> \o s \in Seq(S)
           /\ Len(<<e>> \o s) = Len(s) + 1
           /\ (<<e>> \o s)[1] = e
           /\ \A i \in 1 .. Len(s) : (<<e>> \o s)[i + 1] = s[i]
           /\ \A x \in S : Append(<<e>> \o s, x) = <<e>> \o Append(s, x)
OBVIOUS

LEMMA PathsType ==
    ASSUME NEW h, NEW n, LinksForward(h, n), NEW o \in DOMAIN h
    PROVE  Paths(h)[o] \in Seq(BlockLoc)
<1> DEFINE T == {b \in DOMAIN h : Paths(h)[b] \notin Seq(BlockLoc)}
<1> SUFFICES ASSUME T # {} PROVE FALSE
    OBVIOUS
<1>1. PICK b \in T : \A c \in T : c <= b
  <2>1. T \subseteq 0 .. n /\ n \in Nat
    BY DEF LinksForward
  <2> HIDE DEF T
  <2> QED
    BY <2>1, Greatest
<1>2. PointsToChild(h[b])
  <2>1. b \in DOMAIN h /\ Paths(h)[b] \notin Seq(BlockLoc)
    OBVIOUS
  <2>2. ~PointsToChild(h[b]) => Paths(h)[b] = << >>
    BY <2>1, PathTurn
  <2>3. << >> \in Seq(BlockLoc)
    OBVIOUS
  <2> HIDE DEF T
  <2> QED
    BY <2>1, <2>2, <2>3
<1> DEFINE next == h[b].next_block
<1>3. next \in BlockLoc /\ next.offset \in DOMAIN h /\ b < next.offset
      /\ b \in Nat /\ next.offset \in Nat
    BY <1>2 DEF LinksForward
<1>4. Paths(h)[next.offset] \in Seq(BlockLoc)
    BY <1>1, <1>3
<1>5. Paths(h)[b] = <<next>> \o Paths(h)[next.offset]
    BY <1>2, PathTurn
<1>6. <<next>> \o Paths(h)[next.offset] \in Seq(BlockLoc)
    BY <1>3, <1>4, Prepend
<1> QED
    BY <1>5, <1>6

(* Block o lies on the path from block s. *)
OnPath(h, s, o) == o = s \/ \E i \in DOMAIN Paths(h)[s] : Paths(h)[s][i].offset = o

LEMMA OnPathTurn ==
    ASSUME NEW h, NEW n, LinksForward(h, n), NEW s \in DOMAIN h, NEW o,
           PointsToChild(h[s])
    PROVE  OnPath(h, s, o) <=> o = s \/ OnPath(h, h[s].next_block.offset, o)
<1> DEFINE next == h[s].next_block
           rest == Paths(h)[next.offset]
<1>1. next \in BlockLoc /\ next.offset \in DOMAIN h /\ rest \in Seq(BlockLoc)
    BY PathsType DEF LinksForward
<1>2. Paths(h)[s] = <<next>> \o rest
    BY PathTurn
<1> HIDE DEF next, rest
<1>3. /\ Paths(h)[s] \in Seq(BlockLoc) /\ Len(Paths(h)[s]) = Len(rest) + 1
      /\ Paths(h)[s][1] = next
      /\ \A i \in 1 .. Len(rest) : Paths(h)[s][i + 1] = rest[i]
    BY <1>1, <1>2, Prepend
<1>4. DOMAIN rest = 1 .. Len(rest) /\ DOMAIN Paths(h)[s] = 1 .. Len(rest) + 1
      /\ Len(rest) \in Nat
    BY <1>1, <1>3
<1>5. ASSUME NEW i \in DOMAIN Paths(h)[s]
      PROVE  Paths(h)[s][i] = next \/ \E j \in DOMAIN rest : Paths(h)[s][i] = rest[j]
  <2>1. CASE i = 1
    BY <1>3, <2>1
  <2>2. CASE i # 1
    <3>1. i - 1 \in 1 .. Len(rest) /\ (i - 1) + 1 = i
      BY <1>4, <2>2
    <3> QED
      BY <1>3, <1>4, <3>1
  <2> QED
    BY <2>1, <2>2
<1>6. ASSUME NEW j \in DOMAIN rest PROVE \E i \in DOMAIN Paths(h)[s] : Paths(h)[s][i] = rest[j]
  <2>1. j + 1 \in DOMAIN Paths(h)[s]
    BY <1>4
  <2> QED
    BY <1>3, <1>4, <2>1
<1>7. \E i \in DOMAIN Paths(h)[s] : Paths(h)[s][i] = next
    BY <1>3, <1>4
<1> QED
    BY <1>5, <1>6, <1>7 DEF OnPath, next, rest

(* Every element of a path is what some link of the file leads to. *)
LEMMA PathElement ==
    ASSUME NEW h, NEW n, LinksForward(h, n), NEW s \in DOMAIN h,
           NEW i \in DOMAIN Paths(h)[s]
    PROVE  \E b \in DOMAIN h : PointsToChild(h[b]) /\ Paths(h)[s][i] = h[b].next_block
<1> DEFINE Led(x) == \E b \in DOMAIN h : PointsToChild(h[b]) /\ x = h[b].next_block
           T == {o \in DOMAIN h : \E j \in DOMAIN Paths(h)[o] : ~Led(Paths(h)[o][j])}
<1> SUFFICES ASSUME T # {} PROVE FALSE
    OBVIOUS
<1>1. PICK o \in T : \A c \in T : c <= o
  <2>1. T \subseteq 0 .. n /\ n \in Nat
    BY DEF LinksForward
  <2> HIDE DEF T
  <2> QED
    BY <2>1, Greatest
<1>2. PICK j \in DOMAIN Paths(h)[o] : ~Led(Paths(h)[o][j])
    BY <1>1
<1>3. PointsToChild(h[o])
  <2>1. ~PointsToChild(h[o]) => Paths(h)[o] = << >>
    BY PathTurn
  <2> QED
    BY <1>2, <2>1
<1> DEFINE next == h[o].next_block
           rest == Paths(h)[next.offset]
<1>4. next \in BlockLoc /\ next.offset \in DOMAIN h /\ o < next.offset
      /\ o \in Nat /\ next.offset \in Nat
    BY <1>3 DEF LinksForward
<1>5. rest \in Seq(BlockLoc) /\ Paths(h)[o] = <<next>> \o rest
    BY <1>3, <1>4, PathTurn, PathsType
<1>6. \A k \in DOMAIN rest : Led(rest[k])
  <2> HIDE DEF Led
  <2> QED
    BY <1>1, <1>4
<1>7. Led(next)
    BY <1>3
<1> HIDE DEF Led, next, rest
<1>8. next \in BlockLoc
    BY <1>4
<1> QED
    BY <1>2, <1>5, <1>6, <1>7, <1>8, Prepend

(* What is on a path beyond its start is the child of a block on it. *)
LEMMA OnPathParent ==
    ASSUME NEW h, NEW n, LinksForward(h, n), NEW s \in DOMAIN h, NEW o,
           OnPath(h, s, o), o # s
    PROVE  \E b \in DOMAIN h : /\ PointsToChild(h[b]) /\ h[b].next_block.offset = o
                               /\ OnPath(h, s, b)
<1> DEFINE Parent(c) == \E b \in DOMAIN h : /\ PointsToChild(h[b])
                                            /\ h[b].next_block.offset = o
                                            /\ OnPath(h, c, b)
           T == {c \in DOMAIN h : OnPath(h, c, o) /\ o # c /\ ~Parent(c)}
<1> SUFFICES ASSUME T # {} PROVE FALSE
    OBVIOUS
<1>1. PICK c \in T : \A d \in T : d <= c
  <2>1. T \subseteq 0 .. n /\ n \in Nat
    BY DEF LinksForward
  <2> HIDE DEF T
  <2> QED
    BY <2>1, Greatest
<1>2. PointsToChild(h[c])
  <2>1. ~PointsToChild(h[c]) => Paths(h)[c] = << >>
    BY PathTurn
  <2>2. \E i \in DOMAIN Paths(h)[c] : Paths(h)[c][i].offset = o
    BY <1>1 DEF OnPath
  <2> QED
    BY <2>1, <2>2
<1> DEFINE next == h[c].next_block.offset
<1>3. next \in DOMAIN h /\ c < next /\ c \in Nat /\ next \in Nat
    BY <1>2 DEF LinksForward
<1>4. OnPath(h, next, o)
    BY <1>2, OnPathTurn
<1>5. CASE o = next
  <2>1. OnPath(h, c, c)
    BY DEF OnPath
  <2> QED
    BY <1>2, <1>5, <2>1
<1>6. CASE o # next
  <2>1. Parent(next)
    <3> HIDE DEF Parent
    <3> QED
      BY <1>1, <1>3, <1>4, <1>6
  <2>2. PICK b \in DOMAIN h : /\ PointsToChild(h[b]) /\ h[b].next_block.offset = o
                              /\ OnPath(h, next, b)
    BY <2>1
  <2>3. OnPath(h, c, b)
    BY <1>2, <2>2, OnPathTurn
  <2> QED
    BY <2>2, <2>3
<1> QED
    BY <1>5, <1>6

(* The child of a block on a path is on it. *)
LEMMA OnPathChild ==
    ASSUME NEW h, NEW n, LinksForward(h, n), NEW s \in DOMAIN h,
           NEW o \in DOMAIN h, OnPath(h, s, o), PointsToChild(h[o])
    PROVE  OnPath(h, s, h[o].next_block.offset)
<1> DEFINE child == h[o].next_block.offset
           T == {c \in DOMAIN h : OnPath(h, c, o) /\ ~OnPath(h, c, child)}
<1> SUFFICES ASSUME T # {} PROVE FALSE
    OBVIOUS
<1>1. PICK c \in T : \A d \in T : d <= c
  <2>1. T \subseteq 0 .. n /\ n \in Nat
    BY DEF LinksForward
  <2> HIDE DEF T
  <2> QED
    BY <2>1, Greatest
<1>2. PointsToChild(h[c])
  <2>1. ~PointsToChild(h[c]) => Paths(h)[c] = << >>
    BY PathTurn
  <2>2. c = o \/ \E i \in DOMAIN Paths(h)[c] : Paths(h)[c][i].offset = o
    BY <1>1 DEF OnPath
  <2> QED
    BY <2>1, <2>2
<1> DEFINE next == h[c].next_block.offset
<1>3. next \in DOMAIN h /\ c < next /\ c \in Nat /\ next \in Nat
    BY <1>2 DEF LinksForward
<1>4. OnPath(h, next, child)
  <2>1. CASE c = o
    BY <2>1 DEF OnPath
  <2>2. CASE c # o
    <3>1. OnPath(h, next, o)
      BY <1>1, <1>2, <2>2, OnPathTurn
    <3> QED
      BY <1>1, <1>3, <3>1
  <2> QED
    BY <2>1, <2>2
<1> QED
    BY <1>1, <1>2, <1>4, OnPathTurn

(* If no link leads to a start and no two to the same block, paths are apart. *)
LEMMA PathsApart ==
    ASSUME NEW h, NEW n, LinksForward(h, n), NEW R, R \subseteq DOMAIN h,
           \A b \in DOMAIN h : PointsToChild(h[b]) =>
              /\ h[b].next_block.offset \notin R
              /\ \A c \in DOMAIN h :
                    PointsToChild(h[c]) /\ h[c].next_block.offset = h[b].next_block.offset
                       => c = b,
           NEW r \in R, NEW s \in R, NEW o \in DOMAIN h, OnPath(h, r, o), OnPath(h, s, o)
    PROVE  r = s
<1> DEFINE T == {x \in DOMAIN h : OnPath(h, r, x) /\ OnPath(h, s, x)}
<1> SUFFICES ASSUME r # s PROVE FALSE
    OBVIOUS
<1>1. PICK x \in T : \A y \in T : x <= y
  <2>1. T \subseteq Nat /\ T # {}
    BY DEF LinksForward
  <2> HIDE DEF T
  <2> QED
    BY <2>1, Least
<1>2. ASSUME NEW t \in {r, s}, x # t
      PROVE  \E b \in DOMAIN h : /\ PointsToChild(h[b]) /\ h[b].next_block.offset = x
                                 /\ OnPath(h, t, b)
    BY <1>2, OnPathParent
<1>3. x # r /\ x # s
    BY <1>2
<1>4. PICK b \in DOMAIN h : /\ PointsToChild(h[b]) /\ h[b].next_block.offset = x
                            /\ OnPath(h, r, b)
    BY <1>2, <1>3
<1>5. PICK c \in DOMAIN h : /\ PointsToChild(h[c]) /\ h[c].next_block.offset = x
                            /\ OnPath(h, s, c)
    BY <1>2, <1>3
<1>6. b = c
    BY <1>4, <1>5
<1>7. b < x /\ b \in Nat /\ x \in Nat
    BY <1>4 DEF LinksForward
<1> QED
    BY <1>1, <1>4, <1>5, <1>6, <1>7

(* Another head in the file, which no link leads to, is on no path. *)
LEMMA NewHeadKeepsPaths ==
    ASSUME NEW h, NEW n, LinksForward(h, n), NEW g, NEW m, LinksForward(g, m),
           \A o \in DOMAIN h : o \in DOMAIN g /\ g[o] = h[o],
           NEW o \in DOMAIN h
    PROVE  Paths(g)[o] = Paths(h)[o]
<1> DEFINE T == {b \in DOMAIN h : Paths(g)[b] # Paths(h)[b]}
<1> SUFFICES ASSUME T # {} PROVE FALSE
    OBVIOUS
<1>1. PICK b \in T : \A c \in T : c <= b
  <2>1. T \subseteq 0 .. n /\ n \in Nat
    BY DEF LinksForward
  <2> HIDE DEF T
  <2> QED
    BY <2>1, Greatest
<1>2. b \in DOMAIN h /\ b \in DOMAIN g /\ g[b] = h[b] /\ Paths(g)[b] # Paths(h)[b]
    OBVIOUS
<1>3. PointsToChild(h[b])
  <2>1. ~PointsToChild(h[b]) => Paths(h)[b] = << >> /\ Paths(g)[b] = << >>
    BY <1>2, PathTurn
  <2> QED
    BY <1>2, <2>1
<1> DEFINE next == h[b].next_block
<1>4. next.offset \in DOMAIN h /\ b < next.offset /\ b \in Nat /\ next.offset \in Nat
    BY <1>2, <1>3 DEF LinksForward
<1>5. Paths(g)[next.offset] = Paths(h)[next.offset]
    BY <1>1, <1>4
<1>6. Paths(h)[b] = <<next>> \o Paths(h)[next.offset]
    BY <1>2, <1>3, PathTurn
<1>7. Paths(g)[b] = <<next>> \o Paths(g)[next.offset]
    BY <1>2, <1>3, PathTurn
<1> QED
    BY <1>2, <1>5, <1>6, <1>7

(* A link from the last block of a path extends it by what it leads to. *)
LEMMA LinkExtendsPath ==
    ASSUME NEW h, NEW n, LinksForward(h, n), NEW g, NEW m, LinksForward(g, m),
           DOMAIN g = DOMAIN h, NEW c \in DOMAIN h,
           \A o \in DOMAIN h : o # c => g[o] = h[o],
           ~PointsToChild(h[c]), PointsToChild(g[c]),
           ~PointsToChild(g[g[c].next_block.offset]),
           NEW o \in DOMAIN h
    PROVE  Paths(g)[o] = IF OnPath(h, o, c) THEN Append(Paths(h)[o], g[c].next_block)
                         ELSE Paths(h)[o]
<1> DEFINE x == g[c].next_block
           Extended(b) == Paths(g)[b] = IF OnPath(h, b, c) THEN Append(Paths(h)[b], x)
                                        ELSE Paths(h)[b]
           T == {b \in DOMAIN h : ~Extended(b)}
<1> SUFFICES ASSUME T # {} PROVE FALSE
    OBVIOUS
<1>1. PICK b \in T : \A d \in T : d <= b
  <2>1. T \subseteq 0 .. n /\ n \in Nat
    BY DEF LinksForward
  <2> HIDE DEF T
  <2> QED
    BY <2>1, Greatest
<1>2. b \in DOMAIN h /\ ~Extended(b)
    OBVIOUS
<1>3. CASE b = c
  <2>1. x \in BlockLoc /\ x.offset \in DOMAIN g
    BY DEF LinksForward
  <2>2. Paths(g)[x.offset] = << >>
    BY <2>1, PathTurn
  <2>3. Paths(g)[c] = <<x>> \o << >>
    <3>1. c \in DOMAIN g /\ PointsToChild(g[c])
      OBVIOUS
    <3>2. Paths(g)[c] = <<x>> \o Paths(g)[x.offset]
      BY <3>1, PathTurn
    <3> QED
      BY <2>2, <3>2
  <2>4. Paths(h)[c] = << >>
    BY PathTurn
  <2>5. OnPath(h, c, c)
    BY DEF OnPath
  <2>6. <<x>> \o << >> = Append(<< >>, x)
    BY <2>1
  <2> QED
    BY <1>2, <1>3, <2>3, <2>4, <2>5, <2>6
<1>4. CASE b # c /\ ~PointsToChild(h[b])
  <2>1. Paths(h)[b] = << >> /\ Paths(g)[b] = << >>
    BY <1>2, <1>4, PathTurn
  <2>2. ~OnPath(h, b, c)
    BY <1>4, <2>1 DEF OnPath
  <2> QED
    BY <1>2, <2>1, <2>2
<1>5. CASE b # c /\ PointsToChild(h[b])
  <2> DEFINE next == h[b].next_block
             rest == Paths(h)[next.offset]
  <2>1. next \in BlockLoc /\ next.offset \in DOMAIN h /\ b < next.offset
        /\ b \in Nat /\ next.offset \in Nat
    BY <1>2, <1>5 DEF LinksForward
  <2>2. Extended(next.offset)
    <3> HIDE DEF Extended
    <3> QED
      BY <1>1, <2>1
  <2>3. Paths(h)[b] = <<next>> \o rest /\ rest \in Seq(BlockLoc)
    BY <1>2, <1>5, <2>1, PathTurn, PathsType
  <2>4. Paths(g)[b] = <<next>> \o Paths(g)[next.offset]
    BY <1>2, <1>5, PathTurn
  <2>5. OnPath(h, b, c) <=> OnPath(h, next.offset, c)
    BY <1>2, <1>5, OnPathTurn
  <2>6. x \in BlockLoc
    BY DEF LinksForward
  <2>7. Append(<<next>> \o rest, x) = <<next>> \o Append(rest, x)
    <3> HIDE DEF next, x, rest
    <3> QED
      BY <2>1, <2>3, <2>6
  <2> QED
    BY <1>2, <2>2, <2>3, <2>4, <2>5, <2>7
<1> QED
    BY <1>3, <1>4, <1>5

-----------------------------------------------------------------------------
(* The chains of the file *)

LEMMA HeadsForward == IInv => LinksForward(head, size)
<1> SUFFICES ASSUME IInv PROVE LinksForward(head, size)
    OBVIOUS
<1>1. \A b \in DOMAIN head :
         /\ b \in Nat /\ head[b].next_block \in BlockLoc
         /\ Extent(head[b]) \in Nat
    BY ExtentType DEF IInv, TypeInv, TypeOK, BlockHead
<1>2. size \in Nat /\ \A b \in DOMAIN head : b <= size
    BY <1>1 DEF IInv, TypeInv, TypeOK, BlocksDisjoint
<1> QED
    BY <1>1, <1>2 DEF LinksForward, IInv, LinkTargetsReady, LinksFormLists, Linked

LEMMA PathFromIsPath == PathFrom = Paths(head)
BY DEF PathFrom, Paths

LEMMA NextPathFromIsPath == PathFrom' = Paths(head')
BY DEF PathFrom, Paths

(* The first block of a chain and those after it. *)
Root(r) == [offset |-> r, size |-> head[r].block_size]

LEMMA ListsArePaths ==
    /\ Lists = [r \in Roots |-> <<Root(r)>> \o Paths(head)[r]]
    /\ Lists' = [r \in Roots |-> <<Root(r)'>> \o Paths(head')[r]]
BY PathFromIsPath, NextPathFromIsPath DEF Lists, ChainOf, Root

(* The offsets are those of the bounded model that Chains is compared with. *)
InBounds ==
    \A p \in Proc :
        /\ pos[p] <= MaxFile
        /\ Adding(p) => req[p].block_size \in Sizes
        /\ Adding(p) /\ pc[p] = "tell" => size <= MaxFile

LEMMA InBoundsStep ==
    ASSUME IInv, HeadsWritten, ExclusiveAccess, InBounds, [Next]_vars
    PROVE  InBounds'
<1>0. /\ pc \in [Proc -> Calls \cup {"idle"}] /\ req \in [Proc -> Request]
      /\ pos \in [Proc -> Nat] /\ size \in Nat /\ MaxFile \in Nat
    BY BlocksAssumption DEF IInv, TypeInv, TypeOK
<1>1. ASSUME NEW p \in Proc, StepBy(p), NEW q \in Proc
      PROVE  /\ pos'[q] <= MaxFile
             /\ Adding(q)' => req'[q].block_size \in Sizes
             /\ Adding(q)' /\ pc'[q] = "tell" => size' <= MaxFile
  <2>1. CASE q # p
    <3>1. pos'[q] = pos[q] /\ req'[q] = req[q] /\ pc'[q] = pc[q] /\ Adding(q)' = Adding(q)
      BY <1>1, <2>1, OthersSame DEF IInv, TypeInv, StepBy, Same, Adding
    <3>2. Adding(q) => UNCHANGED file
      BY <1>1, <2>1, StepEffect, Alone DEF IInv
    <3> QED
      BY <3>1, <3>2 DEF InBounds, file
  <2>2. CASE q = p
    <3>1. ASSUME NEW op \in {"extend", "append"}, NEW r \in Roots,
                 NEW t \in ChildTypes, NEW s \in Sizes, Begin(p, op, r, t, s)
          PROVE  /\ pos' = pos /\ size' = size /\ req'[p].block_size = s
                 /\ size + s <= MaxFile /\ s \in Nat
      BY <1>0, <3>1, BlocksAssumption DEF Begin, file
    <3>2. CASE \E r \in Roots : BeginWalk(p, r)
      <4>1. pos' = pos /\ ~Adding(p)'
        BY <1>0, <3>2 DEF BeginWalk, Adding, NoRequest
      <4> QED
        BY <2>2, <4>1 DEF InBounds
    <3>3. CASE Release(p) \/ Crash(p)
      <4>1. pos'[p] = 0 /\ ~Adding(p)'
        BY <1>0, <3>3 DEF Release, Crash, Finish, Adding, NoRequest
      <4> QED
        BY <1>0, <2>2, <4>1
    <3>4. CASE Tell(p)
      <4>1. pos'[p] = size /\ req' = req /\ pc'[p] = "locate" /\ Adding(p)
        BY <1>0, <3>4 DEF Tell, Goto, IInv, LockInv
      <4> QED
        BY <2>2, <3>4, <4>1 DEF InBounds, Tell, Adding
    <3>5. CASE Step(p) /\ ~Release(p) /\ ~Tell(p)
      <4>1. pos' = pos /\ req' = req /\ pc'[p] # "tell"
        BY <1>0, <3>5
        DEF Step, Advance, Locate, Grow, Settle, WriteHeader, Restore, Walk, ReadLink,
            WriteLink, ReadError, SystemError, Goto, Return
      <4> QED
        BY <2>2, <4>1 DEF InBounds, Adding
    <3>6. CASE \E op \in {"extend", "append"}, r \in Roots, t \in ChildTypes, s \in Sizes :
                  Begin(p, op, r, t, s)
      BY <1>0, <2>2, <3>1, <3>6 DEF InBounds
    <3> QED
      BY <1>1, <3>2, <3>3, <3>4, <3>5, <3>6 DEF StepBy, Step, Advance
  <2> QED
    BY <2>1, <2>2
<1>2. CASE UNCHANGED vars
    BY <1>2 DEF vars, InBounds, Adding
<1> QED
    BY <1>1, <1>2 DEF Next, StepBy, InBounds

(* All blocks of the chains are blocks of the file that end before pos[p]. *)
LEMMA ListedBefore ==
    ASSUME IInv, NEW p \in Proc, Appended(p),
           NEW r \in Roots, NEW i \in DOMAIN Lists[r]
    PROVE  Lists[r][i].offset + Lists[r][i].size <= pos[p]
<1>0. LinksForward(head, size) /\ r \in DOMAIN head
    BY HeadsForward DEF IInv
<1>1. ASSUME NEW b \in DOMAIN head, b # pos[p]
      PROVE  b + head[b].block_size <= pos[p]
  <2>1. /\ b \in Nat /\ head[b] \in BlockHead /\ pos[p] \in Nat /\ head[b].block_size \in Nat
        /\ Extent(head[b]) \in Nat /\ head[b].block_size <= Extent(head[b])
    BY ExtentType DEF IInv, TypeInv, TypeOK, BlockHead
  <2>2. b < pos[p] /\ pos[p] \in DOMAIN head
    BY <1>1, <2>1 DEF Appended
  <2>3. b + Extent(head[b]) <= pos[p]
    BY <2>2 DEF IInv, BlocksDisjoint
  <2> QED
    BY <2>1, <2>3
<1>2. r + head[r].block_size <= pos[p]
    BY <1>0, <1>1 DEF Appended
<1>3. ASSUME NEW j \in DOMAIN Paths(head)[r]
      PROVE  Paths(head)[r][j].offset + Paths(head)[r][j].size <= pos[p]
  <2>1. PICK b \in DOMAIN head : PointsToChild(head[b])
                                 /\ Paths(head)[r][j] = head[b].next_block
    BY <1>0, PathElement
  <2>2. /\ head[b].next_block.offset \in DOMAIN head
        /\ head[head[b].next_block.offset].block_size = head[b].next_block.size
        /\ head[b].next_block.offset # pos[p]
    BY <2>1 DEF IInv, LinkTargetsReady, Linked, Appended
  <2> QED
    BY <1>1, <2>1, <2>2
<1>4. Lists[r] = <<Root(r)>> \o Paths(head)[r] /\ Paths(head)[r] \in Seq(BlockLoc)
      /\ Root(r) \in BlockLoc
    BY <1>0, ListsArePaths, PathsType, BlocksAssumption
    DEF Root, BlockLoc, IInv, TypeInv, TypeOK, BlockHead
<1>5. Lists[r][i] = Root(r) \/ \E j \in DOMAIN Paths(head)[r] : Lists[r][i] = Paths(head)[r][j]
  <2> DEFINE rest == Paths(head)[r]
  <2> HIDE DEF rest
  <2>1. Lists[r] = <<Root(r)>> \o rest /\ rest \in Seq(BlockLoc) /\ Root(r) \in BlockLoc
    BY <1>4 DEF rest
  <2>2. i = 1 \/ (i - 1 \in 1 .. Len(rest) /\ (i - 1) + 1 = i)
    BY <2>1
  <2>3. DOMAIN rest = 1 .. Len(rest)
    BY <2>1
  <2>4. Lists[r][i] = Root(r) \/ \E j \in DOMAIN rest : Lists[r][i] = rest[j]
    BY <2>1, <2>2, <2>3, Prepend
  <2> QED
    BY <2>4 DEF rest
<1> QED
    BY <1>2, <1>3, <1>5 DEF Root

(* A new link of the chain it is in makes the new block the last of that chain. *)
LEMMA LinkAddedLists ==
    ASSUME IInv, IInv', NEW p \in Proc, LinkAdded(p), NEW r \in Roots
    PROVE  /\ Paths(head)[r] \in Seq(BlockLoc) /\ NewBlock(p) \in BlockLoc
           /\ Paths(head')[r] = IF OnPath(head, r, cur[p])
                                THEN Append(Paths(head)[r], NewBlock(p))
                                ELSE Paths(head)[r]
           /\ Lists'[r] = IF OnPath(head, r, cur[p]) THEN Append(Lists[r], NewBlock(p))
                          ELSE Lists[r]
<1> DEFINE x == NewBlock(p)
<1>0. /\ LinksForward(head, size) /\ LinksForward(head, size)'
      /\ Roots \subseteq DOMAIN head /\ cur[p] \in DOMAIN head
      /\ pos[p] \in Nat /\ pos[p] \in DOMAIN head /\ cur[p] < pos[p] /\ cur[p] \in Nat
  <2>1. LinksForward(head, size)'
    BY HeadsForward, PTL
  <2> QED
    BY <2>1, HeadsForward DEF IInv, StreamInv, LinkAdded, Appended, TypeInv, TypeOK
<1>1. /\ DOMAIN head' = DOMAIN head
      /\ \A o \in DOMAIN head : o # cur[p] => head'[o] = head[o]
      /\ ~PointsToChild(head[cur[p]]) /\ PointsToChild(head'[cur[p]])
      /\ head'[cur[p]].next_block = x
    BY <1>0 DEF LinkAdded, PointsToChild, NewBlock
<1>2. ~PointsToChild(head'[head'[cur[p]].next_block.offset])
  <2>1. ASSUME PointsToChild(head[pos[p]]) PROVE FALSE
    <3>1. /\ pos[p] < head[pos[p]].next_block.offset
          /\ head[pos[p]].next_block.offset \in DOMAIN head
      BY <1>0, <2>1 DEF LinksForward
    <3>2. head[pos[p]].next_block.offset <= pos[p] /\ head[pos[p]].next_block.offset \in Nat
      BY <1>0, <3>1 DEF LinkAdded, Appended, LinksForward
    <3> QED
      BY <1>0, <3>1, <3>2
  <2>2. head'[pos[p]] = head[pos[p]]
    BY <1>0, <1>1
  <2>3. head'[cur[p]].next_block.offset = pos[p]
    BY <1>1 DEF NewBlock
  <2> QED
    BY <2>1, <2>2, <2>3
<1>3. /\ Root(r)' = Root(r) /\ Root(r) \in BlockLoc /\ x \in BlockLoc
      /\ Paths(head)[r] \in Seq(BlockLoc)
      /\ Paths(head')[r] = IF OnPath(head, r, cur[p]) THEN Append(Paths(head)[r], x)
                           ELSE Paths(head)[r]
  <2>1. head'[r].block_size = head[r].block_size
    BY <1>0 DEF LinkAdded
  <2>2. Root(r) \in BlockLoc /\ x \in BlockLoc
    BY <1>0 DEF Root, NewBlock, BlockLoc, IInv, TypeInv, TypeOK, BlockHead, Request,
                LinksForward
  <2>3. Paths(head)[r] \in Seq(BlockLoc)
    BY <1>0, PathsType
  <2>4. Paths(head')[r] = IF OnPath(head, r, cur[p])
                          THEN Append(Paths(head)[r], head'[cur[p]].next_block)
                          ELSE Paths(head)[r]
    <3>1. r \in DOMAIN head
      BY <1>0
    <3> QED
      BY <1>0, <1>1, <1>2, <3>1, LinkExtendsPath
  <2> QED
    BY <1>1, <2>1, <2>2, <2>3, <2>4 DEF Root
<1>4. Lists'[r] = IF OnPath(head, r, cur[p]) THEN Append(Lists[r], x) ELSE Lists[r]
  <2> DEFINE path == Paths(head)[r]
  <2>1. Lists'[r] = <<Root(r)>> \o Paths(head')[r] /\ Lists[r] = <<Root(r)>> \o path
    BY <1>3, ListsArePaths
  <2> HIDE DEF path, x
  <2>2. Append(<<Root(r)>> \o path, x) = <<Root(r)>> \o Append(path, x)
    <3>1. path \in Seq(BlockLoc) /\ Root(r) \in BlockLoc /\ x \in BlockLoc
      BY <1>3 DEF path
    <3> QED
      BY <3>1
  <2> QED
    BY <1>3, <2>1, <2>2 DEF path
<1> QED
    BY <1>3, <1>4

(* A block is in one chain at most. *)
LEMMA ChainsApart ==
    ASSUME IInv, NEW o \in DOMAIN head, NEW r \in Roots, NEW s \in Roots,
           OnPath(head, r, o), OnPath(head, s, o)
    PROVE  r = s
<1>1. \A b \in DOMAIN head : PointsToChild(head[b]) =>
        /\ head[b].next_block.offset \notin Roots
        /\ \A c \in DOMAIN head :
              PointsToChild(head[c])
              /\ head[c].next_block.offset = head[b].next_block.offset => c = b
    BY DEF IInv, LinksFormLists, Linked
<1>2. LinksForward(head, size) /\ Roots \subseteq DOMAIN head
    BY HeadsForward DEF IInv
<1> QED
    BY <1>1, <1>2, PathsApart

(* It lies beyond all others, as Chains asks. *)
LEMMA LinkAddedStep ==
    ASSUME IInv, IInv', InBounds, NEW p \in Proc, Adding(p), LinkAdded(p)
    PROVE  [AbstractChains!Next]_Lists
<1> DEFINE x == NewBlock(p)
<1>0. cur[p] \in DOMAIN head /\ pos[p] \in Nat
    BY DEF IInv, StreamInv, TypeInv, TypeOK
<1>1. ASSUME NEW r \in Roots
      PROVE  Lists'[r] = IF OnPath(head, r, cur[p]) THEN Append(Lists[r], x) ELSE Lists[r]
    BY LinkAddedLists
<1>2. Lists = [r \in Roots |-> Lists[r]] /\ Lists' = [r \in Roots |-> Lists'[r]]
    BY DEF Lists
<1>3. CASE \A r \in Roots : ~OnPath(head, r, cur[p])
    BY <1>1, <1>2, <1>3
<1>4. ASSUME NEW r \in Roots, OnPath(head, r, cur[p])
      PROVE  AbstractChains!Next
  <2>1. \A s \in Roots : s # r => ~OnPath(head, s, cur[p])
    BY <1>0, <1>4, ChainsApart
  <2>2. Lists' = [Lists EXCEPT ![r] = Append(@, x)]
    <3> HIDE DEF x
    <3> QED
      BY <1>1, <1>2, <1>4, <2>1
  <2>3. \A b \in AbstractChains!AllBlocks : b.offset + b.size <= x.offset
    BY ListedBefore DEF AbstractChains!AllBlocks, LinkAdded, NewBlock
  <2>4. x \in [offset : Offsets, size : Sizes]
    <3>1. pos[p] \in 0 .. MaxFile /\ pos[p] % ChunkSize = 0
      BY <1>0, BlocksAssumption DEF InBounds, IInv, BlocksAligned, LinkAdded, Appended
    <3> QED
      BY <3>1 DEF InBounds, Offsets, NewBlock
  <2> QED
    BY <2>2, <2>3, <2>4 DEF AbstractChains!Next, AbstractChains!AddLink
<1> QED
    BY <1>3, <1>4

(* The head of a new block, which nothing links, changes no chain. *)
LEMMA BlockWrittenKeepsLists ==
    ASSUME IInv, IInv', NEW p \in Proc, BlockWritten(p)
    PROVE  Lists' = Lists
<1>1. \A b \in DOMAIN head : b \in DOMAIN head' /\ head'[b] = head[b]
    BY BlockWrittenKeepsHeads
<1>2. LinksForward(head, size) /\ LinksForward(head, size)'
    BY HeadsForward, PTL
<1>3. ASSUME NEW r \in Roots
      PROVE  Root(r)' = Root(r) /\ Paths(head')[r] = Paths(head)[r]
  <2>1. r \in DOMAIN head
    BY DEF IInv
  <2>2. Root(r)' = Root(r)
    BY <1>1, <2>1 DEF Root
  <2> QED
    BY <1>1, <1>2, <2>1, <2>2, NewHeadKeepsPaths
<1> QED
    BY <1>3, ListsArePaths

LEMMA ListsStep ==
    ASSUME IInv, IInv', HeadsWritten, InBounds, [Next]_vars
    PROVE  [AbstractChains!Next]_Lists
<1>1. CASE head' = head
    BY <1>1, ListsArePaths DEF Root
<1>2. ASSUME NEW p \in Proc, BlockWritten(p) PROVE Lists' = Lists
    BY <1>2, BlockWrittenKeepsLists
<1>3. ASSUME NEW p \in Proc, StepBy(p), head' # head
      PROVE  BlockWritten(p) \/ (Adding(p) /\ LinkAdded(p))
    BY <1>3, StepEffect DEF SpaceAdded, file
<1>4. CASE UNCHANGED vars
    BY <1>1, <1>4 DEF vars
<1> QED
    BY <1>1, <1>2, <1>3, <1>4, LinkAddedStep DEF Next, StepBy

-----------------------------------------------------------------------------
(* Who changes a chain *)

(* The link a process is at, or was at last, is of the chain it worked on. *)
OnChain == \A p \in Proc : OnPath(head, req[p].chain, cur[p])

LEMMA OnPathKept ==
    ASSUME IInv, IInv', HeadsWritten, NEW p \in Proc, StepBy(p),
           NEW r \in Roots, NEW o, OnPath(head, r, o)
    PROVE  OnPath(head', r, o)
<1>0. /\ LinksForward(head, size) /\ LinksForward(head, size)' /\ r \in DOMAIN head
  <2>1. LinksForward(head, size)'
    BY HeadsForward, PTL
  <2> QED
    BY <2>1, HeadsForward DEF IInv
<1>1. CASE head' = head
    BY <1>1
<1>2. CASE BlockWritten(p)
  <2>1. \A b \in DOMAIN head : b \in DOMAIN head' /\ head'[b] = head[b]
    BY <1>2, BlockWrittenKeepsHeads
  <2>2. Paths(head')[r] = Paths(head)[r]
    BY <1>0, <2>1, NewHeadKeepsPaths
  <2> QED
    BY <2>2 DEF OnPath
<1>3. CASE LinkAdded(p)
  <2> DEFINE path == Paths(head)[r]
             x == NewBlock(p)
  <2>1. path \in Seq(BlockLoc) /\ x \in BlockLoc
        /\ (Paths(head')[r] = Append(path, x) \/ Paths(head')[r] = path)
    BY <1>3, LinkAddedLists
  <2>2. o = r \/ \E i \in DOMAIN path : path[i].offset = o
    BY DEF OnPath
  <2> HIDE DEF path, x
  <2>3. \A i \in DOMAIN path : i \in DOMAIN Append(path, x) /\ Append(path, x)[i] = path[i]
    BY <2>1
  <2> QED
    BY <2>1, <2>2, <2>3 DEF OnPath
<1> QED
    BY <1>1, <1>2, <1>3, StepEffect DEF SpaceAdded, file

LEMMA OnChainStep ==
    ASSUME IInv, IInv', HeadsWritten, OnChain, [Next]_vars
    PROVE  OnChain'
<1>0. /\ req \in [Proc -> Request] /\ cur \in [Proc -> Nat] /\ 0 \in Roots
      /\ LinksForward(head, size) /\ Roots \subseteq DOMAIN head
      /\ req' \in [Proc -> Request]
    BY BlocksAssumption, HeadsForward DEF IInv, TypeInv, TypeOK
<1>s. \A r : OnPath(head, r, r)
    BY DEF OnPath
<1>1. ASSUME NEW p \in Proc, StepBy(p), NEW q \in Proc
      PROVE  OnPath(head, req'[q].chain, cur'[q])
  <2>1. CASE q # p
    BY <1>1, <2>1, OthersSame DEF IInv, TypeInv, StepBy, Same, OnChain
  <2>2. CASE q = p /\ \E op \in {"extend", "append"}, r \in Roots, t \in ChildTypes, s \in Sizes :
                        Begin(p, op, r, t, s)
    <3>1. PICK op \in {"extend", "append"}, r \in Roots, t \in ChildTypes, s \in Sizes :
            Begin(p, op, r, t, s)
      BY <2>2
    <3>2. req'[p].chain = r /\ cur'[p] = IF op = "append" THEN r ELSE cur[p]
      BY <1>0, <3>1 DEF Begin
    <3>3. CASE op = "append"
      BY <1>s, <2>2, <3>2, <3>3
    <3>4. CASE op = "extend"
      <4>1. req[p].chain = r
        BY <3>1, <3>4 DEF Begin, LocksChainOfLink
      <4> QED
        BY <2>2, <3>2, <3>4, <4>1 DEF OnChain
    <3> QED
      BY <3>3, <3>4
  <2>3. CASE q = p /\ \E r \in Roots : BeginWalk(p, r)
    BY <1>0, <1>s, <2>3 DEF BeginWalk, NoRequest
  <2>4. CASE q = p /\ Crash(p)
    BY <1>0, <1>s, <2>4 DEF Crash, NoRequest
  <2>5. CASE q = p /\ Walk(p) /\ cur' # cur
    <3>1. /\ PointsToChild(ReadHead(cur[p])) /\ req' = req
          /\ cur'[p] = ReadHead(cur[p]).next_block.offset
      BY <1>0, <2>5 DEF Walk
    <3>2. cur[p] \in DOMAIN head /\ ReadHead(cur[p]) = head[cur[p]]
      BY DEF IInv, StreamInv, ReadHead
    <3>3. req[p].chain \in DOMAIN head
      BY <1>0 DEF Request
    <3> QED
      BY <1>0, <2>5, <3>1, <3>2, <3>3, OnPathChild DEF OnChain
  <2>6. CASE q = p /\ Step(p) /\ ~(Walk(p) /\ cur' # cur)
    <3>1. req'[p].chain = req[p].chain /\ cur' = cur
      BY <1>0, <2>6
      DEF Step, Advance, Tell, Locate, Grow, Settle, WriteHeader, Restore, Walk, ReadLink,
          WriteLink, Release, ReadError, SystemError, NoRequest
    <3> QED
      BY <2>6, <3>1 DEF OnChain
  <2> QED
    BY <1>1, <2>1, <2>2, <2>3, <2>4, <2>5, <2>6 DEF StepBy
<1>2. ASSUME NEW p \in Proc, StepBy(p), NEW q \in Proc
      PROVE  OnPath(head', req'[q].chain, cur'[q])
  <2>1. req'[q].chain \in Roots
    BY <1>0 DEF Request
  <2> QED
    BY <1>1, <1>2, <2>1, OnPathKept
<1>3. CASE UNCHANGED vars
    BY <1>3 DEF vars, OnChain, OnPath
<1> QED
    BY <1>2, <1>3 DEF Next, StepBy, OnChain, OnPath

LEMMA ChangeStep ==
    ASSUME IInv, IInv', HeadsWritten, OnChain, [Next]_vars,
           NEW r \in Roots, ChainOf(r)' # ChainOf(r)
    PROVE  \E p \in Proc : lock[r] = p /\ pc'[p] # pc[p]
<1>1. Lists'[r] # Lists[r]
    BY DEF Lists
<1>2. head' # head
    BY <1>1, ListsArePaths DEF Root
<1>3. PICK p \in Proc : StepBy(p)
    BY <1>2 DEF Next, StepBy, vars, file
<1>4. Adding(p) /\ (BlockWritten(p) \/ LinkAdded(p))
    BY <1>2, <1>3, StepEffect DEF SpaceAdded, file
<1>5. ~BlockWritten(p)
    BY <1>1, BlockWrittenKeepsLists
<1>6. OnPath(head, r, cur[p])
    BY <1>1, <1>4, <1>5, LinkAddedLists
<1>7. req[p].chain = r
  <2>1. cur[p] \in DOMAIN head /\ req[p].chain \in Roots
    BY DEF IInv, StreamInv, TypeInv, TypeOK, Request
  <2> QED
    BY <1>6, <2>1, ChainsApart DEF OnChain
<1>8. lock[r] = p
    BY <1>4, <1>7 DEF IInv, LockInv
<1>9. pc'[p] # pc[p]
  <2>1. pc \in [Proc -> Calls \cup {"idle"}]
    BY DEF IInv, TypeInv, TypeOK
  <2>2. Settle(p) \/ Restore(p) \/ Release(p)
    BY <1>2, <1>3
    DEF StepBy, Step, Advance, Begin, BeginWalk, Tell, Locate, Grow, WriteHeader, Walk,
        ReadLink, WriteLink, SystemError, ReadError, Crash, LoseWrite, file
  <2> QED
    BY <2>1, <2>2 DEF Settle, Restore, Release, Finish, Goto
<1> QED
    BY <1>8, <1>9

-----------------------------------------------------------------------------
(* The theorems *)

LEMMA InitLists == Init => AbstractChains!Init
<1> SUFFICES ASSUME Init PROVE AbstractChains!Init
    OBVIOUS
<1>1. IInv /\ DOMAIN head = Roots
    BY InitInv DEF Init
<1>2. \A r \in Roots : head[r].next_block = NoBlock /\ head[r].block_size = ChunkSize
  <2>1. \A r \in Roots : head[r] \in {PrepHeadFile(ChunkSize), SetInfoBlock("FILE", ChunkSize),
                                      SetInfoBlock("GENERIC", ChunkSize)}
    BY DEF Init
  <2> QED
    BY <2>1 DEF PrepHeadFile, SetInfoBlock
<1>3. ASSUME NEW r \in Roots PROVE Paths(head)[r] = << >>
  <2>1. ~PointsToChild(head[r])
    BY <1>2 DEF PointsToChild, NoBlock
  <2> QED
    BY <1>1, <2>1, HeadsForward, PathTurn
<1>4. Lists = [r \in Roots |-> <<[offset |-> r, size |-> ChunkSize]>>]
  <2>1. ASSUME NEW r \in Roots
        PROVE  <<Root(r)>> \o Paths(head)[r] = <<[offset |-> r, size |-> ChunkSize]>>
    <3>1. Root(r) = [offset |-> r, size |-> ChunkSize]
      BY <1>2 DEF Root
    <3>2. ASSUME NEW e PROVE <<e>> \o << >> = <<e>>
      OBVIOUS
    <3> QED
      BY <1>3, <3>1, <3>2
  <2> QED
    BY <2>1, ListsArePaths
<1> QED
    BY <1>4 DEF AbstractChains!Init

(***************************************************************************)
(* blocks_append_block, blocks_extend_chain and chains_add_link implement  *)
(* append-only lists of disjoint blocks, whoever fails or dies at any of   *)
(* their stdio calls: a step adds a block that lies beyond all others at   *)
(* the end of one list, or changes no list.                                *)
(***************************************************************************)
THEOREM Implementation == HeadsWritten => (ExclusiveSpec => ImplementsChains)
<1> SUFFICES ASSUME HeadsWritten PROVE ExclusiveSpec => AbstractChains!Spec
    BY DEF ImplementsChains
<1>1. Init => InBounds /\ ExclusiveAccess
    BY BlocksAssumption DEF Init, InBounds, ExclusiveAccess, Adding, NoRequest
<1>2. IInv /\ InBounds /\ ExclusiveAccess /\ [Next /\ ExclusiveAccess']_vars
        => InBounds' /\ ExclusiveAccess'
    BY InBoundsStep DEF vars, ExclusiveAccess
<1>3. IInv /\ IInv' /\ InBounds /\ [Next /\ ExclusiveAccess']_vars
        => [AbstractChains!Next]_Lists
    BY ListsStep
<1>4. Init => AbstractChains!Init
    BY InitLists
<1> QED
    BY <1>1, <1>2, <1>3, <1>4, Invariance, PTL DEF ExclusiveSpec, AbstractChains!Spec

(* A file with one chain needs no exclusion but the lock of that chain. *)
THEOREM SingleChainImplements ==
    HeadsWritten /\ Roots = {0} => (Spec => ImplementsChains)
BY Implementation, SingleChainIsExclusive, PTL

(***************************************************************************)
(* Only the process that holds the lock of a chain changes the chain: the  *)
(* link it was given is one of that chain, however long ago it found it,   *)
(* and no block is ever in two chains.                                     *)
(***************************************************************************)
THEOREM LockGuardsChain == HeadsWritten => (ExclusiveSpec => ChangedByLockHolder)
<1> SUFFICES ASSUME HeadsWritten PROVE ExclusiveSpec => ChangedByLockHolder
    OBVIOUS
<1> DEFINE Guarded == \A r \in Roots : ChainOf(r)' # ChainOf(r) =>
                          \E p \in Proc : lock[r] = p /\ pc'[p] # pc[p]
<1>1. Init => OnChain
    BY DEF Init, OnChain, OnPath, NoRequest
<1>2. IInv /\ IInv' /\ OnChain /\ [Next /\ ExclusiveAccess']_vars => OnChain'
    BY OnChainStep
<1>3. IInv /\ IInv' /\ OnChain /\ [Next /\ ExclusiveAccess']_vars => [Guarded]_vars
    BY ChangeStep
<1> QED
    BY <1>1, <1>2, <1>3, Invariance, PTL DEF ExclusiveSpec, ChangedByLockHolder
=============================================================================
