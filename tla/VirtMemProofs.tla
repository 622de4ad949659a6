---------------------------- MODULE VirtMemProofs ----------------------------
(***************************************************************************)
(* Theorems about VirtMem, for every size of page, block, sector and file. *)
(***************************************************************************)
EXTENDS VirtMem, SequenceTheorems, TLAPS

(***************************************************************************)
(* Layer A: the page tables and the request.  A request stays inside the   *)
(* block it was made for because every unit of a block but the last is     *)
(* full, which is why ScanNodes may step to the next unit.                 *)
(***************************************************************************)

BlockType == [first : Units, from : Nat, last : Units, end : Nat \ {0}]

TableOK ==
    /\ segSize \in [1 .. MaxSeg -> 0 .. NodeSize] /\ nextSeg \in 0 .. MaxSeg
    /\ \A n \in 1 .. MaxSeg : n > nextSeg => segSize[n] = 0
    /\ hugeTab \in [1 .. MaxHuge -> [there : 0 .. NumSub, last : 0 .. SubSize,
                                     swapped : 0 .. NumSub, page : BOOLEAN]]
    /\ nextHuge \in 0 .. MaxHuge
    /\ \A h \in 1 .. MaxHuge : h > nextHuge => hugeTab[h].there = 0
    /\ tiny \in [node : 1 .. MaxSeg, at : 0 .. NodeSize, left : 0 .. NodeSize]
    /\ tiny.at + tiny.left <= NodeSize
    /\ tiny.left > 0 => segSize[tiny.node] = NodeSize
    /\ blocks \subseteq BlockType

BlockOK(b) ==
    /\ IsSeg(b.first) = IsSeg(b.last) /\ Position(b.first) <= Position(b.last)
    /\ \A u \in Units : IsSeg(u) = IsSeg(b.last) =>
          /\ Position(u) = Position(b.last) => b.end <= USize(u)
          /\ Position(u) >= Position(b.first) /\ Position(u) < Position(b.last) => USize(u) = Full(u)

RequestOK ==
    /\ op \in {"idle", "load", "save", "null", "cmp", "copy", "copied", "done"}
    /\ len \in Nat /\ pos \in Nat /\ off \in Nat /\ fill \in -1 .. NumSub - 1
    /\ Scanning => cur \in Units /\ off \in Offsets

TableInv == TableOK /\ (\A b \in blocks : BlockOK(b)) /\ RequestOK /\ RequestFits

------------------------------------------------------------------------------
(* Arithmetic of positions.                                                *)

LEMMA MulMono ==
    ASSUME NEW a \in Nat, NEW b \in Nat, NEW n \in Nat, a < b
    PROVE  a * n + n <= b * n
<1>1. b - a - 1 \in Nat
  OBVIOUS
<1>2. (b - a - 1) * n \in Nat
  BY <1>1
<1>3. (b - a - 1) * n = b * n - a * n - n
  OBVIOUS
<1> QED BY <1>2, <1>3

\* A position names one unit of its kind: subpage numbers stay below NumSub.
LEMMA PositionInjective ==
    ASSUME NEW u \in Units, NEW v \in Units, IsSeg(u) = IsSeg(v), Position(u) = Position(v)
    PROVE  u = v
<1>1. CASE u \in SegUnits /\ v \in SegUnits
  BY <1>1 DEF SegUnits, Seg, Position, IsSeg
<1>2. CASE u \in HugeUnits /\ v \in HugeUnits
  <2>1. PICK h \in 1 .. MaxHuge, s \in 0 .. NumSub - 1 : u = Sub(h, s)
    BY <1>2 DEF HugeUnits
  <2>2. PICK g \in 1 .. MaxHuge, t \in 0 .. NumSub - 1 : v = Sub(g, t)
    BY <1>2 DEF HugeUnits
  <2>3. h * NumSub + s = g * NumSub + t
    BY <2>1, <2>2 DEF Position, IsSeg, Sub
  <2>4. /\ NumSub \in Nat /\ MaxHuge \in Nat
    BY VirtMemAssumption
  <2>5. ~(h < g)
    BY <2>3, <2>4, MulMono
  <2>6. ~(g < h)
    BY <2>3, <2>4, MulMono
  <2>7. h = g /\ s = t
    BY <2>3, <2>4, <2>5, <2>6
  <2> QED BY <2>1, <2>2, <2>7
<1>3. CASE u \in SegUnits /\ v \in HugeUnits
  BY <1>3 DEF SegUnits, HugeUnits, Seg, Sub, IsSeg
<1>4. CASE u \in HugeUnits /\ v \in SegUnits
  BY <1>4 DEF SegUnits, HugeUnits, Seg, Sub, IsSeg
<1> QED BY <1>1, <1>2, <1>3, <1>4 DEF Units

LEMMA PositionType ==
    ASSUME NEW u \in Units
    PROVE  Position(u) \in Nat /\ Full(u) \in Nat \ {0}
<1>1. CASE u \in SegUnits
  BY <1>1, VirtMemAssumption DEF SegUnits, Seg, Position, IsSeg, Full
<1>2. CASE u \in HugeUnits
  <2>1. PICK h \in 1 .. MaxHuge, s \in 0 .. NumSub - 1 : u = Sub(h, s)
    BY <1>2 DEF HugeUnits
  <2>2. h * NumSub \in Nat
    BY VirtMemAssumption
  <2> QED BY <2>1, <2>2, VirtMemAssumption DEF Sub, Position, IsSeg, Full
<1> QED BY <1>1, <1>2 DEF Units

\* The unit after u exists when some unit of the same kind lies behind u.
LEMMA AfterNext ==
    ASSUME NEW u \in Units, NEW v \in Units, IsSeg(u) = IsSeg(v), Position(u) < Position(v)
    PROVE  After(u) \in Units /\ IsSeg(After(u)) = IsSeg(u) /\ Position(After(u)) = Position(u) + 1
<1>1. CASE u \in SegUnits /\ v \in SegUnits
  BY <1>1, VirtMemAssumption DEF Units, SegUnits, Seg, Position, IsSeg, After
<1>2. CASE u \in HugeUnits /\ v \in HugeUnits
  <2>1. PICK h \in 1 .. MaxHuge, s \in 0 .. NumSub - 1 : u = Sub(h, s)
    BY <1>2 DEF HugeUnits
  <2>2. PICK g \in 1 .. MaxHuge, t \in 0 .. NumSub - 1 : v = Sub(g, t)
    BY <1>2 DEF HugeUnits
  <2>3. h * NumSub + s < g * NumSub + t
    BY <2>1, <2>2 DEF Position, IsSeg, Sub
  <2>4. NumSub \in Nat \ {0} /\ MaxHuge \in Nat
    BY VirtMemAssumption
  <2>5. CASE s = NumSub - 1
    <3>1. ~(g < h)
      BY <2>3, <2>4, MulMono
    <3>2. g # h
      BY <2>3, <2>4, <2>5
    <3>3. h + 1 \in 1 .. MaxHuge
      BY <3>1, <3>2, <2>4
    <3>4. After(u) = Sub(h + 1, 0)
      BY <2>1, <2>5 DEF After, IsSeg, Sub
    <3>5. (h + 1) * NumSub + 0 = h * NumSub + s + 1
      BY <2>4, <2>5
    <3> QED BY <2>1, <2>4, <3>3, <3>4, <3>5 DEF Units, HugeUnits, Sub, Position, IsSeg
  <2>6. CASE s # NumSub - 1
    <3>1. After(u) = Sub(h, s + 1)
      BY <2>1, <2>6 DEF After, IsSeg, Sub
    <3>2. s + 1 \in 0 .. NumSub - 1
      BY <2>4, <2>6
    <3>3. h * NumSub \in Nat
      BY <2>4
    <3> QED BY <2>1, <2>4, <3>1, <3>2, <3>3 DEF Units, HugeUnits, Sub, Position, IsSeg
  <2> QED BY <2>5, <2>6
<1>3. CASE u \in SegUnits /\ v \in HugeUnits
  BY <1>3 DEF SegUnits, HugeUnits, Seg, Sub, IsSeg
<1>4. CASE u \in HugeUnits /\ v \in SegUnits
  BY <1>4 DEF SegUnits, HugeUnits, Seg, Sub, IsSeg
<1> QED BY <1>1, <1>2, <1>3, <1>4 DEF Units

------------------------------------------------------------------------------
(* Blocks keep their shape while the tables grow.                          *)

LEMMA USizeType ==
    ASSUME TableOK, NEW u \in Units
    PROVE  USize(u) \in Nat
<1>1. CASE u \in SegUnits
  BY <1>1 DEF TableOK, SegUnits, Seg, USize, IsSeg
<1>2. CASE u \in HugeUnits
  <2>1. PICK h \in 1 .. MaxHuge, s \in 0 .. NumSub - 1 : u = Sub(h, s)
    BY <1>2 DEF HugeUnits
  <2>2. hugeTab[h].last \in 0 .. SubSize /\ SubSize \in Nat
    BY VirtMemAssumption DEF TableOK
  <2> QED BY <2>1, <2>2 DEF Sub, USize, IsSeg
<1> QED BY <1>1, <1>2 DEF Units

\* A table that only gives sizes to units without one keeps every block.
LEMMA BlockStays ==
    ASSUME TableOK, NEW b \in BlockType, BlockOK(b),
           \A u \in Units : USize(u)' \in Nat /\ (USize(u) # 0 => USize(u)' = USize(u))
    PROVE  BlockOK(b)'
<1> SUFFICES ASSUME NEW u \in Units, IsSeg(u) = IsSeg(b.last)
             PROVE  /\ Position(u) = Position(b.last) => b.end <= USize(u)'
                    /\ Position(u) >= Position(b.first) /\ Position(u) < Position(b.last)
                         => USize(u)' = Full(u)
  BY DEF BlockOK
<1>1. USize(u) \in Nat /\ Full(u) \in Nat \ {0} /\ b.end \in Nat
  BY USizeType, PositionType DEF BlockType
<1> QED BY <1>1 DEF BlockOK

\* Steps that change neither the sizes nor the request keep the layer.
LEMMA TableUnchanged ==
    ASSUME TableInv, UNCHANGED <<segSize, nextSeg, nextHuge, tiny, blocks, op, cur, off, len, pos>>,
           fill' \in -1 .. NumSub - 1,
           hugeTab' \in [1 .. MaxHuge -> [there : 0 .. NumSub, last : 0 .. SubSize,
                                         swapped : 0 .. NumSub, page : BOOLEAN]],
           \A h \in 1 .. MaxHuge : hugeTab'[h].there = hugeTab[h].there
                                /\ hugeTab'[h].last = hugeTab[h].last
    PROVE  TableInv'
<1>1. \A u \in Units : USize(u)' = USize(u)
  <2> TAKE u \in Units
  <2>1. CASE u \in SegUnits
    BY <2>1 DEF SegUnits, Seg, USize, IsSeg
  <2>2. CASE u \in HugeUnits
    BY <2>2 DEF HugeUnits, Sub, USize, IsSeg
  <2> QED BY <2>1, <2>2 DEF Units
<1>2. TableOK'
  BY DEF TableInv, TableOK
<1>3. \A b \in blocks' : BlockOK(b)'
  BY <1>1 DEF TableInv, BlockOK
<1>4. RequestOK'
  BY DEF TableInv, RequestOK, Scanning
<1>5. RequestFits'
  BY <1>1 DEF TableInv, RequestOK, RequestFits, Scanning, Inside, Room
<1> QED BY <1>2, <1>3, <1>4, <1>5 DEF TableInv

------------------------------------------------------------------------------
(* AllocStg.                                                               *)

\* A block of pages is well formed when its pages are full but for the last one.
LEMMA PageBlockOK ==
    ASSUME NEW b \in BlockType, NEW i \in 1 .. MaxSeg, NEW j \in 1 .. MaxSeg, i <= j,
           b.first = Seg(i), b.last = Seg(j), b.end <= segSize'[j],
           \A n \in 1 .. MaxSeg : n >= i /\ n < j => segSize'[n] = NodeSize
    PROVE  BlockOK(b)'
<1> SUFFICES ASSUME NEW u \in Units, IsSeg(u)
             PROVE  /\ Position(u) = j => b.end <= USize(u)'
                    /\ Position(u) >= i /\ Position(u) < j => USize(u)' = NodeSize
  BY DEF BlockOK, Seg, IsSeg, Position, Full
<1>1. u \in SegUnits
  BY DEF Units, SegUnits, HugeUnits, Seg, Sub, IsSeg
<1> QED BY <1>1 DEF SegUnits, Seg, IsSeg, Position, USize

\* What GetStg does to the table of pages.
LEMMA GetStgOK ==
    ASSUME TableInv, NEW size \in Nat \ {0}, NEW k \in 1 .. MaxSeg, GetStg(size, k),
           UNCHANGED <<hugeTab, nextHuge, op, cur, off, len, pos>>, op = "idle"
    PROVE  /\ segSize' \in [1 .. MaxSeg -> 0 .. NodeSize] /\ nextSeg' \in 0 .. MaxSeg
           /\ \A n \in 1 .. MaxSeg : n > nextSeg' => segSize'[n] = 0
           /\ nextSeg + 1 \in 1 .. MaxSeg /\ nextSeg + k \in 1 .. MaxSeg
           /\ Rest(size, NodeSize, k) \in 1 .. NodeSize
           /\ segSize'[nextSeg + k] = Rest(size, NodeSize, k)
           /\ \A n \in 1 .. MaxSeg : n >= nextSeg + 1 /\ n < nextSeg + k => segSize'[n] = NodeSize
           /\ \A n \in 1 .. MaxSeg : segSize[n] # 0 => segSize'[n] = segSize[n]
           /\ \A b \in blocks : BlockOK(b)'
<1> DEFINE r == Rest(size, NodeSize, k)
<1>1. /\ nextSeg \in Nat /\ MaxSeg \in Nat /\ NodeSize \in Nat /\ NodeSize > 0
      /\ nextSeg + k <= MaxSeg /\ nextSeg' = nextSeg + k
  BY VirtMemAssumption DEF TableInv, TableOK, GetStg
<1>2. r \in 1 .. NodeSize
  <2>1. (k - 1) * NodeSize < size /\ size <= k * NodeSize
    BY DEF GetStg, Pieces
  <2>2. k * NodeSize = (k - 1) * NodeSize + NodeSize /\ (k - 1) * NodeSize \in Nat
    BY <1>1
  <2> QED BY <1>1, <2>1, <2>2 DEF Rest
<1>3. segSize' = [n \in 1 .. MaxSeg |->
                     IF n > nextSeg /\ n < nextSeg + k THEN NodeSize
                     ELSE IF n = nextSeg + k THEN r ELSE segSize[n]]
  BY DEF GetStg
<1>4. segSize' \in [1 .. MaxSeg -> 0 .. NodeSize]
  BY <1>1, <1>2, <1>3 DEF TableInv, TableOK
<1>5. \A n \in 1 .. MaxSeg : segSize[n] # 0 => segSize'[n] = segSize[n]
  BY <1>1, <1>3 DEF TableInv, TableOK
<1>6. \A u \in Units : USize(u)' \in Nat /\ (USize(u) # 0 => USize(u)' = USize(u))
  <2> TAKE u \in Units
  <2>1. CASE u \in SegUnits
    <3>1. PICK n \in 1 .. MaxSeg : u = Seg(n)
      BY <2>1 DEF SegUnits
    <3>2. segSize'[n] \in 0 .. NodeSize
      BY <1>4
    <3> QED BY <1>5, <3>1, <3>2 DEF Seg, USize, IsSeg
  <2>2. CASE u \in HugeUnits
    <3>1. USize(u)' = USize(u)
      BY <2>2 DEF HugeUnits, Sub, USize, IsSeg
    <3> QED BY <3>1, USizeType DEF TableInv
  <2> QED BY <2>1, <2>2 DEF Units
<1>7. \A b \in blocks : BlockOK(b)'
  BY <1>6, BlockStays DEF TableInv, TableOK
<1> QED BY <1>1, <1>2, <1>3, <1>4, <1>5, <1>7 DEF TableInv, TableOK

LEMMA AllocTinyOK ==
    ASSUME TableInv, NEW size \in Nat \ {0}, AllocTinyStg(size), op = "idle",
           UNCHANGED <<op, cur, off, len, pos, fill>>
    PROVE  TableInv'
<1>0. /\ TableOK /\ (\A b \in blocks : BlockOK(b)) /\ RequestOK /\ RequestFits
      /\ tiny.left \in 0 .. NodeSize /\ NodeSize \in Nat
  BY VirtMemAssumption DEF TableInv, TableOK
<1>1. RequestOK' /\ RequestFits'
  BY <1>0 DEF RequestOK, RequestFits, Scanning
<1>2. CASE tiny.left >= size
  <2>0. PICK b, i, at : /\ b = [first |-> Seg(i), from |-> at, last |-> Seg(i), end |-> at + size]
                        /\ i = tiny.node /\ at = tiny.at
    OBVIOUS
  <2>1. /\ tiny' = [tiny EXCEPT !.at = @ + size, !.left = @ - size]
        /\ blocks' = blocks \cup {b} /\ UNCHANGED <<nextSeg, segSize, hugeTab, nextHuge>>
    <3>1. ~(tiny.left < size)
      BY <1>0, <1>2
    <3> QED BY <2>0, <3>1 DEF AllocTinyStg
  <2>3. /\ i \in 1 .. MaxSeg /\ segSize[i] = NodeSize /\ at \in Nat /\ at + size <= NodeSize
        /\ tiny.left \in 0 .. NodeSize /\ tiny.at = at /\ NodeSize \in Nat
        /\ tiny = [node |-> i, at |-> at, left |-> tiny.left] /\ at + tiny.left <= NodeSize
    BY <1>0, <1>2, <2>0, VirtMemAssumption DEF TableOK
  <2>2. b \in BlockType
    <3>1. Seg(i) \in Units
      BY <2>3 DEF Units, SegUnits
    <3> QED BY <2>0, <2>3, <3>1 DEF BlockType
  <2>4. BlockOK(b)'
    <3>1. \A n \in 1 .. MaxSeg : ~(n >= i /\ n < i)
      BY <2>3
    <3>2. b.end <= segSize'[i] /\ i <= i
      BY <2>0, <2>1, <2>3
    <3>3. b.first = Seg(i) /\ b.last = Seg(i)
      BY <2>0
    <3> QED BY <2>2, <2>3, <3>1, <3>2, <3>3, PageBlockOK
  <2>5. \A c \in blocks' : BlockOK(c)'
    <3>1. \A u : USize(u)' = USize(u)
      BY <2>1 DEF USize
    <3>2. \A c \in blocks : BlockOK(c)'
      BY <1>0, <3>1 DEF BlockOK
    <3> QED BY <2>1, <2>4, <3>2
  <2>6. TableOK'
    <3>1. tiny' = [node |-> i, at |-> at + size, left |-> tiny.left - size]
      <4>1. PICK l : l = tiny.left
        OBVIOUS
      <4>2. tiny = [node |-> i, at |-> at, left |-> l]
        BY <2>3, <4>1
      <4>3. tiny' = [tiny EXCEPT !.at = @ + size, !.left = @ - size]
        BY <2>1
      <4>4. tiny' = [node |-> i, at |-> at + size, left |-> l - size]
        BY <4>2, <4>3
      <4> QED BY <4>1, <4>4
    <3>2. tiny' \in [node : 1 .. MaxSeg, at : 0 .. NodeSize, left : 0 .. NodeSize]
      BY <1>2, <2>3, <3>1
    <3>3. tiny'.at + tiny'.left <= NodeSize /\ segSize'[tiny'.node] = NodeSize
      BY <1>2, <2>1, <2>3, <3>1
    <3> QED BY <1>0, <2>1, <2>2, <3>2, <3>3 DEF TableOK
  <2> QED BY <1>1, <2>5, <2>6 DEF TableInv
<1>3. CASE tiny.left < size
  <2>b. PICK b, i : /\ b = [first |-> Seg(i), from |-> 0, last |-> Seg(i), end |-> size]
                    /\ i = nextSeg + 1
    OBVIOUS
  <2>0. ~(tiny.left >= size) /\ size <= NodeSize
    <3>1. ~(tiny.left >= size)
      BY <1>0, <1>3
    <3>2. size <= TinyCutoff
      BY DEF AllocTinyStg
    <3> QED BY <3>1, <3>2, VirtMemAssumption
  <2>1. /\ GetStg(NodeSize, 1)
        /\ tiny' = [node |-> nextSeg + 1, at |-> size, left |-> NodeSize - size]
        /\ blocks' = blocks \cup {b} /\ UNCHANGED <<hugeTab, nextHuge>>
    BY <2>0, <2>b DEF AllocTinyStg
  <2>2. /\ 1 \in 1 .. MaxSeg /\ NodeSize \in Nat \ {0} /\ Rest(NodeSize, NodeSize, 1) = NodeSize
    BY VirtMemAssumption DEF Rest
  <2>3. /\ segSize' \in [1 .. MaxSeg -> 0 .. NodeSize] /\ nextSeg' \in 0 .. MaxSeg
        /\ \A n \in 1 .. MaxSeg : n > nextSeg' => segSize'[n] = 0
        /\ i \in 1 .. MaxSeg /\ segSize'[i] = NodeSize
        /\ \A c \in blocks : BlockOK(c)'
    BY <2>1, <2>2, <2>b, GetStgOK
  <2>4. b \in BlockType
    <3>1. Seg(i) \in Units
      BY <2>3 DEF Units, SegUnits
    <3> QED BY <2>b, <3>1 DEF BlockType
  <2>5. BlockOK(b)'
    <3>1. \A n \in 1 .. MaxSeg : ~(n >= i /\ n < i)
      BY <2>3
    <3>2. b.end <= segSize'[i] /\ i <= i
      BY <2>0, <2>3, <2>b
    <3>3. b.first = Seg(i) /\ b.last = Seg(i)
      BY <2>b
    <3> QED BY <2>3, <2>4, <3>1, <3>2, <3>3, PageBlockOK
  <2>6. TableOK'
    <3>0. tiny' = [node |-> i, at |-> size, left |-> NodeSize - size]
      BY <2>1, <2>b
    <3>1. tiny' \in [node : 1 .. MaxSeg, at : 0 .. NodeSize, left : 0 .. NodeSize]
      BY <2>0, <2>2, <2>3, <3>0
    <3>2. tiny'.at + tiny'.left <= NodeSize /\ (tiny'.left > 0 => segSize'[tiny'.node] = NodeSize)
      BY <2>0, <2>2, <2>3, <3>0
    <3> QED BY <1>0, <2>1, <2>3, <2>4, <3>1, <3>2 DEF TableOK
  <2> QED BY <1>1, <2>1, <2>3, <2>5, <2>6 DEF TableInv
<1> QED BY <1>0, <1>2, <1>3

LEMMA AllocNormalOK ==
    ASSUME TableInv, NEW size \in Nat \ {0}, AllocNormalStg(size), op = "idle",
           UNCHANGED <<op, cur, off, len, pos, fill>>
    PROVE  TableInv'
<1>1. RequestOK' /\ RequestFits'
  BY DEF TableInv, RequestOK, RequestFits, Scanning
<1>2. PICK k \in 1 .. MaxSeg :
         /\ GetStg(size, k)
         /\ blocks' = blocks \cup {[first |-> Seg(nextSeg + 1), from |-> 0,
                                    last |-> Seg(nextSeg + k), end |-> Rest(size, NodeSize, k)]}
  BY DEF AllocNormalStg
<1>3. UNCHANGED <<hugeTab, nextHuge, tiny>>
  BY DEF AllocNormalStg
<1>4. PICK b, i, j : /\ b = [first |-> Seg(i), from |-> 0, last |-> Seg(j),
                            end |-> Rest(size, NodeSize, k)]
                     /\ i = nextSeg + 1 /\ j = nextSeg + k
  OBVIOUS
<1>5. /\ segSize' \in [1 .. MaxSeg -> 0 .. NodeSize] /\ nextSeg' \in 0 .. MaxSeg
      /\ \A n \in 1 .. MaxSeg : n > nextSeg' => segSize'[n] = 0
      /\ i \in 1 .. MaxSeg /\ j \in 1 .. MaxSeg
      /\ Rest(size, NodeSize, k) \in 1 .. NodeSize
      /\ segSize'[j] = Rest(size, NodeSize, k)
      /\ \A n \in 1 .. MaxSeg : n >= i /\ n < j => segSize'[n] = NodeSize
      /\ \A n \in 1 .. MaxSeg : segSize[n] # 0 => segSize'[n] = segSize[n]
      /\ \A c \in blocks : BlockOK(c)'
  BY <1>2, <1>3, <1>4, GetStgOK
<1>6. b \in BlockType
  <2>1. Seg(i) \in Units /\ Seg(j) \in Units
    BY <1>5 DEF Units, SegUnits
  <2>2. Rest(size, NodeSize, k) \in Nat \ {0}
    BY <1>5, VirtMemAssumption
  <2> QED BY <1>4, <2>1, <2>2 DEF BlockType
<1>7. BlockOK(b)'
  <2>1. i <= j
    <3>1. nextSeg \in Nat
      BY DEF TableInv, TableOK
    <3> QED BY <1>4, <3>1
  <2>2. b.first = Seg(i) /\ b.last = Seg(j) /\ b.end <= segSize'[j]
    BY <1>4, <1>5
  <2> QED BY <1>5, <1>6, <2>1, <2>2, PageBlockOK
<1>8. blocks' = blocks \cup {b}
  BY <1>2, <1>4
<1>9. TableOK'
  <2>1. TableOK /\ NodeSize \in Nat \ {0}
    BY VirtMemAssumption DEF TableInv
  <2>2. tiny.left > 0 => segSize'[tiny.node] = NodeSize
    BY <1>5, <2>1 DEF TableOK
  <2> QED BY <1>3, <1>5, <1>6, <1>8, <2>1, <2>2 DEF TableOK
<1> QED BY <1>1, <1>5, <1>7, <1>8, <1>9 DEF TableInv

\* A block of huge pages is well formed: all subpages but the last one are full.
LEMMA HugeBlockOK ==
    ASSUME NEW b \in BlockType, NEW f \in 1 .. MaxHuge, NEW g \in 1 .. MaxHuge,
           NEW j \in 1 .. NumSub, f <= g,
           b.first = Sub(f, 0), b.last = Sub(g, j - 1),
           hugeTab'[g].there = j /\ hugeTab'[g].last = b.end,
           \A h \in 1 .. MaxHuge : h >= f /\ h < g =>
               hugeTab'[h].there = NumSub /\ hugeTab'[h].last = SubSize
    PROVE  BlockOK(b)'
<1>0. /\ NumSub \in Nat \ {0} /\ MaxHuge \in Nat /\ b.end \in Nat /\ f \in Nat /\ g \in Nat
      /\ f * NumSub \in Nat /\ g * NumSub \in Nat
  BY VirtMemAssumption DEF BlockType
<1>1. /\ ~IsSeg(b.first) /\ ~IsSeg(b.last) /\ IsSeg(b.first) = IsSeg(b.last)
      /\ Position(b.first) = f * NumSub + 0 /\ Position(b.last) = g * NumSub + (j - 1)
  BY DEF IsSeg, Sub, Position
<1>2. Position(b.first) <= Position(b.last)
  <2>1. CASE f < g
    BY <1>0, <1>1, <2>1, MulMono
  <2>2. CASE f = g
    BY <1>0, <1>1, <2>2
  <2> QED BY <1>0, <2>1, <2>2
<1>3. ASSUME NEW u \in Units, ~IsSeg(u)
      PROVE  /\ Position(u) = Position(b.last) => b.end <= USize(u)'
             /\ Position(u) >= Position(b.first) /\ Position(u) < Position(b.last)
                  => USize(u)' = Full(u)
  <2>1. PICK h \in 1 .. MaxHuge, s \in 0 .. NumSub - 1 : u = Sub(h, s)
    BY <1>3 DEF Units, SegUnits, HugeUnits, Seg, IsSeg
  <2>2. /\ Position(u) = h * NumSub + s /\ Full(u) = SubSize /\ h * NumSub \in Nat /\ h \in Nat
        /\ s \in Nat /\ s < NumSub
        /\ USize(u)' = IF s >= hugeTab'[h].there THEN 0
                       ELSE IF s = hugeTab'[h].there - 1 THEN hugeTab'[h].last ELSE SubSize
    BY <1>0, <2>1 DEF IsSeg, Sub, Position, Full, USize
  <2>3. CASE Position(u) = Position(b.last)
    <3>1. b.last \in Units
      BY DEF BlockType
    <3>2. Sub(h, s) = Sub(g, j - 1)
      <4>1. IsSeg(u) = IsSeg(b.last)
        BY <1>1, <1>3 DEF IsSeg
      <4> QED BY <2>1, <2>3, <3>1, <4>1, PositionInjective
    <3>3. h = g /\ s = j - 1
      BY <3>2 DEF Sub
    <3> QED BY <1>0, <2>2, <2>3, <3>3
  <2>4. CASE Position(u) >= Position(b.first) /\ Position(u) < Position(b.last)
    <3>1. ~(h < f)
      BY <1>0, <1>1, <2>2, <2>4, MulMono
    <3>2. ~(g < h)
      BY <1>0, <1>1, <2>2, <2>4, MulMono
    <3>3. CASE h < g
      BY <1>0, <2>2, <2>4, <3>1, <3>3
    <3>4. CASE h = g
      BY <1>0, <1>1, <2>2, <2>4, <3>4
    <3> QED BY <1>0, <2>2, <3>2, <3>3, <3>4
  <2> QED BY <2>3, <2>4
<1> QED BY <1>1, <1>2, <1>3 DEF BlockOK

LEMMA AllocHugeOK ==
    ASSUME TableInv, NEW size \in Nat \ {0}, AllocHugeStg(size), op = "idle",
           UNCHANGED <<op, cur, off, len, pos, fill>>
    PROVE  TableInv'
<1> DEFINE full == NumSub * SubSize
<1>1. RequestOK' /\ RequestFits'
  BY DEF TableInv, RequestOK, RequestFits, Scanning
<1>2. PICK k \in 1 .. MaxHuge, j \in 1 .. NumSub :
         /\ Pieces(size, full, k) /\ Pieces(Rest(size, full, k), SubSize, j)
         /\ nextHuge + k <= MaxHuge /\ nextHuge' = nextHuge + k
         /\ hugeTab' = [h \in 1 .. MaxHuge |->
              IF h > nextHuge /\ h < nextHuge + k THEN BigStg(NumSub, SubSize)
              ELSE IF h = nextHuge + k THEN BigStg(j, Rest(Rest(size, full, k), SubSize, j))
              ELSE hugeTab[h]]
         /\ blocks' = blocks \cup {[first |-> Sub(nextHuge + 1, 0), from |-> 0,
                                    last |-> Sub(nextHuge + k, j - 1),
                                    end |-> Rest(Rest(size, full, k), SubSize, j)]}
  BY DEF AllocHugeStg
<1>3. UNCHANGED <<segSize, nextSeg, tiny>>
  BY DEF AllocHugeStg
<1>4. PICK l : l = Rest(Rest(size, full, k), SubSize, j)
  OBVIOUS
<1>5. /\ SubSize \in Nat \ {0} /\ NumSub \in Nat \ {0} /\ full \in Nat /\ nextHuge \in Nat
      /\ MaxHuge \in Nat /\ TableOK
  <2>1. SubSize \in Nat \ {0} /\ NumSub \in Nat \ {0} /\ MaxHuge \in Nat /\ TableOK
    BY VirtMemAssumption DEF TableInv
  <2>2. full \in Nat
    BY <2>1
  <2>3. nextHuge \in Nat
    BY <2>1 DEF TableOK
  <2> QED BY <2>1, <2>2, <2>3
<1>6. l \in 1 .. SubSize
  <2>1. Rest(size, full, k) \in Int
    BY <1>5 DEF Rest
  <2>2. PICK r \in Int : r = Rest(size, full, k)
    BY <2>1
  <2>3. (j - 1) * SubSize < r /\ r <= j * SubSize /\ l = r - (j - 1) * SubSize
    BY <1>2, <1>4, <2>2 DEF Pieces, Rest
  <2>4. j * SubSize = (j - 1) * SubSize + SubSize /\ (j - 1) * SubSize \in Int
    BY <1>5
  <2> QED BY <1>5, <2>2, <2>3, <2>4
<1>7. PICK b, f, g : /\ b = [first |-> Sub(f, 0), from |-> 0, last |-> Sub(g, j - 1), end |-> l]
                     /\ f = nextHuge + 1 /\ g = nextHuge + k
  OBVIOUS
<1>8. f \in 1 .. MaxHuge /\ g \in 1 .. MaxHuge /\ f <= g
  BY <1>2, <1>5, <1>7
<1>9. b \in BlockType /\ blocks' = blocks \cup {b}
  <2>1. Sub(f, 0) \in Units /\ Sub(g, j - 1) \in Units
    BY <1>5, <1>8 DEF Units, HugeUnits
  <2> QED BY <1>2, <1>4, <1>5, <1>6, <1>7, <2>1 DEF BlockType
<1>10. /\ hugeTab' = [h \in 1 .. MaxHuge |->
              IF h >= f /\ h < g THEN BigStg(NumSub, SubSize)
              ELSE IF h = g THEN BigStg(j, l) ELSE hugeTab[h]]
       /\ nextHuge' = g
  <2>1. \A h \in 1 .. MaxHuge : (h > nextHuge /\ h < nextHuge + k) <=> (h >= f /\ h < g)
    BY <1>5, <1>7
  <2> QED BY <1>2, <1>4, <1>7, <2>1
<1>11. BlockOK(b)'
  <2>1. b.first = Sub(f, 0) /\ b.last = Sub(g, j - 1) /\ b.end = l
    BY <1>7
  <2>2. hugeTab'[g].there = j /\ hugeTab'[g].last = l
    BY <1>8, <1>10 DEF BigStg
  <2>3. \A h \in 1 .. MaxHuge : h >= f /\ h < g =>
           hugeTab'[h].there = NumSub /\ hugeTab'[h].last = SubSize
    BY <1>10 DEF BigStg
  <2> QED BY <1>8, <1>9, <2>1, <2>2, <2>3, HugeBlockOK
<1>12. hugeTab' \in [1 .. MaxHuge -> [there : 0 .. NumSub, last : 0 .. SubSize,
                                     swapped : 0 .. NumSub, page : BOOLEAN]]
  <2>1. BigStg(NumSub, SubSize) \in [there : 0 .. NumSub, last : 0 .. SubSize,
                                     swapped : 0 .. NumSub, page : BOOLEAN]
    BY <1>5 DEF BigStg
  <2>2. BigStg(j, l) \in [there : 0 .. NumSub, last : 0 .. SubSize,
                          swapped : 0 .. NumSub, page : BOOLEAN]
    BY <1>5, <1>6 DEF BigStg
  <2> QED BY <1>5, <1>10, <2>1, <2>2 DEF TableOK
<1>13. \A c \in blocks : BlockOK(c)'
  <2>1. \A u \in Units : USize(u)' \in Nat /\ (USize(u) # 0 => USize(u)' = USize(u))
    <3> TAKE u \in Units
    <3>1. CASE u \in SegUnits
      <4>1. USize(u)' = USize(u)
        BY <1>3, <3>1 DEF SegUnits, Seg, USize, IsSeg
      <4> QED BY <1>5, <4>1, USizeType
    <3>2. CASE u \in HugeUnits
      <4>1. PICK h \in 1 .. MaxHuge, s \in 0 .. NumSub - 1 : u = Sub(h, s)
        BY <3>2 DEF HugeUnits
      <4>2. USize(u)' \in Nat
        <5>1. hugeTab'[h].last \in Nat /\ hugeTab'[h].there \in Nat
          BY <1>5, <1>12
        <5> QED BY <1>5, <4>1, <5>1 DEF Sub, USize, IsSeg
      <4>3. CASE h > nextHuge
        BY <1>5, <4>1, <4>2, <4>3 DEF TableOK, Sub, USize, IsSeg
      <4>4. CASE ~(h > nextHuge)
        <5>1. hugeTab'[h] = hugeTab[h]
          BY <1>5, <1>7, <1>8, <1>10, <4>4
        <5> QED BY <4>1, <4>2, <5>1 DEF Sub, USize, IsSeg
      <4> QED BY <4>3, <4>4
    <3> QED BY <3>1, <3>2 DEF Units
  <2> QED BY <1>5, <2>1, BlockStays DEF TableInv, TableOK
<1>14. TableOK'
  <2>1. \A h \in 1 .. MaxHuge : h > nextHuge' => hugeTab'[h].there = 0
    BY <1>5, <1>7, <1>8, <1>10 DEF TableOK
  <2>2. nextHuge' \in 0 .. MaxHuge /\ blocks' \subseteq BlockType
    BY <1>5, <1>8, <1>9, <1>10 DEF TableOK
  <2> QED BY <1>3, <1>5, <1>12, <2>1, <2>2 DEF TableOK
<1> QED BY <1>1, <1>9, <1>11, <1>13, <1>14 DEF TableInv

------------------------------------------------------------------------------
(* Requests and the turns of ScanNodes.                                    *)

\* Begin and CopyBack start a request inside a block.
LEMMA StartOK ==
    ASSUME TableInv, NEW b \in blocks, NEW l \in Nat, At(b, l), UNCHANGED <<table, fill>>,
           op' \in {"load", "save", "null", "cmp", "copy"}
    PROVE  TableInv'
<1>1. TableOK' /\ \A c \in blocks' : BlockOK(c)'
  BY DEF TableInv, TableOK, BlockOK, table, USize
<1>2. RequestOK'
  BY VirtMemAssumption DEF At, RequestOK, Offsets, TableInv
<1>3. RequestFits'
  BY DEF At, RequestFits, Scanning, Inside, Room, USize, table
<1> QED BY <1>1, <1>2, <1>3 DEF TableInv

\* A request that does not end with its unit goes on at the start of the next
\* unit of the same block.
LEMMA TransferOK ==
    ASSUME TableInv, Transfer
    PROVE  TableInv'
<1>1. UNCHANGED <<segSize, nextSeg, nextHuge, tiny, blocks>> /\ hugeTab' = hugeTab /\ table' = table
      /\ fill' = fill
  BY DEF Transfer, table
<1>2. \A u : USize(u)' = USize(u)
  BY <1>1 DEF USize
<1>3. TableOK' /\ \A c \in blocks' : BlockOK(c)'
  BY <1>1, <1>2 DEF TableInv, TableOK, BlockOK
<1>4. /\ Scanning /\ cur \in Units /\ off \in Offsets /\ len \in Nat /\ pos \in Nat
      /\ off \in Nat /\ TableOK /\ fill' \in -1 .. NumSub - 1
  BY <1>1 DEF Transfer, TableInv, RequestOK
<1>5. CASE LastPart \/ ~same'
  <2>1. UNCHANGED <<cur, off, len, pos>> /\ op' \in {"copied", "done"}
    BY <1>5 DEF Transfer
  <2> QED BY <1>3, <1>4, <2>1 DEF TableInv, RequestOK, RequestFits, Scanning
<1>6. CASE ~(LastPart \/ ~same')
  <2>1. /\ cur' = After(cur) /\ off' = 0 /\ len' = len - Part /\ pos' = pos + Part /\ op' = op
        /\ ~LastPart
    BY <1>6 DEF Transfer
  <2>2. PICK b \in blocks : Inside(b, cur, off) /\ len <= Room(b, cur, off)
    BY <1>4 DEF TableInv, RequestFits
  <2>3. /\ b \in BlockType /\ b.first \in Units /\ b.last \in Units /\ b.end \in Nat \ {0}
        /\ b.from \in Nat /\ BlockOK(b)
    BY <1>4 DEF TableInv, TableOK, BlockType
  <2>4. USize(cur) \in Nat /\ off + len > USize(cur) /\ Part = USize(cur) - off /\ off < USize(cur)
    BY <1>4, <2>1, <2>2, USizeType DEF LastPart, Part, Inside
  <2>5. /\ IsSeg(cur) = IsSeg(b.first) /\ IsSeg(cur) = IsSeg(b.last)
        /\ Position(cur) \in Nat /\ Position(b.first) \in Nat /\ Position(b.last) \in Nat
        /\ Full(cur) \in Nat \ {0}
        /\ Position(cur) >= Position(b.first) /\ Position(cur) <= Position(b.last)
    BY <1>4, <2>2, <2>3, PositionType DEF Inside, BlockOK
  <2>6. len <= (Position(b.last) - Position(cur)) * Full(cur) + b.end - off
    BY <2>2 DEF Room
  <2>7. Position(cur) < Position(b.last)
    <3> SUFFICES ASSUME Position(cur) = Position(b.last) PROVE FALSE
      BY <2>5
    <3>1. b.end <= USize(cur)
      BY <1>4, <2>3, <2>5 DEF BlockOK
    <3>2. (Position(b.last) - Position(cur)) * Full(cur) = 0
      BY <2>5
    <3> QED BY <1>4, <2>3, <2>4, <2>6, <3>1, <3>2
  <2>8. USize(cur) = Full(cur)
    BY <1>4, <2>3, <2>5, <2>7 DEF BlockOK
  <2>9. PICK v \in Units : v = After(cur)
    BY <1>4, <2>3, <2>5, <2>7, AfterNext
  <2>10. IsSeg(v) = IsSeg(cur) /\ Position(v) = Position(cur) + 1
    BY <1>4, <2>3, <2>5, <2>7, <2>9, AfterNext
  <2>11. Full(v) = Full(cur)
    BY <2>10 DEF Full
  <2>12. len' \in Nat /\ pos' \in Nat /\ len' = len - (Full(cur) - off)
    BY <1>4, <2>1, <2>4, <2>8
  <2>13. RequestOK'
    BY <1>4, <2>1, <2>9, <2>12, VirtMemAssumption DEF RequestOK, Scanning, Offsets
  <2>14. Inside(b, v, 0)
    <3>1. v # b.first
      BY <2>5, <2>10
    <3>2. 0 < USize(v)
      <4>1. CASE Position(v) = Position(b.last)
        <5>1. b.end <= USize(v)
          BY <2>3, <2>5, <2>10, <4>1 DEF BlockOK
        <5> QED BY <2>3, <5>1, USizeType, <1>4
      <4>2. CASE Position(v) < Position(b.last)
        <5>1. USize(v) = Full(v)
          BY <2>3, <2>5, <2>10, <4>2 DEF BlockOK
        <5> QED BY <2>5, <2>11, <5>1
      <4> QED BY <2>5, <2>7, <2>10, <4>1, <4>2
    <3> QED BY <2>5, <2>7, <2>10, <3>1, <3>2 DEF Inside
  <2>15. len' <= Room(b, v, 0)
    <3>1. (Position(b.last) - Position(v)) * Full(cur)
            = (Position(b.last) - Position(cur)) * Full(cur) - Full(cur)
      BY <2>5, <2>10
    <3>2. (Position(b.last) - Position(cur)) * Full(cur) \in Int
      BY <2>5
    <3> QED BY <1>4, <2>3, <2>5, <2>6, <2>11, <2>12, <3>1, <3>2 DEF Room
  <2>16. RequestFits'
    <3>1. b \in blocks' /\ cur' = v /\ off' = 0
      BY <1>1, <2>1, <2>9
    <3> QED BY <1>2, <2>14, <2>15, <3>1 DEF RequestFits, Inside, Room
  <2> QED BY <1>3, <2>13, <2>16 DEF TableInv
<1> QED BY <1>5, <1>6

------------------------------------------------------------------------------
(* The layer is inductive.                                                 *)

LEMMA TableInit == Init => TableInv
<1> SUFFICES ASSUME Init PROVE TableInv
  OBVIOUS
<1>1. TableOK
  BY VirtMemAssumption DEF Init, TableOK
<1>2. -1 \in -1 .. NumSub - 1
  BY VirtMemAssumption
<1>3. blocks = {} /\ RequestOK /\ RequestFits
  BY <1>2 DEF Init, RequestOK, RequestFits, Scanning
<1> QED BY <1>1, <1>3 DEF TableInv

LEMMA RelinkOK ==
    ASSUME TableInv, Relink
    PROVE  TableInv'
<1>1. TableOK'
  BY VirtMemAssumption DEF Relink, VirtMemInit, TableOK
<1>2. -1 \in -1 .. NumSub - 1
  BY VirtMemAssumption
<1>3. blocks' = {} /\ RequestOK' /\ RequestFits'
  BY <1>2 DEF Relink, VirtMemInit, Idle, RequestOK, RequestFits, Scanning
<1> QED BY <1>1, <1>3 DEF TableInv

LEMMA TableNext == TableInv /\ [Next]_vars => TableInv'
<1> SUFFICES ASSUME TableInv, [Next]_vars PROVE TableInv'
  OBVIOUS
<1>0. /\ hugeTab \in [1 .. MaxHuge -> [there : 0 .. NumSub, last : 0 .. SubSize,
                                      swapped : 0 .. NumSub, page : BOOLEAN]]
      /\ fill \in -1 .. NumSub - 1 /\ NumSub \in Nat
  BY VirtMemAssumption DEF TableInv, TableOK, RequestOK
<1>1. ASSUME NEW size \in Sizes, AllocStg(size) PROVE TableInv'
  BY <1>1, VirtMemAssumption, AllocTinyOK, AllocNormalOK, AllocHugeOK DEF AllocStg, request
<1>2. CASE Request
  <2>1. \A l \in 1 .. MaxLen : l \in Nat
    BY VirtMemAssumption
  <2> QED BY <1>2, <2>1, StartOK DEF Request, Begin
<1>3. ASSUME NEW b \in blocks, CopyBack(b) PROVE TableInv'
  <2>1. pos + len \in Nat
    BY DEF TableInv, RequestOK
  <2> QED BY <1>3, <2>1, StartOK DEF CopyBack
<1>4. CASE AllocNode \/ OpenSpillFile \/ WriteOut \/ SwapOutVirt \/ UNCHANGED vars
  <2>1. UNCHANGED <<segSize, nextSeg, nextHuge, tiny, blocks, op, cur, off, len, pos, hugeTab, fill>>
    BY <1>4 DEF AllocNode, OpenSpillFile, WriteOut, SwapOutVirt, vars, table, request
  <2> QED BY <1>0, <2>1, TableUnchanged
<1>5. CASE AllocHugeNode
  <2>1. /\ UNCHANGED <<segSize, nextSeg, nextHuge, tiny, blocks, op, cur, off, len, pos>>
        /\ hugeTab' = [hugeTab EXCEPT ![cur[2]].page = TRUE]
        /\ fill' = hugeTab[cur[2]].there - 1
    BY <1>5 DEF AllocHugeNode, request
  <2>2. cur \in HugeUnits
    BY <1>5 DEF AllocHugeNode, NeedsPage, TableInv, RequestOK, Units, SegUnits, Seg, IsSeg
  <2>3. cur[2] \in 1 .. MaxHuge
    BY <2>2 DEF HugeUnits, Sub
  <2>4. hugeTab[cur[2]].there \in 0 .. NumSub
    BY <1>0, <2>3
  <2>5. fill' \in -1 .. NumSub - 1
    BY <1>0, <2>1, <2>4
  <2> QED BY <1>0, <2>1, <2>5, TableUnchanged
<1>6. CASE AllocSubpage
  <2>1. UNCHANGED <<segSize, nextSeg, nextHuge, tiny, blocks, op, cur, off, len, pos>>
    BY <1>6 DEF AllocSubpage, request
  <2>2. fill' \in -1 .. NumSub - 1 /\ fill + 1 \in 0 .. NumSub
    BY <1>0, <1>6 DEF AllocSubpage, Filling
  <2>3. CASE hugeTab' = hugeTab
    BY <1>0, <2>1, <2>2, <2>3, TableUnchanged
  <2>4. CASE hugeTab' = [hugeTab EXCEPT ![cur[2]].swapped = fill + 1]
    BY <1>0, <2>1, <2>2, <2>4, TableUnchanged
  <2> QED BY <1>6, <2>3, <2>4 DEF AllocSubpage
<1>7. CASE Transfer
  BY <1>7, TransferOK
<1>8. CASE Return
  <2>1. table' = table /\ fill' = fill /\ op' = "idle" /\ off' = 0 /\ len' = 0 /\ pos' = 0
    BY <1>8 DEF Return, Idle
  <2>2. TableOK' /\ \A c \in blocks' : BlockOK(c)'
    BY <2>1 DEF TableInv, TableOK, BlockOK, table, USize
  <2> QED BY <2>1, <2>2 DEF TableInv, RequestOK, RequestFits, Scanning
<1>9. CASE Relink
  BY <1>9, RelinkOK
<1> QED BY <1>1, <1>2, <1>3, <1>4, <1>5, <1>6, <1>7, <1>8, <1>9 DEF Next, Serve

\* Every request stays inside the block it was made for, whatever pages it
\* crosses: ScanNodes never steps to a page of another block, nor behind the
\* end of the last one.
THEOREM StaysInBlock == Spec => []RequestFits
<1>1. TableInv => RequestFits
  BY DEF TableInv
<1> QED BY <1>1, TableInit, TableNext, PTL DEF Spec
------------------------------------------------------------------------------
(***************************************************************************)
(* Layer B: where the data of a unit is.  A unit is on the heap, in the    *)
(* spill file or not used yet; the flags, the swap list, numswapped and    *)
(* the spill handles all follow from that.                                 *)
(***************************************************************************)

\* Types of the variables layer A does not speak of; the buffer holds what is
\* left of the request.
StorageType ==
    /\ inmem \subseteq 1 .. MaxSeg /\ heap \subseteq Units
    /\ nextSwap \in Seq(1 .. MaxSeg) /\ opening \in Seq(1 .. MaxSeg) /\ writing \in 0 .. MaxSeg
    /\ spill \in [Units -> 0 .. DiskSize + 1] /\ tmpFSize \in 0 .. DiskSize
    /\ tempFile \in 0 .. MaxFiles /\ files \subseteq 1 .. MaxFiles
    /\ nomem \in BOOLEAN /\ same \in BOOLEAN
    /\ pos + len <= MaxLen

\* The cells of the heap, of the spill file and of the caller's buffer.
CellType ==
    /\ ram \in [Units -> [Offsets -> Cell]]
    /\ disk \in [1 .. MaxFiles -> [0 .. DiskSize - 1 -> Cell]]
    /\ buf \in [Index -> Cell]

\* Only a unit with cells is used, and only an open spill file is; the pages
\* being swapped still own their blocks, and none is swapped twice.
UsedUnits ==
    /\ \A u \in Units : u \in heap \/ spill[u] # 0 => USize(u) > 0
    /\ \A u \in Units : spill[u] # 0 => tempFile # 0
    /\ tempFile # 0 => tempFile \in files
    /\ writing # 0 => Seg(writing) \in heap
    /\ \A j \in DOMAIN opening : Seg(opening[j]) \in heap /\ opening[j] # writing
    /\ \A j, k \in DOMAIN opening : opening[j] = opening[k] => j = k

\* The NextSwap list names no page twice, and none that is yet to be used.
SwapList ==
    /\ \A n \in inmem : \E k \in DOMAIN nextSwap : nextSwap[k] = n
    /\ \A j, k \in DOMAIN nextSwap : nextSwap[j] = nextSwap[k] => j = k
    /\ \A k \in DOMAIN nextSwap : nextSwap[k] \in inmem \/ spill[Seg(nextSwap[k])] # 0

\* AllocHugeNode has dealt with subpage s of huge page h.
Dealt(h, s) ==
    hugeTab[h].page /\ s < hugeTab[h].there /\ ~(fill >= 0 /\ cur[2] = h /\ s <= fill)

\* numswapped divides the subpages dealt with: spilled below it, in memory above.
HugePages ==
    /\ \A h \in 1 .. MaxHuge :
          /\ hugeTab[h].there > 0 => hugeTab[h].last > 0
          /\ hugeTab[h].page => hugeTab[h].there > 0
          /\ ~hugeTab[h].page => hugeTab[h].swapped = 0
          /\ \A s \in 0 .. NumSub - 1 :
                /\ Sub(h, s) \in heap <=> Dealt(h, s) /\ s >= hugeTab[h].swapped
                /\ spill[Sub(h, s)] # 0 <=> Dealt(h, s) /\ s < hugeTab[h].swapped
    /\ fill >= 0 =>
          /\ Scanning /\ cur \in HugeUnits
          /\ hugeTab[cur[2]].page /\ fill < hugeTab[cur[2]].there
          /\ IF nomem THEN hugeTab[cur[2]].swapped > fill ELSE hugeTab[cur[2]].swapped = 0

\* The blocks lie below the ends of the tables, and those cut from the current
\* tiny page below the place of the next one.
BlocksBelow ==
    /\ \A b \in blocks : IF IsSeg(b.last) THEN b.last[2] <= nextSeg ELSE b.last[2] <= nextHuge
    /\ tiny.left > 0 =>
          \A b \in blocks : IsSeg(b.last) /\ b.first[2] <= tiny.node /\ tiny.node <= b.last[2] =>
             b.last[2] = tiny.node /\ b.end <= tiny.at

\* Unless the name of the spill file can fail, there is one spill file.
OneFile ==
    /\ files \subseteq {tempFile}
    /\ Len(opening) <= 1
    /\ opening # <<>> => tempFile = 0 /\ writing = 0

\* No cell outside a unit has a value.
Tails ==
    /\ \A u \in heap : \A i \in Offsets : i >= USize(u) => ram[u][i] = Junk
    /\ \A f \in 1 .. MaxFiles : \A a \in 0 .. DiskSize - 1 :
          a >= tmpFSize \/ f \notin files => disk[f][a] = Junk

StorageInv == StorageType /\ UsedUnits /\ OneHome /\ SwapList /\ HugePages /\ SpillDisjoint

------------------------------------------------------------------------------
(* Units, and lists of pages.                                                   *)

\* A unit is a page or a subpage.
LEMMA UnitForm ==
    ASSUME NEW u \in Units
    PROVE  \/ IsSeg(u) /\ u \in SegUnits /\ u[2] \in 1 .. MaxSeg /\ u = Seg(u[2])
           \/ /\ ~IsSeg(u) /\ u \in HugeUnits /\ u[2] \in 1 .. MaxHuge
              /\ u[3] \in 0 .. NumSub - 1 /\ u = Sub(u[2], u[3])
  BY DEF Units, SegUnits, HugeUnits, Seg, Sub, IsSeg

LEMMA SegForm ==
    ASSUME NEW n \in 1 .. MaxSeg
    PROVE  Seg(n) \in Units /\ IsSeg(Seg(n)) /\ Seg(n)[2] = n /\ Seg(n) \notin HugeUnits
  BY DEF Units, SegUnits, HugeUnits, Seg, Sub, IsSeg

LEMMA SubForm ==
    ASSUME NEW h \in 1 .. MaxHuge, NEW s \in 0 .. NumSub - 1
    PROVE  /\ Sub(h, s) \in Units /\ Sub(h, s) \in HugeUnits /\ ~IsSeg(Sub(h, s))
           /\ Sub(h, s)[2] = h /\ Sub(h, s)[3] = s
  BY DEF Units, HugeUnits, Sub, IsSeg

LEMMA USizeBound ==
    ASSUME TableOK, NEW u \in Units
    PROVE  USize(u) \in Nat /\ USize(u) <= SubSize
<1>1. NodeSize \in Nat /\ SubSize \in Nat /\ NodeSize <= SubSize
  BY VirtMemAssumption
<1>2. CASE IsSeg(u)
  <2>1. u[2] \in 1 .. MaxSeg
    BY <1>2, UnitForm
  <2>2. segSize[u[2]] \in 0 .. NodeSize
    BY <2>1 DEF TableOK
  <2> QED BY <1>1, <1>2, <2>2 DEF USize
<1>3. CASE ~IsSeg(u)
  <2>1. u[2] \in 1 .. MaxHuge
    BY <1>3, UnitForm
  <2>2. hugeTab[u[2]].last \in 0 .. SubSize
    BY <2>1 DEF TableOK
  <2> QED BY <1>1, <1>3, <2>2 DEF USize
<1> QED BY <1>2, <1>3

\* The sizes are in SegTab, and in the page and subpage counts of HugeTab.
LEMMA SizesSame ==
    ASSUME segSize' = segSize,
           \A h \in 1 .. MaxHuge : hugeTab'[h].there = hugeTab[h].there
                                /\ hugeTab'[h].last = hugeTab[h].last
    PROVE  \A u \in Units : USize(u)' = USize(u)
<1> TAKE u \in Units
<1>1. CASE IsSeg(u)
  BY <1>1 DEF USize
<1>2. CASE ~IsSeg(u)
  BY <1>2, UnitForm DEF USize
<1> QED BY <1>1, <1>2

\* What appending to a list, and cutting off either end, leaves of it.
LEMMA ListForm ==
    ASSUME NEW S, NEW s \in Seq(S)
    PROVE  /\ Len(s) \in Nat /\ DOMAIN s = 1 .. Len(s) /\ (\A k \in DOMAIN s : s[k] \in S)
           /\ <<>> \in Seq(S)
  OBVIOUS

LEMMA AppendForm ==
    ASSUME NEW S, NEW s \in Seq(S), NEW e \in S, NEW t, t = Append(s, e)
    PROVE  /\ t \in Seq(S) /\ Len(s) \in Nat /\ Len(t) = Len(s) + 1
           /\ DOMAIN s = 1 .. Len(s) /\ DOMAIN t = 1 .. Len(s) + 1 /\ t[Len(s) + 1] = e
           /\ \A k \in 1 .. Len(s) : t[k] = s[k] /\ s[k] \in S
  OBVIOUS

LEMMA SuffixForm ==
    ASSUME NEW S, NEW s \in Seq(S), NEW k \in DOMAIN s, NEW t, t = SubSeq(s, k + 1, Len(s))
    PROVE  /\ t \in Seq(S) /\ Len(s) \in Nat /\ k \in 1 .. Len(s)
           /\ DOMAIN s = 1 .. Len(s) /\ DOMAIN t = 1 .. Len(s) - k
           /\ \A i \in 1 .. Len(s) - k : t[i] = s[k + i]
           /\ \A i \in 1 .. Len(s) : s[i] \in S
  OBVIOUS

LEMMA PrefixForm ==
    ASSUME NEW S, NEW s \in Seq(S), s # <<>>, NEW t, t = SubSeq(s, 1, Len(s) - 1)
    PROVE  /\ t \in Seq(S) /\ Len(s) \in Nat /\ Len(s) > 0 /\ Len(s) \in DOMAIN s
           /\ DOMAIN s = 1 .. Len(s) /\ DOMAIN t = 1 .. Len(s) - 1 /\ Len(t) = Len(s) - 1
           /\ \A i \in 1 .. Len(s) - 1 : t[i] = s[i]
           /\ \A i \in 1 .. Len(s) : s[i] \in S
<1>1. Len(s) \in Nat /\ DOMAIN s = 1 .. Len(s) /\ \A i \in 1 .. Len(s) : s[i] \in S
  OBVIOUS
<1>2. Len(s) # 0
  OBVIOUS
<1>3. PICK m \in Nat : m = Len(s) - 1
  <2>1. Len(s) - 1 \in Nat
    BY <1>1, <1>2
  <2> QED BY <2>1
<1>4. \A i \in 1 .. m : s[i] \in S
  BY <1>1, <1>3
<1>5. 1 \in Int /\ m \in Int
  OBVIOUS
<1>6. /\ SubSeq(s, 1, m) \in Seq(S)
      /\ Len(SubSeq(s, 1, m)) = IF 1 <= m THEN m - 1 + 1 ELSE 0
      /\ \A i \in 1 .. m - 1 + 1 : SubSeq(s, 1, m)[i] = s[1 + i - 1]
  BY <1>4, <1>5, SubSeqProperties
<1>7. m - 1 + 1 = m /\ \A i \in 1 .. m : 1 + i - 1 = i
  OBVIOUS
<1>8. t \in Seq(S) /\ Len(t) = m /\ \A i \in 1 .. m : t[i] = s[i]
  BY <1>3, <1>6, <1>7
<1>9. DOMAIN t = 1 .. m
  BY <1>8
<1> QED BY <1>1, <1>2, <1>3, <1>8, <1>9

\* The two lists name pages.
LEMMA ListedPages ==
    ASSUME StorageType
    PROVE  /\ \A k \in DOMAIN nextSwap : nextSwap[k] \in 1 .. MaxSeg
           /\ \A k \in DOMAIN opening : opening[k] \in 1 .. MaxSeg
           /\ <<>> \in Seq(1 .. MaxSeg)
<1> DEFINE PageNo == 1 .. MaxSeg
<1>1. nextSwap \in Seq(PageNo) /\ opening \in Seq(PageNo)
  BY DEF StorageType
<1> HIDE DEF PageNo
<1>2. /\ \A k \in DOMAIN nextSwap : nextSwap[k] \in PageNo
      /\ \A k \in DOMAIN opening : opening[k] \in PageNo
      /\ <<>> \in Seq(PageNo)
  BY <1>1, ListForm
<1> QED BY <1>2 DEF PageNo

\* The innermost swap that waits is for a page with a block.
LEMMA InnermostForm ==
    ASSUME StorageInv, opening # <<>>
    PROVE  /\ opening[Len(opening)] \in 1 .. MaxSeg /\ Len(opening) \in DOMAIN opening
           /\ Seg(opening[Len(opening)]) \in heap
<1> DEFINE PageNo == 1 .. MaxSeg
<1>1. opening \in Seq(PageNo)
  BY DEF StorageInv, StorageType
<1>2. opening[Len(opening)] \in PageNo /\ Len(opening) \in DOMAIN opening
  <2> HIDE DEF PageNo
  <2> QED BY <1>1
<1> QED BY <1>2 DEF StorageInv, UsedUnits

\* The pages being swapped: those that wait for the file, and the one being written.
LEMMA LeavingForm ==
    \A n : n \in Leaving <=> (n = writing /\ writing # 0) \/ \E k \in DOMAIN opening : opening[k] = n
  BY DEF Leaving

\* With no swap under way, the flags tell which pages have blocks, and no unit
\* with a block has a place in the file.
LEMMA AtRest ==
    ASSUME StorageInv, Running
    PROVE  /\ opening = <<>> /\ writing = 0
           /\ \A n \in 1 .. MaxSeg : n \in inmem <=> Seg(n) \in heap
           /\ \A u \in heap : spill[u] = 0
<1>1. opening = <<>> /\ writing = 0
  BY DEF Running
<1>2. \A n : n \notin Leaving
  BY <1>1, LeavingForm
<1>3. \A u \in Units : u # Seg(0)
  BY DEF Units, SegUnits, HugeUnits, Seg, Sub
<1>4. \A u \in heap : u # Seg(writing)
  BY <1>1, <1>3 DEF StorageInv, StorageType
<1> QED BY <1>1, <1>2, <1>4 DEF StorageInv, OneHome

\* Conversely, a step that leaves none under way.
LEMMA RestAfter ==
    ASSUME opening' = <<>>, writing' = 0, heap' \subseteq Units,
           \A n \in 1 .. MaxSeg : n \in inmem' <=> Seg(n) \in heap',
           \A u \in heap' : spill'[u] = 0
    PROVE  OneHome'
<1>1. \A n : n \notin Leaving'
  BY DEF Leaving
<1>2. \A u \in Units : u # Seg(0)
  BY DEF Units, SegUnits, HugeUnits, Seg, Sub
<1>3. \A u \in heap' : u # Seg(writing')
  BY <1>2
<1> QED BY <1>1, <1>3 DEF OneHome

\* What SpillAlloc gives unit u: sectors behind everything that is in the file.
LEMMA SpillAllocOK ==
    ASSUME TableOK, StorageType, SpillDisjoint, NEW u \in Units, NEW base \in 0 .. DiskSize,
           SpillAlloc(u, base), \A v \in Units : USize(v)' = USize(v)
    PROVE  /\ spill' \in [Units -> 0 .. DiskSize + 1] /\ tmpFSize' \in 0 .. DiskSize
           /\ spill'[u] = base + 1 /\ (\A v \in Units : v # u => spill'[v] = spill[v])
           /\ base >= tmpFSize /\ tmpFSize' = base + USize(u)
           /\ SpillDisjoint'
<1>1. /\ USize(u) \in Nat /\ DiskSize \in Nat /\ tmpFSize \in 0 .. DiskSize
      /\ spill \in [Units -> 0 .. DiskSize + 1] /\ SectorSize \in Nat
  BY USizeBound, VirtMemAssumption DEF StorageType
<1>2. /\ base \in tmpFSize .. tmpFSize + SectorSize - 1 /\ base + USize(u) <= DiskSize
      /\ spill' = [spill EXCEPT ![u] = base + 1] /\ tmpFSize' = base + USize(u)
  BY DEF SpillAlloc
<1>3. spill'[u] = base + 1 /\ (\A v \in Units : v # u => spill'[v] = spill[v])
  BY <1>1, <1>2
<1>4. \A v \in Units : spill[v] # 0 => spill[v] - 1 + USize(v) <= tmpFSize
  BY DEF SpillDisjoint
<1>5. \A v \in Units : spill[v] \in Nat /\ USize(v) \in Nat
  BY <1>1, USizeBound
<1>6. ASSUME NEW v \in Units, spill'[v] # 0
      PROVE  spill'[v] - 1 + USize(v)' <= tmpFSize'
  BY <1>1, <1>2, <1>3, <1>4, <1>5, <1>6
<1>7. ASSUME NEW v \in Units, NEW w \in Units, v # w, spill'[v] # 0, spill'[w] # 0
      PROVE  spill'[v] + USize(v)' <= spill'[w] \/ spill'[w] + USize(w)' <= spill'[v]
  <2>1. CASE v = u
    BY <1>1, <1>2, <1>3, <1>4, <1>5, <1>7, <2>1
  <2>2. CASE w = u
    BY <1>1, <1>2, <1>3, <1>4, <1>5, <1>7, <2>2
  <2>3. CASE v # u /\ w # u
    BY <1>3, <1>7, <2>3 DEF SpillDisjoint
  <2> QED BY <2>1, <2>2, <2>3
<1>8. SpillDisjoint'
  BY <1>6, <1>7 DEF SpillDisjoint
<1> QED BY <1>1, <1>2, <1>3, <1>8

\* A step that leaves the subpages alone.
LEMMA HugeSame ==
    ASSUME HugePages, UNCHANGED <<hugeTab, fill, nomem>>,
           fill >= 0 => UNCHANGED <<cur, op>>,
           \A u \in HugeUnits : (u \in heap' <=> u \in heap) /\ spill'[u] = spill[u]
    PROVE  HugePages'
<1>1. \A h \in 1 .. MaxHuge, s \in 0 .. NumSub - 1 : Sub(h, s) \in HugeUnits
  BY SubForm
<1>2. \A h, s : Dealt(h, s)' <=> Dealt(h, s)
  BY DEF Dealt
<1>3. fill' >= 0 => Scanning' /\ cur' \in HugeUnits
  BY DEF HugePages, Scanning
<1> QED BY <1>1, <1>2, <1>3 DEF HugePages

------------------------------------------------------------------------------
(* AllocStg, and the steps that begin and end a request, move no data.     *)

\* The last piece a size is cut into is not empty and fits the limit.
LEMMA PiecesRest ==
    ASSUME NEW size \in Int, NEW limit \in Nat \ {0}, NEW k \in Nat \ {0}, Pieces(size, limit, k)
    PROVE  Rest(size, limit, k) \in 1 .. limit
<1>1. (k - 1) * limit < size /\ size <= k * limit
  BY DEF Pieces
<1>2. k * limit = (k - 1) * limit + limit /\ (k - 1) * limit \in Nat
  OBVIOUS
<1> QED BY <1>1, <1>2 DEF Rest

\* AllocStg gives sizes to pages and huge pages that had none.
LEMMA AllocSizes ==
    ASSUME TableInv, NEW size \in Nat \ {0}, op = "idle", UNCHANGED <<op, cur, off, len, pos>>,
           AllocTinyStg(size) \/ AllocNormalStg(size) \/ AllocHugeStg(size)
    PROVE  /\ \A u \in Units : USize(u) # 0 => USize(u)' = USize(u)
           /\ \A h \in 1 .. MaxHuge :
                 \/ hugeTab'[h] = hugeTab[h]
                 \/ /\ hugeTab[h].there = 0 /\ hugeTab'[h].there > 0 /\ hugeTab'[h].last > 0
                    /\ ~hugeTab'[h].page /\ hugeTab'[h].swapped = 0
<1> DEFINE Grows == \A n \in 1 .. MaxSeg : segSize[n] # 0 => segSize'[n] = segSize[n]
<1>1. CASE AllocTinyStg(size) \/ AllocNormalStg(size)
  <2>1. hugeTab' = hugeTab /\ nextHuge' = nextHuge
    BY <1>1 DEF AllocTinyStg, AllocNormalStg
  <2>2. segSize' = segSize \/ GetStg(NodeSize, 1) \/ \E k \in 1 .. MaxSeg : GetStg(size, k)
    BY <1>1 DEF AllocTinyStg, AllocNormalStg
  <2>3. 1 \in 1 .. MaxSeg /\ NodeSize \in Nat \ {0}
    BY VirtMemAssumption
  <2>4. Grows
    <3>1. CASE segSize' = segSize
      BY <3>1
    <3>2. CASE GetStg(NodeSize, 1)
      BY <2>1, <2>3, <3>2, GetStgOK
    <3>3. CASE \E k \in 1 .. MaxSeg : GetStg(size, k)
      BY <2>1, <3>3, GetStgOK
    <3> QED BY <2>2, <3>1, <3>2, <3>3
  <2>5. \A u \in Units : USize(u) # 0 => USize(u)' = USize(u)
    <3> TAKE u \in Units
    <3>1. CASE IsSeg(u)
      <4>1. u[2] \in 1 .. MaxSeg
        BY <3>1, UnitForm
      <4> QED BY <2>4, <3>1, <4>1 DEF USize
    <3>2. CASE ~IsSeg(u)
      BY <2>1, <3>2 DEF USize
    <3> QED BY <3>1, <3>2
  <2> QED BY <2>1, <2>5
<1>2. CASE AllocHugeStg(size)
  <2>0. /\ NumSub \in Nat \ {0} /\ SubSize \in Nat \ {0} /\ NumSub * SubSize \in Nat \ {0}
        /\ MaxHuge \in Nat /\ nextHuge \in 0 .. MaxHuge /\ TableOK
    <3>1. NumSub \in Nat \ {0} /\ SubSize \in Nat \ {0} /\ MaxHuge \in Nat
      BY VirtMemAssumption
    <3>2. NumSub * SubSize \in Nat \ {0}
      BY <3>1
    <3> QED BY <3>1, <3>2 DEF TableInv, TableOK
  <2>1. segSize' = segSize
    BY <1>2 DEF AllocHugeStg
  <2>2. PICK k \in 1 .. MaxHuge, j \in 1 .. NumSub :
           /\ Pieces(size, NumSub * SubSize, k)
           /\ Pieces(Rest(size, NumSub * SubSize, k), SubSize, j)
           /\ hugeTab' = [h \in 1 .. MaxHuge |->
                IF h > nextHuge /\ h < nextHuge + k THEN BigStg(NumSub, SubSize)
                ELSE IF h = nextHuge + k
                     THEN BigStg(j, Rest(Rest(size, NumSub * SubSize, k), SubSize, j))
                ELSE hugeTab[h]]
    BY <1>2 DEF AllocHugeStg
  <2>3. PICK r : r = Rest(size, NumSub * SubSize, k)
    OBVIOUS
  <2>4. r \in Int
    BY <2>0, <2>2, <2>3 DEF Rest
  <2>5. PICK l : l = Rest(r, SubSize, j)
    OBVIOUS
  <2>6. l \in 1 .. SubSize
    BY <2>0, <2>2, <2>3, <2>4, <2>5, PiecesRest
  <2>7. \A h \in 1 .. MaxHuge : h > nextHuge => hugeTab[h].there = 0
    BY <2>0 DEF TableOK
  <2>8. \A h \in 1 .. MaxHuge :
           \/ hugeTab'[h] = hugeTab[h]
           \/ /\ h > nextHuge
              /\ hugeTab'[h] = BigStg(NumSub, SubSize) \/ hugeTab'[h] = BigStg(j, l)
    BY <2>0, <2>2, <2>3, <2>5
  <2>9. \A h \in 1 .. MaxHuge :
           \/ hugeTab'[h] = hugeTab[h]
           \/ /\ hugeTab[h].there = 0 /\ hugeTab'[h].there > 0 /\ hugeTab'[h].last > 0
              /\ ~hugeTab'[h].page /\ hugeTab'[h].swapped = 0
    BY <2>0, <2>6, <2>7, <2>8 DEF BigStg
  <2>10. \A u \in Units : USize(u) # 0 => USize(u)' = USize(u)
    <3> TAKE u \in Units
    <3>1. CASE IsSeg(u)
      BY <2>1, <3>1 DEF USize
    <3>2. CASE ~IsSeg(u)
      <4>1. u[2] \in 1 .. MaxHuge /\ u[3] \in 0 .. NumSub - 1
        BY <3>2, UnitForm
      <4>2. CASE hugeTab'[u[2]] = hugeTab[u[2]]
        BY <3>2, <4>2 DEF USize
      <4>3. CASE hugeTab[u[2]].there = 0
        BY <2>0, <3>2, <4>1, <4>3 DEF USize
      <4> QED BY <2>9, <4>1, <4>2, <4>3
    <3> QED BY <3>1, <3>2
  <2> QED BY <2>9, <2>10
<1> QED BY <1>1, <1>2

LEMMA AllocStorage ==
    ASSUME TableInv, StorageInv, NEW size \in Nat \ {0}, AllocStg(size)
    PROVE  StorageInv'
<1>1. /\ op = "idle" /\ UNCHANGED <<inmem, nextSwap, heap, ram, spill, tmpFSize, tempFile, files>>
      /\ UNCHANGED <<opening, writing, fill, nomem, op, cur, off, len, pos, same>>
      /\ AllocTinyStg(size) \/ AllocNormalStg(size) \/ AllocHugeStg(size)
  BY DEF AllocStg, spillFile, swapping, request
<1>2. \A u \in Units : USize(u) # 0 => USize(u)' = USize(u)
  BY <1>1, AllocSizes
<1>3. \A u \in Units : u \in heap \/ spill[u] # 0 => USize(u)' = USize(u) /\ USize(u) > 0
  BY <1>2 DEF StorageInv, UsedUnits
<1>4. StorageType'
  BY <1>1 DEF StorageInv, StorageType
<1>5. UsedUnits'
  BY <1>1, <1>3 DEF StorageInv, UsedUnits
<1>6. OneHome' /\ SwapList'
  BY <1>1 DEF StorageInv, OneHome, Leaving, SwapList
<1>7. SpillDisjoint'
  BY <1>1, <1>3 DEF StorageInv, SpillDisjoint
<1>8. HugePages'
  <2>1. ~(fill >= 0) /\ ~(fill' >= 0)
    BY <1>1 DEF StorageInv, HugePages, Scanning
  <2>2. \A h \in 1 .. MaxHuge :
           \/ hugeTab'[h] = hugeTab[h]
           \/ /\ hugeTab[h].there = 0 /\ hugeTab'[h].there > 0 /\ hugeTab'[h].last > 0
              /\ ~hugeTab'[h].page /\ hugeTab'[h].swapped = 0
    BY <1>1, AllocSizes
  <2>3. ASSUME NEW h \in 1 .. MaxHuge
        PROVE  /\ hugeTab'[h].there > 0 => hugeTab'[h].last > 0
               /\ hugeTab'[h].page => hugeTab'[h].there > 0
               /\ ~hugeTab'[h].page => hugeTab'[h].swapped = 0
               /\ \A s \in 0 .. NumSub - 1 :
                     /\ Sub(h, s) \in heap' <=> Dealt(h, s)' /\ s >= hugeTab'[h].swapped
                     /\ spill'[Sub(h, s)] # 0 <=> Dealt(h, s)' /\ s < hugeTab'[h].swapped
    <3>1. CASE hugeTab'[h] = hugeTab[h]
      <4>1. \A s : Dealt(h, s)' <=> Dealt(h, s)
        BY <1>1, <3>1 DEF Dealt
      <4> QED BY <1>1, <3>1, <4>1 DEF StorageInv, HugePages
    <3>2. CASE /\ hugeTab[h].there = 0 /\ hugeTab'[h].there > 0 /\ hugeTab'[h].last > 0
               /\ ~hugeTab'[h].page /\ hugeTab'[h].swapped = 0
      <4>1. ~hugeTab[h].page
        BY <3>2 DEF StorageInv, HugePages
      <4>2. \A s : ~Dealt(h, s)' /\ ~Dealt(h, s)
        BY <3>2, <4>1 DEF Dealt
      <4> QED BY <1>1, <3>2, <4>2 DEF StorageInv, HugePages
    <3> QED BY <2>2, <3>1, <3>2
  <2> QED BY <2>1, <2>3 DEF HugePages
<1> QED BY <1>4, <1>5, <1>6, <1>7, <1>8 DEF StorageInv

\* Begin, CopyBack and Return change the request alone.
LEMMA RequestStorage ==
    ASSUME TableInv, StorageInv,
           UNCHANGED <<table, inmem, nextSwap, heap, ram, spill, spillFile, swapping, fill, nomem>>,
           ~Scanning, pos' + len' <= MaxLen, same' \in BOOLEAN
    PROVE  StorageInv'
<1>1. /\ UNCHANGED <<segSize, hugeTab, inmem, nextSwap, heap, spill, tmpFSize, tempFile, files>>
      /\ UNCHANGED <<opening, writing, fill, nomem>>
  BY DEF table, spillFile, swapping
<1>2. \A u \in Units : USize(u)' = USize(u)
  BY <1>1, SizesSame
<1>3. StorageType'
  BY <1>1 DEF StorageInv, StorageType
<1>4. UsedUnits' /\ OneHome' /\ SwapList' /\ SpillDisjoint'
  BY <1>1, <1>2 DEF StorageInv, UsedUnits, OneHome, Leaving, SwapList, SpillDisjoint
<1>5. HugePages'
  <2>1. ~(fill >= 0)
    BY DEF StorageInv, HugePages
  <2> QED BY <1>1, <2>1, HugeSame DEF StorageInv
<1> QED BY <1>3, <1>4, <1>5 DEF StorageInv

------------------------------------------------------------------------------
(* The steps that give units their first storage.                          *)

\* A request under way is at a unit that has cells.
LEMMA AtUsedUnit ==
    ASSUME TableInv, Scanning
    PROVE  cur \in Units /\ off \in Nat /\ len \in Nat /\ pos \in Nat /\ off < USize(cur)
           /\ USize(cur) \in Nat /\ USize(cur) > 0
<1>1. cur \in Units /\ off \in Offsets /\ len \in Nat /\ pos \in Nat /\ off < USize(cur)
  BY DEF TableInv, RequestOK, RequestFits, Inside
<1>2. USize(cur) \in Nat
  BY <1>1, USizeBound DEF TableInv
<1> QED BY <1>1, <1>2 DEF Offsets

\* malloc fails for good only when no page is in memory, and then the unit
\* gets a place in the spill file, which is open.
LEMMA TakeSpillOK ==
    ASSUME TableInv, StorageInv, NEW u \in Units, u \notin heap, TakeSpill(u),
           \A v \in Units : USize(v)' = USize(v)
    PROVE  /\ spill' \in [Units -> 0 .. DiskSize + 1] /\ tmpFSize' \in 0 .. DiskSize
           /\ tempFile' \in 1 .. MaxFiles /\ files' \subseteq 1 .. MaxFiles /\ tempFile' \in files'
           /\ heap' = heap /\ ram' = ram /\ disk' = disk /\ inmem = {}
           /\ spill'[u] > 0 /\ (\A v \in Units : v # u => spill'[v] = spill[v])
           /\ spill'[u] > tmpFSize /\ tmpFSize' = spill'[u] - 1 + USize(u)
           /\ SpillDisjoint'
<1>1. PICK base \in 0 .. DiskSize : SpillAlloc(u, base)
  BY DEF TakeSpill
<1>2. heap' = heap /\ ram' = ram /\ disk' = disk
  BY DEF TakeSpill
<1>3. inmem = {}
  BY DEF TakeSpill, GivenUp, StorageInv, SwapList
<1>4. /\ tempFile' \in 1 .. MaxFiles /\ files' \subseteq 1 .. MaxFiles /\ tempFile' \in files'
  <2>1. CASE tempFile = 0
    <3>1. PICK f \in 1 .. MaxFiles : OpenTempFile(f)
      BY <2>1 DEF TakeSpill
    <3> QED BY <3>1 DEF OpenTempFile, StorageInv, StorageType
  <2>2. CASE tempFile # 0
    <3>1. UNCHANGED <<tempFile, files>>
      BY <2>2 DEF TakeSpill
    <3> QED BY <2>2, <3>1, VirtMemAssumption DEF StorageInv, StorageType, UsedUnits
  <2> QED BY <2>1, <2>2
<1>5. /\ spill' \in [Units -> 0 .. DiskSize + 1] /\ tmpFSize' \in 0 .. DiskSize
      /\ spill'[u] = base + 1 /\ (\A v \in Units : v # u => spill'[v] = spill[v])
      /\ base >= tmpFSize /\ tmpFSize' = base + USize(u)
      /\ SpillDisjoint'
  BY <1>1, SpillAllocOK DEF TableInv, StorageInv
<1>6. tmpFSize \in Nat /\ base \in Nat
  BY VirtMemAssumption DEF StorageInv, StorageType
<1> QED BY <1>2, <1>3, <1>4, <1>5, <1>6

LEMMA AllocNodeStorage ==
    ASSUME TableInv, StorageInv, AllocNode
    PROVE  StorageInv'
<1>1. /\ Scanning /\ Running /\ IsSeg(cur) /\ cur \notin heap /\ spill[cur] = 0
      /\ UNCHANGED <<segSize, hugeTab, opening, writing, fill, nomem, op, cur, len, pos, same>>
  BY DEF AllocNode, NeedsNode, table, swapping, request
<1>2. cur \in Units /\ USize(cur) > 0
  BY <1>1, AtUsedUnit
<1>3. \A u \in Units : USize(u)' = USize(u)
  BY <1>1, SizesSame
<1>4. PICK n \in 1 .. MaxSeg : cur = Seg(n) /\ cur[2] = n
  BY <1>1, <1>2, UnitForm
<1>5. cur \notin HugeUnits /\ \A m \in 1 .. MaxSeg : Seg(m) = cur => m = n
  BY <1>4, SegForm
<1> DEFINE PageNo == 1 .. MaxSeg
<1>6. /\ nextSwap \in Seq(PageNo) /\ inmem \subseteq PageNo /\ n \in PageNo
      /\ opening' = <<>> /\ writing' = 0
      /\ \A m \in PageNo : m \in inmem <=> Seg(m) \in heap
      /\ \A u \in heap : spill[u] = 0
  BY <1>1, AtRest DEF StorageInv, StorageType
<1>7. CASE TakeBlock(cur) /\ inmem' = inmem \cup {n} /\ nextSwap' = Append(nextSwap, n)
  <2>1. heap' = heap \cup {cur} /\ UNCHANGED <<spill, tmpFSize, tempFile, files>>
    BY <1>7 DEF TakeBlock, spillFile
  <2>2. /\ nextSwap' \in Seq(1 .. MaxSeg) /\ Len(nextSwap') = Len(nextSwap) + 1
        /\ Len(nextSwap) \in Nat /\ nextSwap'[Len(nextSwap) + 1] = n
        /\ \A k \in 1 .. Len(nextSwap) : nextSwap'[k] = nextSwap[k] /\ nextSwap[k] \in 1 .. MaxSeg
        /\ DOMAIN nextSwap = 1 .. Len(nextSwap) /\ DOMAIN nextSwap' = 1 .. Len(nextSwap) + 1
    <3>1. nextSwap' = Append(nextSwap, n)
      BY <1>7
    <3> HIDE DEF PageNo
    <3>2. /\ nextSwap' \in Seq(PageNo) /\ Len(nextSwap') = Len(nextSwap) + 1
          /\ Len(nextSwap) \in Nat /\ nextSwap'[Len(nextSwap) + 1] = n
          /\ \A k \in 1 .. Len(nextSwap) : nextSwap'[k] = nextSwap[k] /\ nextSwap[k] \in PageNo
          /\ DOMAIN nextSwap = 1 .. Len(nextSwap) /\ DOMAIN nextSwap' = 1 .. Len(nextSwap) + 1
      BY <1>6, <3>1, AppendForm
    <3> QED BY <3>2 DEF PageNo
  <2>3. StorageType'
    BY <1>1, <1>2, <1>7, <2>1, <2>2 DEF StorageInv, StorageType
  <2>4. UsedUnits'
    BY <1>1, <1>2, <1>3, <2>1 DEF StorageInv, UsedUnits
  <2>5. OneHome'
    <3>1. \A m \in 1 .. MaxSeg : m \in inmem' <=> Seg(m) \in heap'
      BY <1>4, <1>5, <1>6, <1>7, <2>1
    <3>2. \A u \in heap' : spill'[u] = 0
      BY <1>1, <1>6, <2>1
    <3> QED BY <1>6, <2>3, <3>1, <3>2, RestAfter DEF StorageType
  <2>6. SwapList'
    <3>1. n \notin inmem /\ \A k \in DOMAIN nextSwap : nextSwap[k] # n
      BY <1>1, <1>4, <1>6 DEF StorageInv, SwapList
    <3>2. DOMAIN nextSwap = 1 .. Len(nextSwap) /\ DOMAIN nextSwap' = 1 .. Len(nextSwap) + 1
      BY <2>2
    <3>3. ASSUME NEW m \in inmem' PROVE \E k \in DOMAIN nextSwap' : nextSwap'[k] = m
      <4>1. CASE m = n
        BY <2>2, <3>2, <4>1
      <4>2. CASE m # n
        <5>1. PICK k \in DOMAIN nextSwap : nextSwap[k] = m
          BY <1>7, <4>2, <3>3 DEF StorageInv, SwapList
        <5> QED BY <2>2, <3>2, <5>1
      <4> QED BY <4>1, <4>2
    <3>4. ASSUME NEW j \in DOMAIN nextSwap', NEW k \in DOMAIN nextSwap', nextSwap'[j] = nextSwap'[k]
          PROVE  j = k
      <4>1. CASE j \in DOMAIN nextSwap /\ k \in DOMAIN nextSwap
        BY <2>2, <3>2, <3>4, <4>1 DEF StorageInv, SwapList
      <4> QED BY <2>2, <3>1, <3>2, <3>4, <4>1
    <3>5. \A k \in DOMAIN nextSwap' : nextSwap'[k] \in inmem' \/ spill'[Seg(nextSwap'[k])] # 0
      BY <1>7, <2>1, <2>2, <3>2 DEF StorageInv, SwapList
    <3> QED BY <3>3, <3>4, <3>5 DEF SwapList
  <2>7. HugePages'
    BY <1>1, <1>5, <2>1, HugeSame DEF StorageInv
  <2>8. SpillDisjoint'
    BY <1>3, <2>1 DEF StorageInv, SpillDisjoint
  <2> QED BY <2>3, <2>4, <2>5, <2>6, <2>7, <2>8 DEF StorageInv
<1>8. CASE TakeSpill(cur) /\ inmem' = inmem \ {n} /\ nextSwap' = <<n>>
  <2>1. /\ spill' \in [Units -> 0 .. DiskSize + 1] /\ tmpFSize' \in 0 .. DiskSize
        /\ tempFile' \in 1 .. MaxFiles /\ files' \subseteq 1 .. MaxFiles /\ tempFile' \in files'
        /\ heap' = heap /\ inmem = {} /\ spill'[cur] > 0
        /\ (\A v \in Units : v # cur => spill'[v] = spill[v]) /\ SpillDisjoint'
    BY <1>1, <1>2, <1>3, <1>8, TakeSpillOK
  <2>2. nextSwap' \in Seq(1 .. MaxSeg) /\ DOMAIN nextSwap' = {1} /\ nextSwap'[1] = n
    BY <1>8
  <2>3. StorageType'
    BY <1>1, <1>8, <2>1, <2>2, VirtMemAssumption DEF StorageInv, StorageType
  <2>4. UsedUnits'
    BY <1>1, <1>2, <1>3, <2>1, VirtMemAssumption DEF StorageInv, UsedUnits
  <2>5. OneHome'
    <3>1. \A u \in heap' : spill'[u] = 0
      BY <1>1, <1>6, <2>1 DEF StorageInv, StorageType
    <3>2. inmem' = inmem
      BY <1>8, <2>1
    <3> QED BY <1>6, <2>1, <2>3, <3>1, <3>2, RestAfter DEF StorageType
  <2>6. SwapList'
    BY <1>4, <1>8, <2>1, <2>2, VirtMemAssumption DEF SwapList
  <2>7. HugePages'
    <3>1. \A u \in HugeUnits : spill'[u] = spill[u]
      BY <1>5, <2>1 DEF Units
    <3> QED BY <1>1, <2>1, <3>1, HugeSame DEF StorageInv
  <2> QED BY <2>1, <2>3, <2>4, <2>5, <2>6, <2>7 DEF StorageInv
<1> QED BY <1>4, <1>7, <1>8 DEF AllocNode

LEMMA AllocHugeNodeStorage ==
    ASSUME TableInv, StorageInv, AllocHugeNode
    PROVE  StorageInv'
<1>1. /\ Scanning /\ Running /\ ~IsSeg(cur) /\ ~hugeTab[cur[2]].page
      /\ hugeTab' = [hugeTab EXCEPT ![cur[2]].page = TRUE]
      /\ fill' = hugeTab[cur[2]].there - 1 /\ nomem' = FALSE
      /\ UNCHANGED <<segSize, inmem, nextSwap, heap, spill, tmpFSize, tempFile, files, opening, writing>>
      /\ UNCHANGED <<op, cur, off, len, pos, same>>
  BY DEF AllocHugeNode, NeedsPage, spillFile, swapping, request
<1>2. /\ cur \in HugeUnits /\ cur[2] \in 1 .. MaxHuge /\ cur[3] \in 0 .. NumSub - 1
      /\ USize(cur) > 0
  BY <1>1, AtUsedUnit, UnitForm
<1>3. /\ hugeTab \in [1 .. MaxHuge -> [there : 0 .. NumSub, last : 0 .. SubSize,
                                      swapped : 0 .. NumSub, page : BOOLEAN]]
      /\ NumSub \in Nat
  BY VirtMemAssumption DEF TableInv, TableOK
<1>4. PICK g \in 1 .. MaxHuge : g = cur[2]
  BY <1>2
<1>5. /\ hugeTab'[g].page /\ hugeTab'[g].there = hugeTab[g].there
      /\ hugeTab'[g].last = hugeTab[g].last /\ hugeTab'[g].swapped = hugeTab[g].swapped
      /\ \A h \in 1 .. MaxHuge : h # g => hugeTab'[h] = hugeTab[h]
  BY <1>1, <1>3, <1>4
<1>6. hugeTab[g].there \in 1 .. NumSub
  <2>1. cur[3] < hugeTab[g].there
    BY <1>1, <1>2, <1>3, <1>4 DEF USize
  <2> QED BY <1>2, <1>3, <1>4, <2>1
<1>7. \A u \in Units : USize(u)' = USize(u)
  BY <1>1, <1>5, SizesSame
<1>8. StorageType' /\ UsedUnits' /\ OneHome' /\ SwapList' /\ SpillDisjoint'
  <2>1. StorageType'
    BY <1>1 DEF StorageInv, StorageType
  <2>2. UsedUnits' /\ SpillDisjoint'
    BY <1>1, <1>7 DEF StorageInv, UsedUnits, SpillDisjoint
  <2>3. OneHome' /\ SwapList'
    BY <1>1 DEF StorageInv, OneHome, Leaving, SwapList
  <2> QED BY <2>1, <2>2, <2>3
<1>9. HugePages'
  <2>1. hugeTab[g].swapped = 0 /\ ~hugeTab[g].page /\ (hugeTab[g].there > 0 => hugeTab[g].last > 0)
    BY <1>1, <1>4 DEF StorageInv, HugePages
  <2>2. ~(fill >= 0)
    BY <1>1 DEF StorageInv, HugePages
  <2>3. \A s \in 0 .. NumSub - 1 : ~Dealt(g, s) /\ ~Dealt(g, s)'
    BY <1>1, <1>4, <1>5, <1>6, <2>1 DEF Dealt
  <2>4. \A h \in 1 .. MaxHuge : h # g => \A s : Dealt(h, s)' <=> Dealt(h, s)
    BY <1>1, <1>4, <1>5, <2>2 DEF Dealt
  <2>5. fill' >= 0 =>
          /\ Scanning' /\ cur' \in HugeUnits
          /\ hugeTab'[cur'[2]].page /\ fill' < hugeTab'[cur'[2]].there
          /\ IF nomem' THEN hugeTab'[cur'[2]].swapped > fill' ELSE hugeTab'[cur'[2]].swapped = 0
    BY <1>1, <1>2, <1>4, <1>5, <1>6, <2>1 DEF Scanning
  <2>6. ASSUME NEW h \in 1 .. MaxHuge
        PROVE  /\ hugeTab'[h].there > 0 => hugeTab'[h].last > 0
               /\ hugeTab'[h].page => hugeTab'[h].there > 0
               /\ ~hugeTab'[h].page => hugeTab'[h].swapped = 0
               /\ \A s \in 0 .. NumSub - 1 :
                     /\ Sub(h, s) \in heap' <=> Dealt(h, s)' /\ s >= hugeTab'[h].swapped
                     /\ spill'[Sub(h, s)] # 0 <=> Dealt(h, s)' /\ s < hugeTab'[h].swapped
    <3>1. CASE h = g
      BY <1>1, <1>5, <1>6, <2>1, <2>3, <3>1 DEF StorageInv, HugePages
    <3>2. CASE h # g
      BY <1>1, <1>5, <2>4, <3>2 DEF StorageInv, HugePages
    <3> QED BY <3>1, <3>2
  <2> QED BY <2>5, <2>6 DEF HugePages
<1> QED BY <1>8, <1>9 DEF StorageInv

LEMMA AllocSubpageStorage ==
    ASSUME TableInv, StorageInv, AllocSubpage
    PROVE  StorageInv'
<1>1. /\ Running /\ fill >= 0 /\ fill' = fill - 1
      /\ UNCHANGED <<segSize, inmem, opening, writing, op, cur, len, pos, same>>
      /\ hugeTab' = hugeTab \/ hugeTab' = [hugeTab EXCEPT ![cur[2]].swapped = fill + 1]
  BY DEF AllocSubpage, Filling, swapping, request
<1>2. /\ hugeTab \in [1 .. MaxHuge -> [there : 0 .. NumSub, last : 0 .. SubSize,
                                      swapped : 0 .. NumSub, page : BOOLEAN]]
      /\ NumSub \in Nat /\ fill \in -1 .. NumSub - 1 /\ SubSize \in Nat
  BY VirtMemAssumption DEF TableInv, TableOK, RequestOK
<1>3. /\ Scanning /\ cur \in HugeUnits /\ hugeTab[cur[2]].page /\ fill < hugeTab[cur[2]].there
      /\ IF nomem THEN hugeTab[cur[2]].swapped > fill ELSE hugeTab[cur[2]].swapped = 0
  BY <1>1 DEF StorageInv, HugePages
<1>4. PICK g \in 1 .. MaxHuge : g = cur[2]
  <2>1. PICK h \in 1 .. MaxHuge, s \in 0 .. NumSub - 1 : cur = Sub(h, s)
    BY <1>3 DEF HugeUnits
  <2> QED BY <2>1, SubForm
<1>5. PICK v \in Units : v = Sub(g, fill) /\ v \in HugeUnits
  BY <1>1, <1>2, SubForm
<1>6. USize(v) > 0
  <2>1. hugeTab[g].last > 0
    BY <1>2, <1>3, <1>4, <1>1 DEF StorageInv, HugePages
  <2>2. fill \in Int /\ hugeTab[g].there \in Int /\ fill < hugeTab[g].there /\ SubSize > 0
    <3>1. fill \in Int /\ hugeTab[g].there \in Int
      BY <1>2
    <3>2. SubSize > 0
      BY VirtMemAssumption
    <3> QED BY <1>3, <1>4, <3>1, <3>2
  <2>3. ~IsSeg(v) /\ v[2] = g /\ v[3] = fill
    <3>1. fill \in 0 .. NumSub - 1
      BY <1>1, <1>2
    <3> QED BY <1>5, <3>1, SubForm
  <2>4. USize(v) = IF fill >= hugeTab[g].there THEN 0
                   ELSE IF fill = hugeTab[g].there - 1 THEN hugeTab[g].last ELSE SubSize
    BY <2>3 DEF USize
  <2> QED BY <2>1, <2>2, <2>4
<1>7. v \notin heap /\ spill[v] = 0
  BY <1>1, <1>2, <1>4, <1>5 DEF StorageInv, HugePages, Dealt
<1>8. /\ \A h \in 1 .. MaxHuge : /\ h # g => hugeTab'[h] = hugeTab[h]
                                 /\ hugeTab'[h].there = hugeTab[h].there
                                 /\ hugeTab'[h].last = hugeTab[h].last
                                 /\ hugeTab'[h].page = hugeTab[h].page
  <2>1. CASE hugeTab' = hugeTab
    BY <2>1
  <2>2. CASE hugeTab' = [hugeTab EXCEPT ![g].swapped = fill + 1]
    BY <1>2, <2>2
  <2> QED BY <1>1, <1>4, <2>1, <2>2
<1>9. \A u \in Units : USize(u)' = USize(u)
  BY <1>1, <1>8, SizesSame
<1>10. /\ \A h \in 1 .. MaxHuge, s \in 0 .. NumSub - 1 :
             Dealt(h, s)' <=> Dealt(h, s) \/ (h = g /\ s = fill)
       /\ ~Dealt(g, fill)
  <2>1. ASSUME NEW s \in 0 .. NumSub - 1
        PROVE  Dealt(g, s)' <=> Dealt(g, s) \/ s = fill
    BY <1>1, <1>2, <1>3, <1>4, <1>8 DEF Dealt
  <2>2. ASSUME NEW h \in 1 .. MaxHuge, NEW s \in 0 .. NumSub - 1, h # g
        PROVE  Dealt(h, s)' <=> Dealt(h, s)
    BY <1>1, <1>4, <1>8, <2>2 DEF Dealt
  <2>3. ~Dealt(g, fill)
    BY <1>1, <1>2, <1>4 DEF Dealt
  <2> QED BY <2>1, <2>2, <2>3
<1>11. \A h \in 1 .. MaxHuge, s \in 0 .. NumSub - 1 :
          /\ Sub(h, s) \in Units /\ (Sub(h, s) = v <=> h = g /\ s = fill)
  BY <1>5, SubForm DEF Sub
<1>12. \A m \in 1 .. MaxSeg : Seg(m) # v
  <2>1. v \in HugeUnits
    BY <1>5
  <2> QED BY <2>1, SegForm
\* What numswapped must say of the subpages, before and after.
<1> DEFINE Divides(h, s, inheap, handle, at) ==
              /\ inheap <=> Dealt(h, s)' /\ s >= at
              /\ handle # 0 <=> Dealt(h, s)' /\ s < at
<1>13. ASSUME \A h \in 1 .. MaxHuge, s \in 0 .. NumSub - 1 :
                 Divides(h, s, Sub(h, s) \in heap', spill'[Sub(h, s)], hugeTab'[h].swapped),
              IF nomem' THEN hugeTab'[g].swapped > fill' ELSE hugeTab'[g].swapped = 0
       PROVE  HugePages'
  <2>1. fill' >= 0 => Scanning' /\ cur' \in HugeUnits /\ hugeTab'[g].page /\ fill' < hugeTab'[g].there
    BY <1>1, <1>2, <1>3, <1>4, <1>8 DEF Scanning
  <2>2. ASSUME NEW h \in 1 .. MaxHuge
        PROVE  /\ hugeTab'[h].there > 0 => hugeTab'[h].last > 0
               /\ hugeTab'[h].page => hugeTab'[h].there > 0
               /\ ~hugeTab'[h].page => hugeTab'[h].swapped = 0
    <3>1. CASE h = g
      BY <1>2, <1>3, <1>4, <1>8, <3>1 DEF StorageInv, HugePages
    <3>2. CASE h # g
      BY <1>8, <3>2 DEF StorageInv, HugePages
    <3> QED BY <3>1, <3>2
  <2>3. cur'[2] = g
    BY <1>1, <1>4
  <2> QED BY <1>13, <2>1, <2>2, <2>3 DEF HugePages
<1>14. CASE ~nomem /\ TakeBlock(v) /\ UNCHANGED <<hugeTab, nextSwap, nomem>>
  <2>1. heap' = heap \cup {v} /\ UNCHANGED <<spill, tmpFSize, tempFile, files>>
    BY <1>14 DEF TakeBlock, spillFile
  <2>2. StorageType'
    BY <1>1, <1>14, <2>1 DEF StorageInv, StorageType
  <2>3. UsedUnits'
    BY <1>1, <1>6, <1>9, <2>1 DEF StorageInv, UsedUnits
  <2>4. OneHome' /\ SwapList'
    <3>1. \A m \in 1 .. MaxSeg : m \in inmem' <=> Seg(m) \in heap'
      BY <1>1, <1>12, <2>1, AtRest
    <3>2. \A u \in heap' : spill'[u] = 0
      BY <1>1, <1>7, <2>1, AtRest
    <3> QED BY <1>1, <1>14, <2>1, <2>2, <3>1, <3>2, AtRest, RestAfter DEF StorageInv, StorageType, SwapList
  <2>5. SpillDisjoint'
    BY <1>9, <2>1 DEF StorageInv, SpillDisjoint
  <2>6. \A h \in 1 .. MaxHuge, s \in 0 .. NumSub - 1 :
           Divides(h, s, Sub(h, s) \in heap', spill'[Sub(h, s)], hugeTab'[h].swapped)
    <3> TAKE h \in 1 .. MaxHuge, s \in 0 .. NumSub - 1
    <3>1. CASE h = g /\ s = fill
      BY <1>1, <1>3, <1>4, <1>7, <1>10, <1>11, <1>14, <2>1, <3>1
    <3>2. CASE ~(h = g /\ s = fill)
      BY <1>10, <1>11, <1>14, <2>1, <3>2 DEF StorageInv, HugePages
    <3> QED BY <3>1, <3>2
  <2>7. IF nomem' THEN hugeTab'[g].swapped > fill' ELSE hugeTab'[g].swapped = 0
    BY <1>3, <1>4, <1>14
  <2> QED BY <1>13, <2>2, <2>3, <2>4, <2>5, <2>6, <2>7 DEF StorageInv
<1>15. CASE /\ TakeSpill(v)
            /\ \/ /\ ~nomem /\ nomem' = TRUE /\ nextSwap' = <<>>
                  /\ hugeTab' = [hugeTab EXCEPT ![g].swapped = fill + 1]
               \/ nomem /\ UNCHANGED <<hugeTab, nextSwap, nomem>>
  <2>1. /\ spill' \in [Units -> 0 .. DiskSize + 1] /\ tmpFSize' \in 0 .. DiskSize
        /\ tempFile' \in 1 .. MaxFiles /\ files' \subseteq 1 .. MaxFiles /\ tempFile' \in files'
        /\ heap' = heap /\ inmem = {} /\ spill'[v] > 0
        /\ (\A u \in Units : u # v => spill'[u] = spill[u]) /\ SpillDisjoint'
    <3>1. TakeSpill(v) /\ v \notin heap
      BY <1>7, <1>15
    <3> QED BY <1>9, <3>1, TakeSpillOK
  <2>2. nomem' = TRUE /\ (nextSwap' = <<>> \/ nextSwap' = nextSwap)
    BY <1>15 DEF StorageInv, StorageType
  <2>3. StorageType'
    <3>1. StorageType
      BY DEF StorageInv
    <3>2. nextSwap' \in Seq(1 .. MaxSeg)
      <4>1. CASE nextSwap' = <<>>
        BY <3>1, <4>1, ListedPages
      <4>2. CASE nextSwap' = nextSwap
        BY <3>1, <4>2 DEF StorageType
      <4> QED BY <2>2, <4>1, <4>2
    <3>3. tempFile' \in 0 .. MaxFiles /\ nomem' \in BOOLEAN
      BY <2>1, <2>2, VirtMemAssumption
    <3>4. inmem' = inmem /\ same' = same /\ UNCHANGED <<opening, writing>> /\ pos' = pos /\ len' = len
      BY <1>1
    <3> QED BY <2>1, <3>1, <3>2, <3>3, <3>4 DEF StorageType
  <2>4. UsedUnits'
    BY <1>1, <1>6, <1>9, <2>1, VirtMemAssumption DEF StorageInv, UsedUnits
  <2>5. OneHome'
    <3>1. \A u \in heap' : spill'[u] = 0
      BY <1>1, <1>7, <2>1, AtRest DEF StorageInv, StorageType
    <3> QED BY <1>1, <2>1, <2>3, <3>1, AtRest, RestAfter DEF StorageType
  <2>6. SwapList'
    <3>1. CASE nextSwap' = <<>>
      BY <1>1, <2>1, <3>1 DEF SwapList
    <3>2. CASE nextSwap' = nextSwap
      <4>1. \A k \in DOMAIN nextSwap : nextSwap[k] \in 1 .. MaxSeg
        BY ListedPages DEF StorageInv
      <4>2. \A k \in DOMAIN nextSwap : spill'[Seg(nextSwap[k])] = spill[Seg(nextSwap[k])]
        BY <1>12, <2>1, <4>1, SegForm
      <4> QED BY <1>1, <2>1, <3>2, <4>2 DEF StorageInv, SwapList
    <3> QED BY <2>2, <3>1, <3>2
  <2>7. (~nomem /\ hugeTab'[g].swapped = fill + 1) \/ (nomem /\ hugeTab' = hugeTab)
    <3>1. hugeTab' = [hugeTab EXCEPT ![g].swapped = fill + 1] => hugeTab'[g].swapped = fill + 1
      BY <1>2
    <3> QED BY <1>15, <3>1
  <2>10. hugeTab'[g].swapped \in Nat /\ hugeTab'[g].swapped > fill
    <3>1. CASE nomem
      <4>1. hugeTab[g].swapped \in 0 .. NumSub
        BY <1>2
      <4> QED BY <1>2, <1>3, <1>4, <2>7, <3>1, <4>1
    <3>2. CASE ~nomem
      <4>1. fill \in Nat
        BY <1>1, <1>2
      <4>2. hugeTab'[g].swapped = fill + 1
        BY <2>7, <3>2
      <4> QED BY <4>1, <4>2
    <3> QED BY <3>1, <3>2
  <2>8. \A h \in 1 .. MaxHuge, s \in 0 .. NumSub - 1 :
           Divides(h, s, Sub(h, s) \in heap', spill'[Sub(h, s)], hugeTab'[h].swapped)
    <3> TAKE h \in 1 .. MaxHuge, s \in 0 .. NumSub - 1
    <3>1. CASE h = g /\ s = fill
      <4>1. Sub(h, s) = v /\ v \notin heap' /\ Dealt(h, s)'
        BY <1>7, <1>10, <1>11, <2>1, <3>1
      <4>2. spill'[v] # 0
        <5>1. spill' \in [Units -> 0 .. DiskSize + 1] /\ DiskSize \in Nat /\ spill'[v] > 0
          BY <2>1, VirtMemAssumption
        <5> QED BY <5>1
      <4>3. s < hugeTab'[h].swapped /\ ~(s >= hugeTab'[h].swapped)
        BY <1>2, <2>10, <3>1
      <4> QED BY <4>1, <4>2, <4>3
    <3>2. CASE h = g /\ s # fill
      <4>1. CASE nomem
        BY <1>10, <1>11, <2>1, <2>7, <3>2, <4>1 DEF StorageInv, HugePages
      <4>2. CASE ~nomem
        <5>1. hugeTab[g].swapped = 0 /\ hugeTab'[g].swapped = fill + 1
          BY <1>3, <1>4, <2>7, <4>2
        <5>2. Dealt(g, s) => s > fill
          BY <1>1, <1>2, <1>4 DEF Dealt
        <5>3. /\ Sub(g, s) \in heap <=> Dealt(g, s)
              /\ spill[Sub(g, s)] = 0
          BY <5>1 DEF StorageInv, HugePages
        <5>4. /\ Sub(h, s) \in heap' <=> Dealt(h, s)'
              /\ spill'[Sub(h, s)] = 0
          BY <1>10, <1>11, <2>1, <3>2, <5>3
        <5>5. Dealt(h, s)' => s > fill
          BY <1>10, <3>2, <5>2
        <5>6. fill \in Int /\ s \in Int
          BY <1>2
        <5>7. (s > fill => s >= fill + 1) /\ (s < fill + 1 => ~(s > fill))
          BY <5>6
        <5> QED BY <3>2, <5>1, <5>4, <5>5, <5>7
      <4> QED BY <4>1, <4>2
    <3>3. CASE h # g
      BY <1>8, <1>10, <1>11, <2>1, <3>3 DEF StorageInv, HugePages
    <3> QED BY <3>1, <3>2, <3>3
  <2>9. IF nomem' THEN hugeTab'[g].swapped > fill' ELSE hugeTab'[g].swapped = 0
    BY <1>1, <1>2, <2>2, <2>10
  <2> QED BY <1>13, <2>1, <2>3, <2>4, <2>5, <2>6, <2>8, <2>9 DEF StorageInv
<1>16. Sub(cur[2], fill) = v
  BY <1>4, <1>5
<1>17. \/ ~nomem /\ TakeBlock(v) /\ UNCHANGED <<hugeTab, nextSwap, nomem>>
       \/ /\ TakeSpill(v)
          /\ \/ /\ ~nomem /\ nomem' = TRUE /\ nextSwap' = <<>>
                /\ hugeTab' = [hugeTab EXCEPT ![g].swapped = fill + 1]
             \/ nomem /\ UNCHANGED <<hugeTab, nextSwap, nomem>>
  BY <1>4, <1>16 DEF AllocSubpage
<1> QED BY <1>14, <1>15, <1>17

------------------------------------------------------------------------------
(* Swapping.                                                               *)

\* An allocation, the only place where pages are swapped out, waits for a write.
LEMMA AllocatingForm == Allocating => writing = 0
  BY DEF Allocating, Running, NeedsNode, NeedsPage, Filling

\* A page that is swapped out gets a place behind the others, and keeps its block.
LEMMA SwapToOK ==
    ASSUME TableInv, StorageInv, writing = 0, NEW n \in 1 .. MaxSeg,
           Seg(n) \in heap, SwapTo(n), opening' \in Seq(1 .. MaxSeg),
           nextSwap' \in Seq(1 .. MaxSeg), inmem' \subseteq inmem,
           tempFile' \in 1 .. MaxFiles, files' \subseteq 1 .. MaxFiles,
           UNCHANGED <<segSize, hugeTab, heap, fill, nomem, op, cur, len, pos, same>>
    PROVE  /\ StorageType' /\ HugePages' /\ SpillDisjoint'
           /\ writing' = n /\ n # 0 /\ spill'[Seg(n)] # 0
           /\ \A u \in Units : u # Seg(n) => spill'[u] = spill[u]
           /\ \A u \in heap' : (spill'[u] # 0) <=> (u = Seg(writing'))
           /\ \A u \in Units : u \in heap' \/ spill'[u] # 0 => USize(u)' > 0
<1>1. PICK base \in 0 .. DiskSize : SpillAlloc(Seg(n), base)
  BY DEF SwapTo
<1>2. writing' = n /\ n # 0
  BY DEF SwapTo
<1>3. \A u \in Units : USize(u)' = USize(u)
  BY SizesSame
<1>4. Seg(n) \in Units /\ Seg(n) \notin HugeUnits
  BY SegForm
<1>5. /\ spill' \in [Units -> 0 .. DiskSize + 1] /\ tmpFSize' \in 0 .. DiskSize
      /\ spill'[Seg(n)] = base + 1 /\ (\A v \in Units : v # Seg(n) => spill'[v] = spill[v])
      /\ SpillDisjoint'
  BY <1>1, <1>3, <1>4, SpillAllocOK DEF TableInv, StorageInv
<1>6. base + 1 # 0
  BY VirtMemAssumption
<1>7. StorageType'
  <2>1. StorageType /\ tempFile' \in 0 .. MaxFiles /\ writing' \in 0 .. MaxSeg
    BY <1>2, VirtMemAssumption DEF StorageInv
  <2> QED BY <1>5, <2>1 DEF StorageType
<1>8. HugePages'
  BY <1>4, <1>5, HugeSame DEF StorageInv, Units
<1>9. \A u \in heap : u \in Units /\ spill[u] = 0
  <2>1. \A u \in Units : u # Seg(0)
    BY DEF Units, SegUnits, HugeUnits, Seg, Sub
  <2> QED BY <2>1 DEF StorageInv, StorageType, OneHome
<1>10. \A u \in heap' : (spill'[u] # 0) <=> (u = Seg(writing'))
  BY <1>2, <1>5, <1>6, <1>9
<1>11. \A u \in Units : u \in heap' \/ spill'[u] # 0 => USize(u)' > 0
  BY <1>3, <1>5 DEF StorageInv, UsedUnits
<1> QED BY <1>2, <1>5, <1>6, <1>7, <1>8, <1>10, <1>11

LEMMA SwapOutStorage ==
    ASSUME TableInv, StorageInv, SwapOutVirt
    PROVE  StorageInv'
<1>1. PICK k \in DOMAIN nextSwap :
         /\ nextSwap[k] \in inmem /\ \A j \in 1 .. k - 1 : nextSwap[j] \notin inmem
         /\ nextSwap' = SubSeq(nextSwap, k + 1, Len(nextSwap))
         /\ inmem' = inmem \ {nextSwap[k]}
         /\ IF tempFile = 0
            THEN /\ opening' = Append(opening, nextSwap[k])
                 /\ UNCHANGED <<writing, spill, tmpFSize>>
            ELSE SwapTo(nextSwap[k]) /\ UNCHANGED opening
  BY DEF SwapOutVirt
<1>2. /\ UNCHANGED <<segSize, hugeTab, heap, tempFile, files, fill, nomem, op, cur, len, pos, same>>
      /\ writing = 0
  BY AllocatingForm DEF SwapOutVirt, table, request
<1>3. StorageType
  BY DEF StorageInv
<1>4. PICK n \in 1 .. MaxSeg : n = nextSwap[k]
  BY <1>3, ListedPages
<1>5. n \in inmem /\ Seg(n) \in heap /\ n # 0 /\ \A j \in DOMAIN opening : opening[j] # n
  BY <1>1, <1>4, LeavingForm DEF StorageInv, OneHome
<1> DEFINE PageNo == 1 .. MaxSeg
<1>6. nextSwap \in Seq(PageNo) /\ opening \in Seq(PageNo) /\ n \in PageNo
  BY <1>3 DEF StorageType
<1>7. /\ nextSwap' \in Seq(PageNo) /\ Len(nextSwap) \in Nat /\ k \in 1 .. Len(nextSwap)
      /\ DOMAIN nextSwap = 1 .. Len(nextSwap) /\ DOMAIN nextSwap' = 1 .. Len(nextSwap) - k
      /\ \A i \in 1 .. Len(nextSwap) - k : nextSwap'[i] = nextSwap[k + i]
  <2> HIDE DEF PageNo
  <2>1. nextSwap' = SubSeq(nextSwap, k + 1, Len(nextSwap))
    BY <1>1
  <2> QED BY <1>6, <2>1, SuffixForm
<1>8. \A i \in DOMAIN nextSwap' : k + i \in DOMAIN nextSwap /\ nextSwap'[i] = nextSwap[k + i]
  BY <1>7
<1>9. \A i \in DOMAIN nextSwap' : nextSwap'[i] # n
  <2>1. \A i \in DOMAIN nextSwap' : k + i # k
    BY <1>7
  <2> QED BY <1>1, <1>4, <1>8, <2>1 DEF StorageInv, SwapList
<1>10. ASSUME \A u \in Units : u # Seg(n) => spill'[u] = spill[u]
       PROVE  SwapList'
  <2>1. ASSUME NEW m \in inmem' PROVE \E i \in DOMAIN nextSwap' : nextSwap'[i] = m
    <3>1. m \in inmem /\ m # n
      BY <1>1, <1>4
    <3>2. PICK j \in DOMAIN nextSwap : nextSwap[j] = m
      BY <3>1 DEF StorageInv, SwapList
    <3>3. j > k
      BY <1>1, <1>4, <1>7, <3>1, <3>2
    <3>4. j - k \in DOMAIN nextSwap' /\ k + (j - k) = j
      BY <1>7, <3>3
    <3> QED BY <1>8, <3>2, <3>4
  <2>2. ASSUME NEW i \in DOMAIN nextSwap', NEW j \in DOMAIN nextSwap', nextSwap'[i] = nextSwap'[j]
        PROVE  i = j
    <3>1. k + i = k + j
      BY <1>8, <2>2 DEF StorageInv, SwapList
    <3> QED BY <1>7, <3>1
  <2>3. ASSUME NEW i \in DOMAIN nextSwap'
        PROVE  nextSwap'[i] \in inmem' \/ spill'[Seg(nextSwap'[i])] # 0
    <3>1. PICK m \in PageNo : m = nextSwap'[i]
      BY <1>3, <1>8, ListedPages
    <3>2. m # n /\ (m \in inmem \/ spill[Seg(m)] # 0)
      BY <1>8, <1>9, <3>1 DEF StorageInv, SwapList
    <3>3. Seg(m) \in Units /\ Seg(m) # Seg(n)
      BY <3>2, SegForm
    <3> QED BY <1>1, <1>4, <1>10, <3>1, <3>2, <3>3
  <2> QED BY <2>1, <2>2, <2>3 DEF SwapList
<1>11. CASE tempFile = 0
  <2>1. opening' = Append(opening, n) /\ UNCHANGED <<heap, spill, tmpFSize, tempFile, files>>
        /\ writing' = 0
    BY <1>1, <1>2, <1>4, <1>11
  <2>2. /\ opening' \in Seq(PageNo) /\ Len(opening) \in Nat
        /\ DOMAIN opening = 1 .. Len(opening) /\ DOMAIN opening' = 1 .. Len(opening) + 1
        /\ opening'[Len(opening) + 1] = n
        /\ \A j \in 1 .. Len(opening) : opening'[j] = opening[j]
    <3> HIDE DEF PageNo
    <3> QED BY <1>6, <2>1, AppendForm
  <2>3. \A u \in Units : USize(u)' = USize(u)
    BY <1>2, SizesSame
  <2>4. StorageType'
    BY <1>1, <1>2, <1>3, <1>7, <2>1, <2>2 DEF StorageType
  <2>5. UsedUnits'
    <3>1. \A j \in DOMAIN opening' : Seg(opening'[j]) \in heap' /\ opening'[j] # writing'
      BY <1>2, <1>5, <2>1, <2>2 DEF StorageInv, UsedUnits
    <3>2. ASSUME NEW i \in DOMAIN opening', NEW j \in DOMAIN opening', opening'[i] = opening'[j]
          PROVE  i = j
      BY <1>5, <2>2, <3>2 DEF StorageInv, UsedUnits
    <3> QED BY <2>1, <2>3, <3>1, <3>2 DEF StorageInv, UsedUnits
  <2>6. OneHome'
    <3>1. \A m : (\E j \in DOMAIN opening' : opening'[j] = m)
                  <=> m = n \/ \E j \in DOMAIN opening : opening[j] = m
      BY <2>2
    <3>2. \A m : m \in Leaving' <=> m = n \/ m \in Leaving
      BY <1>2, <2>1, <3>1 DEF Leaving
    <3> QED BY <1>1, <1>2, <1>4, <2>1, <3>2 DEF StorageInv, OneHome
  <2>7. SwapList'
    BY <1>10, <2>1
  <2>8. HugePages'
    BY <1>2, <2>1, HugeSame DEF StorageInv
  <2>9. SpillDisjoint'
    BY <2>1, <2>3 DEF StorageInv, SpillDisjoint
  <2> QED BY <2>4, <2>5, <2>6, <2>7, <2>8, <2>9 DEF StorageInv
<1>12. CASE tempFile # 0
  <2>1. SwapTo(n) /\ UNCHANGED opening
    BY <1>1, <1>4, <1>12
  <2>2. tempFile' \in 1 .. MaxFiles /\ tempFile' \in files' /\ files' \subseteq 1 .. MaxFiles
    BY <1>2, <1>3, <1>12, VirtMemAssumption DEF StorageInv, StorageType, UsedUnits
  <2>3. inmem' \subseteq inmem /\ opening' \in Seq(PageNo)
    BY <1>1, <1>6, <2>1
  <2>4. /\ StorageType' /\ HugePages' /\ SpillDisjoint'
        /\ writing' = n /\ spill'[Seg(n)] # 0
        /\ \A u \in Units : u # Seg(n) => spill'[u] = spill[u]
        /\ \A u \in heap' : (spill'[u] # 0) <=> (u = Seg(writing'))
        /\ \A u \in Units : u \in heap' \/ spill'[u] # 0 => USize(u)' > 0
    BY <1>2, <1>5, <1>7, <2>1, <2>2, <2>3, SwapToOK
  <2>5. UsedUnits'
    BY <1>2, <1>5, <2>1, <2>2, <2>4, VirtMemAssumption DEF StorageInv, UsedUnits
  <2>6. OneHome'
    <3>1. \A m : m \in Leaving' <=> m = n \/ m \in Leaving
      BY <1>2, <1>5, <2>1, <2>4 DEF Leaving
    <3> QED BY <1>1, <1>2, <1>4, <2>4, <3>1 DEF StorageInv, OneHome
  <2>7. SwapList'
    BY <1>10, <2>4
  <2> QED BY <2>4, <2>5, <2>6, <2>7 DEF StorageInv
<1> QED BY <1>11, <1>12

LEMMA OpenSpillStorage ==
    ASSUME TableInv, StorageInv, OpenSpillFile
    PROVE  StorageInv'
<1>1. (\E f \in 1 .. MaxFiles : OpenTempFile(f)) /\ SwapTo(opening[Len(opening)])
  BY DEF OpenSpillFile
<1>2. /\ opening # <<>> /\ opening' = SubSeq(opening, 1, Len(opening) - 1) /\ writing = 0
      /\ UNCHANGED <<segSize, hugeTab, inmem, nextSwap, heap, fill, nomem, op, cur, len, pos, same>>
  BY DEF OpenSpillFile, table, request
<1>3. tempFile' \in 1 .. MaxFiles /\ tempFile' \in files' /\ files' \subseteq 1 .. MaxFiles
  BY <1>1 DEF OpenTempFile, StorageInv, StorageType
<1> DEFINE PageNo == 1 .. MaxSeg
<1>4. opening \in Seq(PageNo) /\ nextSwap' \in Seq(PageNo) /\ StorageType
  BY <1>2 DEF StorageInv, StorageType
<1>5. /\ opening' \in Seq(PageNo) /\ Len(opening) \in Nat /\ Len(opening) \in DOMAIN opening
      /\ DOMAIN opening = 1 .. Len(opening) /\ DOMAIN opening' = 1 .. Len(opening) - 1
      /\ \A i \in 1 .. Len(opening) - 1 : opening'[i] = opening[i]
      /\ \A i \in 1 .. Len(opening) : opening[i] \in PageNo
  <2> HIDE DEF PageNo
  <2> QED BY <1>2, <1>4, PrefixForm
<1>6. PICK n \in PageNo : n = opening[Len(opening)]
  BY <1>5
<1>7. Seg(n) \in heap
  BY <1>5, <1>6 DEF StorageInv, UsedUnits
<1>8. /\ StorageType' /\ HugePages' /\ SpillDisjoint'
      /\ writing' = n /\ n # 0 /\ spill'[Seg(n)] # 0
      /\ \A u \in Units : u # Seg(n) => spill'[u] = spill[u]
      /\ \A u \in heap' : (spill'[u] # 0) <=> (u = Seg(writing'))
      /\ \A u \in Units : u \in heap' \/ spill'[u] # 0 => USize(u)' > 0
  BY <1>1, <1>2, <1>3, <1>4, <1>5, <1>6, <1>7, SwapToOK
<1>9. \A i \in DOMAIN opening' : /\ i \in DOMAIN opening /\ i # Len(opening)
                                 /\ opening'[i] = opening[i] /\ opening[i] # n
  <2>1. \A i \in DOMAIN opening' : i \in DOMAIN opening /\ i # Len(opening) /\ opening'[i] = opening[i]
    BY <1>5
  <2> QED BY <1>5, <1>6, <2>1 DEF StorageInv, UsedUnits
<1>11. UsedUnits'
  <2>1. \A i \in DOMAIN opening' : Seg(opening'[i]) \in heap' /\ opening'[i] # writing'
    BY <1>2, <1>8, <1>9 DEF StorageInv, UsedUnits
  <2>2. tempFile' # 0
    BY <1>3, VirtMemAssumption
  <2>3. \A i, j \in DOMAIN opening' : opening'[i] = opening'[j] => i = j
    BY <1>9 DEF StorageInv, UsedUnits
  <2> QED BY <1>2, <1>3, <1>7, <1>8, <2>1, <2>2, <2>3 DEF UsedUnits
<1>12. OneHome'
  <2>1. ASSUME NEW m, NEW i \in DOMAIN opening, opening[i] = m, m # n
        PROVE  \E j \in DOMAIN opening' : opening'[j] = m
    <3>1. i # Len(opening)
      BY <1>6, <2>1
    <3>2. i \in DOMAIN opening'
      BY <1>5, <3>1
    <3> QED BY <1>9, <2>1, <3>2
  <2>2. \A m : (\E i \in DOMAIN opening : opening[i] = m)
               <=> m = n \/ \E j \in DOMAIN opening' : opening'[j] = m
    BY <1>5, <1>6, <1>9, <2>1
  <2>3. \A m : m \in Leaving' <=> m \in Leaving
    <3>1. \A m : m \in Leaving <=> \E i \in DOMAIN opening : opening[i] = m
      BY <1>2, LeavingForm
    <3>2. \A m : m \in Leaving' <=> m = n \/ \E i \in DOMAIN opening' : opening'[i] = m
      BY <1>8 DEF Leaving
    <3> QED BY <2>2, <3>1, <3>2
  <2> QED BY <1>2, <1>8, <2>3 DEF StorageInv, OneHome
<1>13. SwapList'
  <2>1. \A k \in DOMAIN nextSwap : nextSwap[k] \in inmem' \/ spill'[Seg(nextSwap[k])] # 0
    <3> TAKE k \in DOMAIN nextSwap
    <3>1. PICK m \in PageNo : m = nextSwap[k]
      BY <1>4, ListedPages
    <3>2. m \in inmem \/ spill[Seg(m)] # 0
      BY <3>1 DEF StorageInv, SwapList
    <3>3. Seg(m) \in Units
      BY SegForm
    <3> QED BY <1>2, <1>8, <3>1, <3>2, <3>3
  <2> QED BY <1>2, <2>1 DEF StorageInv, SwapList
<1> QED BY <1>8, <1>11, <1>12, <1>13 DEF StorageInv

\* The page that was written out has its home in the spill file alone.
LEMMA WriteOutStorage ==
    ASSUME TableInv, StorageInv, WriteOut
    PROVE  StorageInv'
<1>1. /\ writing # 0 /\ writing' = 0 /\ heap' = heap \ {Seg(writing)}
      /\ UNCHANGED <<segSize, hugeTab, inmem, nextSwap, spill, tmpFSize, tempFile, files, opening>>
      /\ UNCHANGED <<fill, nomem, op, cur, len, pos, same>>
  BY DEF WriteOut, Free, table, request
<1>2. PICK n \in 1 .. MaxSeg : n = writing
  BY <1>1 DEF StorageInv, StorageType
<1>3. /\ Seg(n) \in heap /\ Seg(n) \notin HugeUnits
      /\ \A m \in 1 .. MaxSeg : Seg(m) = Seg(n) <=> m = n
  BY <1>1, <1>2, SegForm DEF StorageInv, UsedUnits
<1>4. \A u \in Units : USize(u)' = USize(u)
  BY <1>1, SizesSame
<1>5. StorageType'
  <2>1. 0 \in 0 .. MaxSeg /\ heap' \subseteq heap
    BY <1>1, VirtMemAssumption
  <2> QED BY <1>1, <2>1 DEF StorageInv, StorageType
<1>6. UsedUnits' /\ SwapList' /\ SpillDisjoint'
  <2>1. \A j \in DOMAIN opening : Seg(opening[j]) # Seg(n)
    BY <1>2, <1>3, ListedPages DEF StorageInv, UsedUnits
  <2>2. UsedUnits'
    BY <1>1, <1>2, <1>4, <2>1, ListedPages DEF StorageInv, UsedUnits
  <2> QED BY <1>1, <1>4, <2>2 DEF StorageInv, SwapList, SpillDisjoint
<1>7. OneHome'
  <2>1. \A m : m \in Leaving <=> m = n \/ m \in Leaving'
    BY <1>1, <1>2 DEF Leaving
  <2>2. n \notin inmem
    BY <1>3, <2>1 DEF StorageInv, OneHome
  <2>3. \A u \in Units : u # Seg(0)
    BY DEF Units, SegUnits, HugeUnits, Seg, Sub
  <2>4. \A u \in heap' : spill'[u] = 0 /\ u # Seg(writing')
    BY <1>1, <1>2, <2>3 DEF StorageInv, StorageType, OneHome
  <2>5. \A m \in 1 .. MaxSeg : (m \in inmem') <=> (Seg(m) \in heap' /\ m \notin Leaving')
    BY <1>1, <1>2, <1>3, <2>1, <2>2 DEF StorageInv, OneHome
  <2> QED BY <2>4, <2>5 DEF OneHome
<1>8. HugePages'
  BY <1>1, <1>2, <1>3, HugeSame DEF StorageInv
<1> QED BY <1>5, <1>6, <1>7, <1>8 DEF StorageInv

------------------------------------------------------------------------------
(* The turns of ScanNodes, the end of a link, and the layer as a whole.    *)

\* What a turn of ScanNodes moves lies in the current unit and in the request.
LEMMA PartForm ==
    ASSUME TableInv, Scanning
    PROVE  Part \in Nat /\ Part <= len /\ off + Part <= USize(cur)
<1>1. off \in Nat /\ len \in Nat /\ off < USize(cur) /\ USize(cur) \in Nat
  BY AtUsedUnit
<1>2. CASE LastPart
  BY <1>1, <1>2 DEF LastPart, Part
<1>3. CASE ~LastPart
  BY <1>1, <1>3 DEF LastPart, Part
<1> QED BY <1>2, <1>3

\* When a request moves data, its unit is in memory or in the spill file, and
\* ScanNodes finds it where it is.
LEMMA AtHome ==
    ASSUME TableInv, StorageInv, Transfer
    PROVE  \/ InMem(cur) /\ cur \in heap /\ spill[cur] = 0
           \/ ~InMem(cur) /\ cur \notin heap /\ spill[cur] # 0 /\ tempFile \in 1 .. MaxFiles
<1>1. Scanning /\ Running /\ ~(fill >= 0) /\ ~NeedsNode /\ ~NeedsPage
  BY DEF Transfer
<1>2. cur \in Units /\ USize(cur) > 0
  BY <1>1, AtUsedUnit
<1>3. cur \in heap => spill[cur] = 0
  BY <1>1, AtRest
<1>4. spill[cur] # 0 => tempFile \in 1 .. MaxFiles
  BY <1>2, VirtMemAssumption DEF StorageInv, StorageType, UsedUnits
<1>5. CASE IsSeg(cur)
  <2>1. PICK n \in 1 .. MaxSeg : cur = Seg(n) /\ cur[2] = n
    BY <1>2, <1>5, UnitForm
  <2>2. n \in inmem <=> Seg(n) \in heap
    BY <1>1, AtRest
  <2>3. InMem(cur) <=> cur \in heap
    BY <1>5, <2>1, <2>2 DEF InMem
  <2> QED BY <1>1, <1>3, <1>4, <1>5, <2>3 DEF NeedsNode
<1>6. CASE ~IsSeg(cur)
  <2>1. PICK h \in 1 .. MaxHuge, s \in 0 .. NumSub - 1 :
           cur = Sub(h, s) /\ cur[2] = h /\ cur[3] = s
    BY <1>2, <1>6, UnitForm
  <2>2. hugeTab[h].page
    BY <1>1, <1>6, <2>1 DEF NeedsPage
  <2>3. s < hugeTab[h].there
    <3>1. hugeTab[h].there \in 0 .. NumSub /\ NumSub \in Nat
      BY VirtMemAssumption DEF TableInv, TableOK
    <3> QED BY <1>2, <1>6, <2>1, <3>1 DEF USize
  <2>4. Dealt(h, s)
    BY <1>1, <2>2, <2>3 DEF Dealt
  <2>5. hugeTab[h].swapped \in 0 .. NumSub /\ NumSub \in Nat
    BY VirtMemAssumption DEF TableInv, TableOK
  <2>6. /\ cur \in heap <=> s >= hugeTab[h].swapped
        /\ spill[cur] # 0 <=> s < hugeTab[h].swapped
    BY <2>1, <2>4 DEF StorageInv, HugePages
  <2>7. InMem(cur) <=> s >= hugeTab[h].swapped
    BY <1>6, <2>1, <2>2 DEF InMem
  <2> QED BY <1>4, <2>1, <2>5, <2>6, <2>7
<1> QED BY <1>5, <1>6

LEMMA TransferStorage ==
    ASSUME TableInv, StorageInv, Transfer
    PROVE  StorageInv'
<1>1. /\ Scanning /\ ~(fill >= 0)
      /\ UNCHANGED <<segSize, hugeTab, inmem, nextSwap, heap, spill, tmpFSize, tempFile, files>>
      /\ UNCHANGED <<opening, writing, fill, nomem>>
  BY DEF Transfer, table, swapping
<1>2. same' \in BOOLEAN
  BY DEF Transfer
<1>3. pos' + len' = pos + len
  <2>1. len \in Nat /\ pos \in Nat /\ Part \in Nat
    BY <1>1, AtUsedUnit, PartForm
  <2>2. (len' = len /\ pos' = pos) \/ (len' = len - Part /\ pos' = pos + Part)
    BY DEF Transfer
  <2> QED BY <2>1, <2>2
<1>4. \A u \in Units : USize(u)' = USize(u)
  BY <1>1, SizesSame
<1>5. StorageType'
  BY <1>1, <1>2, <1>3 DEF StorageInv, StorageType
<1>6. UsedUnits' /\ SpillDisjoint'
  BY <1>1, <1>4 DEF StorageInv, UsedUnits, SpillDisjoint
<1>7. OneHome' /\ SwapList'
  BY <1>1 DEF StorageInv, OneHome, Leaving, SwapList
<1>8. HugePages'
  BY <1>1, HugeSame DEF StorageInv
<1> QED BY <1>5, <1>6, <1>7, <1>8 DEF StorageInv

\* FreeVirtMem misses the blocks of the pages that are being swapped, and no other.
LEMMA FreeVirtMemAll ==
    ASSUME StorageInv
    PROVE  heap \ FreeVirtMem = {Seg(n) : n \in Leaving}
<1>1. ASSUME NEW u \in heap PROVE u \in FreeVirtMem \/ u \in {Seg(n) : n \in Leaving}
  <2>1. u \in Units
    BY DEF StorageInv, StorageType
  <2>2. CASE IsSeg(u)
    <3>1. PICK n \in 1 .. MaxSeg : u = Seg(n)
      BY <2>1, <2>2, UnitForm
    <3>2. n \in inmem \/ n \in Leaving
      BY <3>1 DEF StorageInv, OneHome
    <3> QED BY <3>1, <3>2 DEF FreeVirtMem
  <2>3. CASE ~IsSeg(u)
    <3>1. PICK h \in 1 .. MaxHuge, s \in 0 .. NumSub - 1 :
             u = Sub(h, s) /\ u[2] = h /\ u[3] = s /\ u \in HugeUnits
      BY <2>1, <2>3, UnitForm
    <3>2. Dealt(h, s) /\ s >= hugeTab[h].swapped
      BY <3>1 DEF StorageInv, HugePages
    <3> QED BY <3>1, <3>2 DEF Dealt, FreeVirtMem
  <2> QED BY <2>2, <2>3
<1>2. ASSUME NEW n \in Leaving PROVE Seg(n) \in heap /\ Seg(n) \notin FreeVirtMem
  <2>1. n \in 1 .. MaxSeg /\ Seg(n) \in heap
    <3>1. CASE n = writing /\ writing # 0
      BY <3>1 DEF StorageInv, StorageType, UsedUnits
    <3>2. CASE \E k \in DOMAIN opening : opening[k] = n
      BY <3>2, ListedPages DEF StorageInv, UsedUnits
    <3> QED BY <1>2, <3>1, <3>2, LeavingForm
  <2>2. n \notin inmem
    BY <1>2, <2>1 DEF StorageInv, OneHome
  <2>3. \A m \in inmem : Seg(m) # Seg(n)
    BY <2>1, <2>2, SegForm DEF StorageInv, StorageType
  <2> QED BY <2>1, <2>3, SegForm DEF FreeVirtMem
<1> QED BY <1>1, <1>2

LEMMA RelinkStorage ==
    ASSUME TableInv, StorageInv, Relink
    PROVE  StorageInv'
<1>1. heap' = {}
  BY DEF Relink, VirtMemInit
<1>2. /\ inmem' = {} /\ nextSwap' = <<>> /\ spill' = [u \in Units |-> 0] /\ fill' = -1
      /\ hugeTab' = [h \in 1 .. MaxHuge |-> [there |-> 0, last |-> 0, swapped |-> 0, page |-> FALSE]]
      /\ nomem' = FALSE /\ tempFile' = 0 /\ files' \subseteq files /\ UNCHANGED tmpFSize
      /\ opening' = <<>> /\ writing' = 0 /\ len' = 0 /\ pos' = 0 /\ same' = TRUE
  BY DEF Relink, VirtMemInit, CloseSpillFile, Idle
<1>3. StorageType'
  <2>1. StorageType /\ nextSwap' \in Seq(1 .. MaxSeg) /\ opening' \in Seq(1 .. MaxSeg)
    BY <1>2, ListedPages DEF StorageInv
  <2>2. /\ spill' \in [Units -> 0 .. DiskSize + 1] /\ tempFile' \in 0 .. MaxFiles /\ pos' + len' <= MaxLen
        /\ writing' \in 0 .. MaxSeg
    BY <1>2, VirtMemAssumption
  <2> QED BY <1>1, <1>2, <2>1, <2>2 DEF StorageType
<1>4. UsedUnits' /\ OneHome' /\ SwapList' /\ SpillDisjoint'
  BY <1>1, <1>2, RestAfter DEF UsedUnits, SwapList, SpillDisjoint
<1>5. HugePages'
  <2>1. ~(fill' >= 0)
    BY <1>2
  <2>2. \A h \in 1 .. MaxHuge, s \in 0 .. NumSub - 1 : ~Dealt(h, s)' /\ Sub(h, s) \in Units
    BY <1>2, SubForm DEF Dealt
  <2> QED BY <1>1, <1>2, <2>1, <2>2 DEF HugePages
<1> QED BY <1>3, <1>4, <1>5 DEF StorageInv

LEMMA StorageInit == Init => StorageInv
<1> SUFFICES ASSUME Init PROVE StorageInv
  OBVIOUS
<1>1. /\ inmem = {} /\ nextSwap = <<>> /\ spill = [u \in Units |-> 0] /\ fill = -1 /\ heap = {}
      /\ hugeTab = [h \in 1 .. MaxHuge |-> [there |-> 0, last |-> 0, swapped |-> 0, page |-> FALSE]]
      /\ nomem = FALSE /\ tempFile = 0 /\ files = {} /\ tmpFSize = 0
      /\ opening = <<>> /\ writing = 0 /\ len = 0 /\ pos = 0 /\ same = TRUE
  BY DEF Init
<1>2. StorageType
  <2>1. nextSwap \in Seq(1 .. MaxSeg) /\ opening \in Seq(1 .. MaxSeg)
    <3> DEFINE PageNo == 1 .. MaxSeg
    <3> HIDE DEF PageNo
    <3>1. <<>> \in Seq(PageNo)
      OBVIOUS
    <3> QED BY <1>1, <3>1 DEF PageNo
  <2>2. spill \in [Units -> 0 .. DiskSize + 1] /\ tempFile \in 0 .. MaxFiles /\ pos + len <= MaxLen
        /\ tmpFSize \in 0 .. DiskSize /\ writing \in 0 .. MaxSeg
    BY <1>1, VirtMemAssumption
  <2> QED BY <1>1, <2>1, <2>2 DEF StorageType
<1>3. UsedUnits /\ OneHome /\ SwapList /\ SpillDisjoint
  BY <1>1 DEF UsedUnits, OneHome, Leaving, SwapList, SpillDisjoint
<1>4. HugePages
  <2>1. ~(fill >= 0)
    BY <1>1
  <2>2. \A h \in 1 .. MaxHuge, s \in 0 .. NumSub - 1 : ~Dealt(h, s) /\ Sub(h, s) \in Units
    BY <1>1, SubForm DEF Dealt
  <2> QED BY <1>1, <2>1, <2>2 DEF HugePages
<1> QED BY <1>2, <1>3, <1>4 DEF StorageInv

LEMMA StorageNext == TableInv /\ StorageInv /\ [Next]_vars => StorageInv'
<1> SUFFICES ASSUME TableInv, StorageInv, [Next]_vars PROVE StorageInv'
  OBVIOUS
<1>1. ASSUME NEW size \in Sizes, AllocStg(size) PROVE StorageInv'
  BY <1>1, VirtMemAssumption, AllocStorage
<1>2. CASE Request
  <2>1. /\ UNCHANGED <<table, inmem, nextSwap, heap, ram, spill, spillFile, swapping, fill, nomem>>
        /\ op = "idle" /\ same' = TRUE /\ pos' = 0 /\ \E l \in 1 .. MaxLen : len' = l
    BY <1>2 DEF Request, Begin, At
  <2>2. ~Scanning /\ pos' + len' <= MaxLen /\ same' \in BOOLEAN
    BY <2>1, VirtMemAssumption DEF Scanning
  <2> QED BY <2>1, <2>2, RequestStorage
<1>3. ASSUME NEW b \in blocks, CopyBack(b) PROVE StorageInv'
  <2>1. /\ UNCHANGED <<table, inmem, nextSwap, heap, ram, spill, spillFile, swapping, fill, nomem>>
        /\ op = "copied" /\ same' = same /\ pos' = 0 /\ len' = pos + len
    BY <1>3 DEF CopyBack, At
  <2>2. ~Scanning /\ pos' + len' <= MaxLen /\ same' \in BOOLEAN
    BY <2>1 DEF Scanning, TableInv, RequestOK, StorageInv, StorageType
  <2> QED BY <2>1, <2>2, RequestStorage
<1>4. CASE AllocNode
  BY <1>4, AllocNodeStorage
<1>5. CASE AllocHugeNode
  BY <1>5, AllocHugeNodeStorage
<1>6. CASE AllocSubpage
  BY <1>6, AllocSubpageStorage
<1>7. CASE OpenSpillFile
  BY <1>7, OpenSpillStorage
<1>13. CASE WriteOut
  BY <1>13, WriteOutStorage
<1>8. CASE Transfer
  BY <1>8, TransferStorage
<1>9. CASE Return
  <2>1. /\ UNCHANGED <<table, inmem, nextSwap, heap, ram, spill, spillFile, swapping, fill, nomem>>
        /\ op = "done" /\ same' = TRUE /\ pos' = 0 /\ len' = 0
    BY <1>9 DEF Return, Idle
  <2>2. ~Scanning /\ pos' + len' <= MaxLen /\ same' \in BOOLEAN
    BY <2>1, VirtMemAssumption DEF Scanning
  <2> QED BY <2>1, <2>2, RequestStorage
<1>10. CASE SwapOutVirt
  BY <1>10, SwapOutStorage
<1>11. CASE Relink
  BY <1>11, RelinkStorage
<1>12. CASE UNCHANGED vars
  <2>1. UNCHANGED <<segSize, hugeTab, inmem, nextSwap, heap, spill, tmpFSize, tempFile, files,
                    opening, writing, fill, nomem, op, cur, len, pos, same>>
    BY <1>12 DEF vars
  <2>2. \A u \in Units : USize(u)' = USize(u)
    BY <2>1, SizesSame
  <2>3. StorageType'
    BY <2>1 DEF StorageInv, StorageType
  <2>4. UsedUnits' /\ OneHome' /\ SwapList' /\ SpillDisjoint'
    BY <2>1, <2>2 DEF StorageInv, UsedUnits, OneHome, Leaving, SwapList, SpillDisjoint
  <2>5. HugePages'
    BY <2>1, HugeSame DEF StorageInv
  <2> QED BY <2>3, <2>4, <2>5 DEF StorageInv
<1> QED BY <1>1, <1>2, <1>3, <1>4, <1>5, <1>6, <1>7, <1>8, <1>9, <1>10, <1>11, <1>12, <1>13
        DEF Next, Serve
------------------------------------------------------------------------------
(* The cells: whatever is moved comes from inside a unit, the spill file   *)
(* or the buffer.                                                          *)

\* A heap block that is taken or freed.
LEMMA BlockCells ==
    ASSUME TableOK, ram \in [Units -> [Offsets -> Cell]], NEW u \in Units,
           \/ ram' = ram
           \/ ram' = [ram EXCEPT ![u] = NoCells]
           \/ ram' = [ram EXCEPT ![u] = [i \in Offsets |-> IF i < USize(u) THEN Zero ELSE Junk]]
    PROVE  ram' \in [Units -> [Offsets -> Cell]]
<1>1. NoCells \in [Offsets -> Cell]
  BY DEF NoCells, Cell
<1>2. [i \in Offsets |-> IF i < USize(u) THEN Zero ELSE Junk] \in [Offsets -> Cell]
  BY DEF Cell
<1> QED BY <1>1, <1>2

\* The page SpillWrite copies has a block and a place of its size in the open file.
LEMMA WritingForm ==
    ASSUME TableInv, StorageInv, writing # 0
    PROVE  /\ writing \in 1 .. MaxSeg /\ Seg(writing) \in Units /\ Seg(writing) \in heap
           /\ tempFile \in 1 .. MaxFiles /\ tempFile \in files
           /\ spill[Seg(writing)] # 0 /\ spill[Seg(writing)] - 1 \in 0 .. DiskSize
           /\ spill[Seg(writing)] - 1 + USize(Seg(writing)) <= tmpFSize
           /\ USize(Seg(writing)) \in Nat /\ USize(Seg(writing)) <= SubSize
<1>1. writing \in 1 .. MaxSeg /\ Seg(writing) \in heap
  BY DEF StorageInv, StorageType, UsedUnits
<1>2. Seg(writing) \in Units
  BY <1>1, SegForm
<1>3. spill[Seg(writing)] # 0
  BY <1>1 DEF StorageInv, OneHome
<1>4. tempFile \in 1 .. MaxFiles /\ tempFile \in files
  BY <1>2, <1>3, VirtMemAssumption DEF StorageInv, StorageType, UsedUnits
<1>5. spill[Seg(writing)] \in 0 .. DiskSize + 1 /\ DiskSize \in Nat
  BY <1>2, VirtMemAssumption DEF StorageInv, StorageType
<1>6. spill[Seg(writing)] - 1 \in 0 .. DiskSize
  BY <1>3, <1>5
<1>7. spill[Seg(writing)] - 1 + USize(Seg(writing)) <= tmpFSize
  BY <1>2, <1>3 DEF StorageInv, SpillDisjoint
<1>8. USize(Seg(writing)) \in Nat /\ USize(Seg(writing)) <= SubSize
  BY <1>2, USizeBound DEF TableInv
<1> QED BY <1>1, <1>2, <1>3, <1>4, <1>6, <1>7, <1>8

\* SpillWrite takes the cells of the page, which all fit its block.
LEMMA WriteOutCells ==
    ASSUME TableInv, StorageInv, CellType, WriteOut
    PROVE  CellType'
<1>1. /\ writing # 0 /\ Free(Seg(writing)) /\ buf' = buf
      /\ SpillWrite(tempFile, Seg(writing), spill[Seg(writing)] - 1)
  BY DEF WriteOut, request
<1>2. PICK n \in 1 .. MaxSeg, f \in 1 .. MaxFiles, base \in 0 .. DiskSize :
         n = writing /\ f = tempFile /\ base = spill[Seg(writing)] - 1
  BY <1>1, WritingForm
<1>3. ram' \in [Units -> [Offsets -> Cell]]
  BY <1>1, <1>2, WritingForm, BlockCells DEF Free, CellType, TableInv
<1>4. /\ DiskSize \in Nat /\ USize(Seg(n)) \in Nat /\ USize(Seg(n)) <= SubSize /\ SubSize \in Nat
      /\ Seg(n) \in Units
  BY <1>1, <1>2, WritingForm, VirtMemAssumption
<1>5. ASSUME NEW a \in 0 .. DiskSize - 1
      PROVE  (IF a >= base /\ a < base + USize(Seg(n)) THEN ram[Seg(n)][a - base] ELSE disk[f][a]) \in Cell
  <2>1. CASE a >= base /\ a < base + USize(Seg(n))
    <3>1. a - base \in Offsets
      BY <1>4, <2>1 DEF Offsets
    <3> QED BY <1>4, <2>1, <3>1 DEF CellType
  <2>2. CASE ~(a >= base /\ a < base + USize(Seg(n)))
    BY <2>2 DEF CellType
  <2> QED BY <2>1, <2>2
<1>6. [a \in 0 .. DiskSize - 1 |->
         IF a >= base /\ a < base + USize(Seg(n)) THEN ram[Seg(n)][a - base] ELSE disk[f][a]]
         \in [0 .. DiskSize - 1 -> Cell]
  BY <1>5
<1>7. disk' \in [1 .. MaxFiles -> [0 .. DiskSize - 1 -> Cell]]
  BY <1>1, <1>2, <1>6 DEF SpillWrite, CellType
<1> QED BY <1>1, <1>3, <1>7 DEF CellType

\* LoadInfo and CompareBlock read, and SaveInfo hands on, a cell there is.
LEMMA HereType ==
    ASSUME TableInv, StorageInv, CellType, Transfer, NEW i \in Int, i >= off, i < off + Part
    PROVE  /\ i \in Offsets /\ Here(i) \in Cell
           /\ pos + i - off \in Index /\ Given(i) \in Cell
<1>1. Scanning
  BY DEF Transfer
<1>2. /\ cur \in Units /\ off \in Nat /\ len \in Nat /\ pos \in Nat
      /\ USize(cur) \in Nat /\ USize(cur) <= SubSize /\ SubSize \in Nat
  BY <1>1, AtUsedUnit, USizeBound, VirtMemAssumption DEF TableInv
<1>3. Part \in Nat /\ Part <= len /\ off + Part <= USize(cur)
  BY <1>1, PartForm
<1>4. i \in Offsets
  BY <1>2, <1>3 DEF Offsets
<1>5. pos + i - off \in Index
  BY <1>2, <1>3, VirtMemAssumption DEF Index, StorageInv, StorageType
<1>6. Given(i) \in Cell
  BY <1>5 DEF Given, CellType, Cell
<1>7. Here(i) \in Cell
  <2>1. CASE InMem(cur)
    BY <1>2, <1>4, <2>1 DEF Here, CellType
  <2>2. CASE ~InMem(cur)
    <3>1. spill[cur] # 0 /\ tempFile \in 1 .. MaxFiles
      BY <2>2, AtHome
    <3>2. spill[cur] - 1 + USize(cur) <= tmpFSize
      BY <1>2, <3>1 DEF StorageInv, SpillDisjoint
    <3>3. spill[cur] \in 0 .. DiskSize + 1 /\ tmpFSize \in 0 .. DiskSize /\ DiskSize \in Nat
      BY <1>2, VirtMemAssumption DEF StorageInv, StorageType
    <3>4. spill[cur] + i - 1 \in 0 .. DiskSize - 1
      BY <1>2, <1>3, <3>1, <3>2, <3>3
    <3> QED BY <2>2, <3>1, <3>4 DEF Here, CellType
  <2> QED BY <2>1, <2>2
<1> QED BY <1>4, <1>5, <1>6, <1>7

LEMMA SaveCells ==
    ASSUME TableInv, StorageInv, CellType, Transfer, SaveInfo
    PROVE  ram' \in [Units -> [Offsets -> Cell]] /\ disk' \in [1 .. MaxFiles -> [0 .. DiskSize - 1 -> Cell]]
<1>1. cur \in Units
  BY AtUsedUnit DEF Transfer
<1>2. CASE InMem(cur)
  <2>1. ASSUME NEW i \in Offsets
        PROVE  (IF i >= off /\ i < off + Part THEN Given(i) ELSE ram[cur][i]) \in Cell
    BY <1>1, <2>1, HereType, VirtMemAssumption DEF CellType, Offsets
  <2>2. [i \in Offsets |-> IF i >= off /\ i < off + Part THEN Given(i) ELSE ram[cur][i]]
          \in [Offsets -> Cell]
    BY <2>1
  <2> QED BY <1>2, <2>2 DEF SaveInfo, CellType
<1>3. CASE ~InMem(cur)
  <2> DEFINE base == spill[cur] - 1
             Put(a) == IF a >= base + off /\ a < base + off + Part THEN Given(a - base) ELSE disk[tempFile][a]
  <2>1. tempFile \in 1 .. MaxFiles /\ spill[cur] \in Nat
    BY <1>1, <1>3, AtHome, VirtMemAssumption DEF StorageInv, StorageType
  <2>2. ASSUME NEW a \in 0 .. DiskSize - 1
        PROVE  Put(a) \in Cell
    <3>1. CASE a >= base + off /\ a < base + off + Part
      <4>1. off \in Nat /\ Part \in Nat
        BY AtUsedUnit, PartForm DEF Transfer
      <4>2. a - base \in Int /\ a - base >= off /\ a - base < off + Part
        BY <2>1, <3>1, <4>1
      <4>3. Given(a - base) \in Cell
        BY <4>2, HereType
      <4> QED BY <3>1, <4>3
    <3>2. CASE ~(a >= base + off /\ a < base + off + Part)
      BY <2>1, <3>2 DEF CellType
    <3> QED BY <3>1, <3>2
  <2>3. [a \in 0 .. DiskSize - 1 |-> Put(a)] \in [0 .. DiskSize - 1 -> Cell]
    BY <2>2
  <2>4. disk' = [disk EXCEPT ![tempFile] = [a \in 0 .. DiskSize - 1 |-> Put(a)]] /\ ram' = ram
    BY <1>3 DEF SaveInfo
  <2> QED BY <2>1, <2>3, <2>4 DEF CellType
<1> QED BY <1>2, <1>3

LEMMA TransferCells ==
    ASSUME TableInv, StorageInv, CellType, Transfer
    PROVE  CellType'
<1>1. ram' \in [Units -> [Offsets -> Cell]] /\ disk' \in [1 .. MaxFiles -> [0 .. DiskSize - 1 -> Cell]]
  BY SaveCells DEF Transfer, CellType
<1>2. buf' \in [Index -> Cell]
  <2>1. CASE op \in {"load", "copy"}
    <3>1. buf' = [k \in Index |-> IF k >= pos /\ k < pos + Part THEN Here(k - pos + off) ELSE buf[k]]
      BY <2>1 DEF Transfer, LoadInfo
    <3>2. off \in Nat /\ Part \in Nat /\ pos \in Nat
      BY AtUsedUnit, PartForm DEF Transfer
    <3>3. ASSUME NEW k \in Index
          PROVE  (IF k >= pos /\ k < pos + Part THEN Here(k - pos + off) ELSE buf[k]) \in Cell
      <4>1. CASE k >= pos /\ k < pos + Part
        <5>1. k - pos + off \in Int /\ k - pos + off >= off /\ k - pos + off < off + Part
          BY <3>2, <4>1, VirtMemAssumption DEF Index
        <5>2. Here(k - pos + off) \in Cell
          BY <5>1, HereType
        <5> QED BY <4>1, <5>2
      <4>2. CASE ~(k >= pos /\ k < pos + Part)
        BY <4>2 DEF CellType
      <4> QED BY <4>1, <4>2
    <3> QED BY <3>1, <3>3
  <2>2. CASE op \notin {"load", "copy"}
    BY <2>2 DEF Transfer, CellType
  <2> QED BY <2>1, <2>2
<1> QED BY <1>1, <1>2 DEF CellType

LEMMA CellInit == Init => CellType
  BY DEF Init, CellType, NoCells, Cell

LEMMA CellNext == TableInv /\ StorageInv /\ CellType /\ [Next]_vars => CellType'
<1> SUFFICES ASSUME TableInv, StorageInv, CellType, [Next]_vars PROVE CellType'
  OBVIOUS
<1>1. ASSUME UNCHANGED <<ram, disk, buf>> PROVE CellType'
  BY <1>1 DEF CellType
<1>2. ASSUME NEW size \in Sizes, AllocStg(size) PROVE CellType'
  BY <1>1, <1>2 DEF AllocStg, spillFile, swapping, request
<1>3. CASE Request
  <2>1. PICK o \in {"load", "null", "copy", "save", "cmp"}, b \in blocks, l \in Nat, d \in Data \cup {Zero} :
           Begin(o, b, l, d)
    BY <1>3, VirtMemAssumption DEF Request
  <2>2. \A k \in Index : (IF k < l /\ o \in {"save", "cmp"} THEN d ELSE Junk) \in Cell
    BY DEF Cell
  <2>3. buf' = [k \in Index |-> IF k < l /\ o \in {"save", "cmp"} THEN d ELSE Junk]
    BY <2>1 DEF Begin
  <2>4. buf' \in [Index -> Cell]
    BY <2>2, <2>3
  <2> QED BY <2>1, <2>4 DEF Begin, spillFile, CellType
<1>4. ASSUME NEW b \in blocks, CopyBack(b) PROVE CellType'
  BY <1>1, <1>4 DEF CopyBack, spillFile
<1>5. CASE AllocNode
  <2>1. cur \in Units
    BY <1>5, AtUsedUnit DEF AllocNode, NeedsNode
  <2>2. UNCHANGED <<disk, buf>>
    BY <1>5 DEF AllocNode, TakeBlock, TakeSpill, spillFile, request
  <2>3. ram' \in [Units -> [Offsets -> Cell]]
    BY <1>5, <2>1, BlockCells DEF AllocNode, TakeBlock, TakeSpill, CellType, TableInv
  <2> QED BY <2>2, <2>3 DEF CellType
<1>6. CASE AllocHugeNode
  BY <1>1, <1>6 DEF AllocHugeNode, spillFile, request
<1>7. CASE AllocSubpage
  <2>1. Sub(cur[2], fill) \in Units
    <3>1. fill >= 0 /\ fill \in -1 .. NumSub - 1
      BY <1>7 DEF AllocSubpage, Filling, TableInv, RequestOK
    <3>2. cur[2] \in 1 .. MaxHuge
      BY <3>1, UnitForm, SubForm DEF StorageInv, HugePages, HugeUnits, Sub
    <3> QED BY <3>1, <3>2, SubForm, VirtMemAssumption
  <2>2. UNCHANGED <<disk, buf>>
    BY <1>7 DEF AllocSubpage, TakeBlock, TakeSpill, spillFile, request
  <2>3. ram' \in [Units -> [Offsets -> Cell]]
    BY <1>7, <2>1, BlockCells DEF AllocSubpage, TakeBlock, TakeSpill, CellType, TableInv
  <2> QED BY <2>2, <2>3 DEF CellType
<1>8. CASE OpenSpillFile
  BY <1>1, <1>8 DEF OpenSpillFile, request
<1>9. CASE Transfer
  BY <1>9, TransferCells
<1>10. CASE Return
  BY <1>10 DEF Return, Idle, spillFile, CellType, Cell
<1>11. CASE SwapOutVirt
  BY <1>1, <1>11 DEF SwapOutVirt, request
<1>12. CASE Relink
  <2>1. /\ ram' = [u \in Units |-> NoCells] /\ buf' = [k \in Index |-> Junk]
        /\ disk' = IF tempFile = 0 THEN disk
                   ELSE [disk EXCEPT ![tempFile] = [a \in 0 .. DiskSize - 1 |-> Junk]]
    BY <1>12 DEF Relink, CloseSpillFile, VirtMemInit, Idle
  <2>2. [a \in 0 .. DiskSize - 1 |-> Junk] \in [0 .. DiskSize - 1 -> Cell]
    BY DEF Cell
  <2>3. disk' \in [1 .. MaxFiles -> [0 .. DiskSize - 1 -> Cell]]
    BY <2>1, <2>2 DEF CellType
  <2> QED BY <2>1, <2>3 DEF CellType, NoCells, Cell
<1>13. CASE WriteOut
  BY <1>13, WriteOutCells
<1>14. CASE UNCHANGED vars
  BY <1>1, <1>14 DEF vars
<1> QED BY <1>2, <1>3, <1>4, <1>5, <1>6, <1>7, <1>8, <1>9, <1>10, <1>11, <1>12, <1>13, <1>14
        DEF Next, Serve

------------------------------------------------------------------------------
(* The blocks AllocStg returns: a new one lies behind the pages handed out *)
(* before it, or behind what the current tiny page has given away.         *)

BlocksApart ==
    \A b, c \in blocks : b # c =>
       \A u \in Units, o \in Offsets :
          ~(Inside(b, u, o) /\ Room(b, u, o) > 0 /\ Inside(c, u, o) /\ Room(c, u, o) > 0)

\* A table that only gives sizes to units without one moves no block.
LEMMA InsideStays ==
    ASSUME TableInv, NEW b \in blocks, NEW u \in Units, NEW o \in Offsets,
           \A v \in Units : USize(v) # 0 => USize(v)' = USize(v), Inside(b, u, o)'
    PROVE  Inside(b, u, o)
<1>1. BlockOK(b) /\ b \in BlockType /\ TableOK
  BY DEF TableInv, TableOK
<1>2. /\ IsSeg(u) = IsSeg(b.first)
      /\ Position(u) >= Position(b.first) /\ Position(u) <= Position(b.last)
      /\ (u = b.first => o >= b.from) /\ o < USize(u)'
  BY DEF Inside
<1>3. /\ Position(u) \in Nat /\ Position(b.last) \in Nat /\ Full(u) # 0
      /\ USize(u) \in Nat /\ b.end \in Nat \ {0}
  BY <1>1, PositionType, USizeType DEF BlockType
<1>4. USize(u) # 0
  <2>1. IsSeg(u) = IsSeg(b.last)
    BY <1>1, <1>2 DEF BlockOK
  <2>2. /\ Position(u) = Position(b.last) => b.end <= USize(u)
        /\ Position(u) >= Position(b.first) /\ Position(u) < Position(b.last) => USize(u) = Full(u)
    BY <1>1, <2>1 DEF BlockOK
  <2> QED BY <1>2, <1>3, <2>2
<1> QED BY <1>2, <1>4 DEF Inside

\* One more block that meets none of those there are.
LEMMA OneMoreApart ==
    ASSUME TableInv, BlocksApart, NEW n, blocks' = blocks \cup {n},
           \A v \in Units : USize(v) # 0 => USize(v)' = USize(v),
           \A b \in blocks, u \in Units, o \in Offsets :
              ~(Inside(b, u, o) /\ Room(b, u, o) > 0 /\ Inside(n, u, o)' /\ Room(n, u, o) > 0)
    PROVE  BlocksApart'
<1> SUFFICES ASSUME NEW b \in blocks', NEW c \in blocks', b # c, NEW u \in Units, NEW o \in Offsets,
                    Inside(b, u, o)', Room(b, u, o) > 0, Inside(c, u, o)', Room(c, u, o) > 0
             PROVE  FALSE
  BY DEF BlocksApart, Room
<1>1. CASE b \in blocks /\ c \in blocks
  <2>1. Inside(b, u, o) /\ Inside(c, u, o)
    BY <1>1, InsideStays
  <2> QED BY <1>1, <2>1 DEF BlocksApart
<1>2. CASE b \in blocks /\ c = n
  <2>1. Inside(b, u, o)
    BY <1>2, InsideStays
  <2> QED BY <1>2, <2>1
<1>3. CASE b = n /\ c \in blocks
  <2>1. Inside(c, u, o)
    BY <1>3, InsideStays
  <2> QED BY <1>3, <2>1
<1> QED BY <1>1, <1>2, <1>3

\* A block whose first unit lies behind all others of its kind meets no block.
LEMMA BehindMeetsNone ==
    ASSUME TableInv, NEW n, n.first \in Units,
           \A b \in blocks : IsSeg(b.last) = IsSeg(n.first) => Position(b.last) < Position(n.first),
           NEW b \in blocks, NEW u \in Units, NEW o \in Offsets
    PROVE  ~(Inside(b, u, o) /\ Inside(n, u, o)')
<1>1. BlockOK(b) /\ b \in BlockType
  BY DEF TableInv, TableOK
<1>2. Position(u) \in Nat /\ Position(b.last) \in Nat /\ Position(n.first) \in Nat
  BY <1>1, PositionType DEF BlockType
<1>3. IsSeg(b.first) = IsSeg(b.last)
  BY <1>1 DEF BlockOK
<1>4. Inside(b, u, o) => IsSeg(u) = IsSeg(b.first) /\ Position(u) <= Position(b.last)
  BY DEF Inside
<1>5. Inside(n, u, o)' => IsSeg(u) = IsSeg(n.first) /\ Position(u) >= Position(n.first)
  BY DEF Inside
<1> QED BY <1>2, <1>3, <1>4, <1>5

LEMMA AllocTinyApart ==
    ASSUME TableInv, BlocksApart, BlocksBelow, NEW size \in Nat \ {0}, AllocTinyStg(size),
           \A v \in Units : USize(v) # 0 => USize(v)' = USize(v)
    PROVE  BlocksApart' /\ BlocksBelow'
<1>1. /\ TableOK /\ tiny \in [node : 1 .. MaxSeg, at : 0 .. NodeSize, left : 0 .. NodeSize]
      /\ NodeSize \in Nat \ {0} /\ MaxSeg \in Nat /\ nextSeg \in 0 .. MaxSeg /\ blocks \subseteq BlockType
  BY VirtMemAssumption DEF TableInv, TableOK
<1>2. \A b \in blocks : b.first \in Units /\ b.last \in Units /\ IsSeg(b.first) = IsSeg(b.last)
  BY <1>1 DEF TableInv, BlockOK, BlockType
<1>3. \A b \in blocks : IsSeg(b.last) =>
         /\ Position(b.last) = b.last[2] /\ Position(b.first) = b.first[2]
         /\ b.last[2] \in 1 .. MaxSeg /\ b.first[2] \in 1 .. MaxSeg
  BY <1>2, UnitForm DEF Position
<1>4. CASE tiny.left >= size
  <2>1. PICK i, at, n : /\ i = tiny.node /\ at = tiny.at
                        /\ n = [first |-> Seg(i), from |-> at, last |-> Seg(i), end |-> at + size]
    OBVIOUS
  <2>2. /\ tiny' = [tiny EXCEPT !.at = @ + size, !.left = @ - size]
        /\ blocks' = blocks \cup {n} /\ UNCHANGED <<nextSeg, segSize, nextHuge>>
    <3>1. ~(tiny.left < size)
      BY <1>1, <1>4
    <3> QED BY <2>1, <3>1 DEF AllocTinyStg
  <2>3. /\ i \in 1 .. MaxSeg /\ at \in Nat /\ tiny.left > 0
        /\ tiny'.node = i /\ tiny'.at = at + size
    BY <1>1, <1>4, <2>1, <2>2
  <2>4. i <= nextSeg
    BY <1>1, <2>1, <2>3 DEF TableOK
  <2>5. /\ n.first = Seg(i) /\ n.last = Seg(i) /\ n.from = at /\ n.end = at + size
        /\ Position(Seg(i)) = i /\ IsSeg(Seg(i)) /\ Seg(i) \in Units /\ Seg(i)[2] = i
    BY <2>1, <2>3, SegForm DEF Position
  <2>6. ASSUME NEW b \in blocks, NEW u \in Units, NEW o \in Offsets,
               Inside(b, u, o), Room(b, u, o) > 0, Inside(n, u, o)'
        PROVE  FALSE
    <3>1. IsSeg(u) /\ Position(u) = i
      <4>1. IsSeg(u) = IsSeg(n.first) /\ Position(u) >= Position(n.first) /\ Position(u) <= Position(n.last)
        BY <2>6 DEF Inside
      <4>2. Position(u) \in Nat
        BY PositionType
      <4> QED BY <2>3, <2>5, <4>1, <4>2
    <3>2. u = Seg(i)
      BY <2>5, <3>1, PositionInjective
    <3>3. o \in Nat /\ o >= at
      BY <2>5, <2>6, <3>2, VirtMemAssumption DEF Inside, Offsets
    <3>4. IsSeg(b.last) /\ b.first[2] <= i /\ i <= b.last[2]
      BY <1>2, <1>3, <2>6, <3>1 DEF Inside
    <3>5. b.last[2] = i /\ b.end <= at
      BY <2>1, <2>3, <3>4 DEF BlocksBelow
    <3>6. Room(b, u, o) = 0 * Full(u) + b.end - o /\ b.end \in Nat
      BY <1>1, <1>3, <2>3, <3>1, <3>4, <3>5 DEF Room, BlockType
    <3>7. Full(u) \in Nat
      BY PositionType
    <3> QED BY <2>3, <2>6, <3>3, <3>5, <3>6, <3>7
  <2>7. BlocksApart'
    BY <2>2, <2>6, OneMoreApart
  <2>8. BlocksBelow'
    <3>1. ASSUME NEW b \in blocks', IsSeg(b.last), b.first[2] <= tiny'.node, tiny'.node <= b.last[2]
          PROVE  b.last[2] = tiny'.node /\ b.end <= tiny'.at
      <4>1. CASE b \in blocks
        <5>1. b.last[2] = i /\ b.end <= at
          BY <2>1, <2>3, <3>1, <4>1 DEF BlocksBelow
        <5>2. b.end \in Nat
          BY <1>1, <4>1 DEF BlockType
        <5> QED BY <2>3, <5>1, <5>2
      <4>2. CASE b = n
        BY <2>3, <2>5, <4>2
      <4> QED BY <2>2, <3>1, <4>1, <4>2
    <3>2. ASSUME NEW b \in blocks'
          PROVE  IF IsSeg(b.last) THEN b.last[2] <= nextSeg' ELSE b.last[2] <= nextHuge'
      BY <2>2, <2>4, <2>5, <3>2 DEF BlocksBelow
    <3> QED BY <3>1, <3>2 DEF BlocksBelow
  <2> QED BY <2>7, <2>8
<1>5. CASE tiny.left < size
  <2>1. PICK i, n : /\ i = nextSeg + 1
                    /\ n = [first |-> Seg(i), from |-> 0, last |-> Seg(i), end |-> size]
    OBVIOUS
  <2>2. /\ GetStg(NodeSize, 1) /\ tiny' = [node |-> i, at |-> size, left |-> NodeSize - size]
        /\ blocks' = blocks \cup {n} /\ nextHuge' = nextHuge
    <3>1. ~(tiny.left >= size)
      BY <1>1, <1>5
    <3> QED BY <2>1, <3>1 DEF AllocTinyStg
  <2>3. i \in 1 .. MaxSeg /\ nextSeg' = i
    BY <1>1, <2>1, <2>2 DEF GetStg
  <2>4. /\ n.first = Seg(i) /\ n.last = Seg(i) /\ n.end = size
        /\ Position(Seg(i)) = i /\ IsSeg(Seg(i)) /\ Seg(i) \in Units /\ Seg(i)[2] = i
    BY <2>1, <2>3, SegForm DEF Position
  <2>5. \A b \in blocks : IsSeg(b.last) => b.last[2] < i
    BY <1>1, <1>3, <2>1 DEF BlocksBelow
  <2>6. BlocksApart'
    <3>1. \A b \in blocks : IsSeg(b.last) = IsSeg(n.first) => Position(b.last) < Position(n.first)
      BY <1>3, <2>4, <2>5
    <3>2. \A b \in blocks, u \in Units, o \in Offsets : ~(Inside(b, u, o) /\ Inside(n, u, o)')
      BY <2>4, <3>1, BehindMeetsNone
    <3> QED BY <2>2, <3>2, OneMoreApart
  <2>7. BlocksBelow'
    <3>1. ASSUME NEW b \in blocks', IsSeg(b.last), tiny'.node <= b.last[2]
          PROVE  b.last[2] = tiny'.node /\ b.end <= tiny'.at
      <4>1. tiny'.node = i /\ tiny'.at = size
        BY <2>2
      <4>2. CASE b \in blocks
        BY <1>3, <2>3, <2>5, <3>1, <4>1, <4>2
      <4>3. CASE b = n
        BY <2>4, <4>1, <4>3
      <4> QED BY <2>2, <4>2, <4>3
    <3>2. ASSUME NEW b \in blocks'
          PROVE  IF IsSeg(b.last) THEN b.last[2] <= nextSeg' ELSE b.last[2] <= nextHuge'
      BY <1>3, <2>2, <2>3, <2>4, <2>5, <3>2 DEF BlocksBelow
    <3> QED BY <3>1, <3>2 DEF BlocksBelow
  <2> QED BY <2>6, <2>7
<1> QED BY <1>1, <1>4, <1>5

\* Blocks of whole pages and of huge pages begin behind NextLeaf and NextHuge.
LEMMA AllocBehindApart ==
    ASSUME TableInv, BlocksApart, BlocksBelow, NEW n, n.first \in Units, n.last \in Units,
           IsSeg(n.first) = IsSeg(n.last), blocks' = blocks \cup {n}, tiny' = tiny,
           IF IsSeg(n.last) THEN n.first[2] = nextSeg + 1 /\ nextSeg' = n.last[2] /\ nextHuge' = nextHuge
                            ELSE n.first[2] = nextHuge + 1 /\ nextHuge' = n.last[2] /\ nextSeg' = nextSeg,
           nextSeg <= nextSeg', nextHuge <= nextHuge',
           \A v \in Units : USize(v) # 0 => USize(v)' = USize(v)
    PROVE  BlocksApart' /\ BlocksBelow'
<1>1. /\ TableOK /\ tiny \in [node : 1 .. MaxSeg, at : 0 .. NodeSize, left : 0 .. NodeSize]
      /\ NumSub \in Nat \ {0} /\ MaxSeg \in Nat /\ nextSeg \in Nat /\ nextHuge \in Nat
      /\ nextSeg' \in Int /\ nextHuge' \in Int /\ NodeSize \in Nat \ {0}
  <2>1. TableOK /\ tiny \in [node : 1 .. MaxSeg, at : 0 .. NodeSize, left : 0 .. NodeSize]
    BY DEF TableInv, TableOK
  <2>2. NumSub \in Nat \ {0} /\ MaxSeg \in Nat /\ MaxHuge \in Nat /\ NodeSize \in Nat \ {0}
    BY VirtMemAssumption
  <2>3. nextSeg \in 0 .. MaxSeg /\ nextHuge \in 0 .. MaxHuge
    BY <2>1 DEF TableOK
  <2>4. n.last[2] \in Nat
    BY <2>2, UnitForm
  <2>5. nextSeg' \in Int /\ nextHuge' \in Int
    BY <2>3, <2>4
  <2> QED BY <2>1, <2>2, <2>3, <2>5
<1>2. \A b \in blocks : b.last \in Units /\ b.last[2] \in Nat
  <2>1. blocks \subseteq BlockType
    BY DEF TableInv, TableOK
  <2> QED BY <2>1, UnitForm DEF BlockType
<1>3. ASSUME NEW b \in blocks, IsSeg(b.last) = IsSeg(n.first)
      PROVE  Position(b.last) < Position(n.first)
  <2>1. CASE IsSeg(n.first)
    <3>1. IsSeg(b.last) /\ IsSeg(n.last)
      BY <1>3, <2>1
    <3>2. b.last[2] <= nextSeg /\ n.first[2] = nextSeg + 1
      BY <3>1 DEF BlocksBelow
    <3>3. Position(b.last) = b.last[2] /\ Position(n.first) = n.first[2]
      BY <2>1, <3>1 DEF Position
    <3> QED BY <1>1, <1>2, <3>2, <3>3
  <2>2. CASE ~IsSeg(n.first)
    <3>1. PICK h \in 1 .. MaxHuge, s \in 0 .. NumSub - 1 : b.last = Sub(h, s) /\ b.last[2] = h /\ b.last[3] = s
      BY <1>2, <1>3, <2>2, UnitForm
    <3>2. PICK g \in 1 .. MaxHuge, t \in 0 .. NumSub - 1 : n.first[2] = g /\ n.first[3] = t
      BY <2>2, UnitForm
    <3>3. h <= nextHuge /\ g = nextHuge + 1
      BY <1>3, <2>2, <3>1, <3>2 DEF BlocksBelow
    <3>4. /\ h \in Nat /\ g \in Nat /\ h < g /\ s \in Nat /\ t \in Nat /\ s < NumSub
          /\ h * NumSub \in Nat /\ g * NumSub \in Nat
      BY <1>1, <3>3, VirtMemAssumption
    <3>5. h * NumSub + NumSub <= g * NumSub
      BY <1>1, <3>4, MulMono
    <3>6. Position(b.last) = h * NumSub + s /\ Position(n.first) = g * NumSub + t
      BY <1>3, <2>2, <3>1, <3>2 DEF Position
    <3>7. \A x, y \in Nat : x + NumSub <= y => x + s < y + t
      BY <1>1, <3>4
    <3> QED BY <3>4, <3>5, <3>6, <3>7
  <2> QED BY <2>1, <2>2
<1>4. BlocksApart'
  <2>1. \A b \in blocks, u \in Units, o \in Offsets : ~(Inside(b, u, o) /\ Inside(n, u, o)')
    BY <1>3, BehindMeetsNone
  <2> QED BY <2>1, OneMoreApart
<1>5. BlocksBelow'
  <2>1. ASSUME NEW b \in blocks'
        PROVE  IF IsSeg(b.last) THEN b.last[2] <= nextSeg' ELSE b.last[2] <= nextHuge'
    <3>1. CASE b \in blocks
      BY <1>1, <1>2, <3>1 DEF BlocksBelow
    <3>2. CASE b = n
      BY <1>1, <3>2
    <3> QED BY <3>1, <3>2
  <2>2. ASSUME tiny.left > 0, NEW b \in blocks', IsSeg(b.last), b.first[2] <= tiny.node, tiny.node <= b.last[2]
        PROVE  b.last[2] = tiny.node /\ b.end <= tiny.at
    <3>1. tiny.node <= nextSeg
      BY <1>1, <2>2 DEF TableOK
    <3>2. b # n
      BY <1>1, <2>2, <3>1
    <3> QED BY <2>2, <3>2 DEF BlocksBelow
  <2> QED BY <2>1, <2>2 DEF BlocksBelow
<1> QED BY <1>4, <1>5

LEMMA ApartNext == TableInv /\ BlocksApart /\ BlocksBelow /\ [Next]_vars => BlocksApart' /\ BlocksBelow'
<1> SUFFICES ASSUME TableInv, BlocksApart, BlocksBelow, [Next]_vars PROVE BlocksApart' /\ BlocksBelow'
  OBVIOUS
<1>1. ASSUME NEW size \in Sizes, AllocStg(size) PROVE BlocksApart' /\ BlocksBelow'
  <2>1. /\ op = "idle" /\ UNCHANGED <<op, cur, off, len, pos>>
        /\ AllocTinyStg(size) \/ AllocNormalStg(size) \/ AllocHugeStg(size)
    BY <1>1 DEF AllocStg, request
  <2>2. size \in Nat \ {0} /\ MaxSeg \in Nat /\ MaxHuge \in Nat /\ NumSub \in Nat \ {0}
    BY VirtMemAssumption
  <2>3. \A v \in Units : USize(v) # 0 => USize(v)' = USize(v)
    BY <2>1, <2>2, AllocSizes
  <2>4. CASE AllocTinyStg(size)
    BY <2>2, <2>3, <2>4, AllocTinyApart
  <2>5. CASE AllocNormalStg(size)
    <3>1. PICK k \in 1 .. MaxSeg :
             /\ nextSeg + k <= MaxSeg /\ nextSeg' = nextSeg + k
             /\ blocks' = blocks \cup {[first |-> Seg(nextSeg + 1), from |-> 0,
                                        last |-> Seg(nextSeg + k), end |-> Rest(size, NodeSize, k)]}
      BY <2>5 DEF AllocNormalStg, GetStg
    <3>2. tiny' = tiny /\ nextHuge' = nextHuge
      BY <2>5 DEF AllocNormalStg
    <3>3. PICK i, j, n : /\ i = nextSeg + 1 /\ j = nextSeg + k
                         /\ n = [first |-> Seg(i), from |-> 0, last |-> Seg(j),
                                 end |-> Rest(size, NodeSize, k)]
      OBVIOUS
    <3>4. nextSeg \in Nat /\ nextHuge \in Nat
      BY DEF TableInv, TableOK
    <3>5. i \in 1 .. MaxSeg /\ j \in 1 .. MaxSeg /\ nextSeg <= nextSeg' /\ nextHuge <= nextHuge'
      BY <2>2, <3>1, <3>2, <3>3, <3>4
    <3>6. /\ n.first = Seg(i) /\ n.last = Seg(j) /\ n.first \in Units /\ n.last \in Units
          /\ IsSeg(n.first) /\ IsSeg(n.last) /\ n.first[2] = i /\ n.last[2] = j
          /\ IsSeg(n.first) = IsSeg(n.last)
      BY <3>3, <3>5, SegForm DEF IsSeg
    <3>7. blocks' = blocks \cup {n}
      BY <3>1, <3>3
    <3> QED BY <2>3, <3>1, <3>2, <3>3, <3>5, <3>6, <3>7, AllocBehindApart
  <2>6. CASE AllocHugeStg(size)
    <3>1. PICK k \in 1 .. MaxHuge, j \in 1 .. NumSub :
             /\ nextHuge + k <= MaxHuge /\ nextHuge' = nextHuge + k
             /\ blocks' = blocks \cup {[first |-> Sub(nextHuge + 1, 0), from |-> 0,
                                        last |-> Sub(nextHuge + k, j - 1),
                                        end |-> Rest(Rest(size, NumSub * SubSize, k), SubSize, j)]}
      BY <2>6 DEF AllocHugeStg
    <3>2. tiny' = tiny /\ nextSeg' = nextSeg
      BY <2>6 DEF AllocHugeStg
    <3>3. PICK f, g, n : /\ f = nextHuge + 1 /\ g = nextHuge + k
                         /\ n = [first |-> Sub(f, 0), from |-> 0, last |-> Sub(g, j - 1),
                                 end |-> Rest(Rest(size, NumSub * SubSize, k), SubSize, j)]
      OBVIOUS
    <3>4. nextSeg \in Nat /\ nextHuge \in Nat
      BY DEF TableInv, TableOK
    <3>5. f \in 1 .. MaxHuge /\ g \in 1 .. MaxHuge /\ nextSeg <= nextSeg' /\ nextHuge <= nextHuge'
      BY <2>2, <3>1, <3>2, <3>3, <3>4
    <3>6. 0 \in 0 .. NumSub - 1 /\ j - 1 \in 0 .. NumSub - 1
      BY <2>2
    <3>7. /\ n.first = Sub(f, 0) /\ n.last = Sub(g, j - 1) /\ n.first \in Units /\ n.last \in Units
          /\ ~IsSeg(n.first) /\ ~IsSeg(n.last) /\ n.first[2] = f /\ n.last[2] = g
          /\ IsSeg(n.first) = IsSeg(n.last)
      BY <3>3, <3>5, <3>6, SubForm DEF IsSeg
    <3>8. blocks' = blocks \cup {n}
      BY <3>1, <3>3
    <3> QED BY <2>3, <3>1, <3>2, <3>3, <3>5, <3>7, <3>8, AllocBehindApart
  <2> QED BY <2>1, <2>4, <2>5, <2>6
<1>2. CASE Relink
  <2>1. blocks' = {} /\ tiny' = [node |-> 1, at |-> 0, left |-> 0]
    BY <1>2 DEF Relink, VirtMemInit
  <2> QED BY <2>1 DEF BlocksApart, BlocksBelow
<1>3. CASE ~(\E size \in Sizes : AllocStg(size)) /\ ~Relink
  <2>1. UNCHANGED <<blocks, tiny, nextSeg, nextHuge, segSize>>
    BY <1>3 DEF Next, Request, Serve, Begin, CopyBack, AllocNode, AllocHugeNode, AllocSubpage,
                OpenSpillFile, WriteOut, Transfer, Return, SwapOutVirt, table, vars
  <2>2. \A h \in 1 .. MaxHuge : hugeTab'[h].there = hugeTab[h].there /\ hugeTab'[h].last = hugeTab[h].last
    <3>1. \/ hugeTab' = hugeTab
          \/ hugeTab' = [hugeTab EXCEPT ![cur[2]].page = TRUE]
          \/ hugeTab' = [hugeTab EXCEPT ![cur[2]].swapped = fill + 1]
      BY <1>3 DEF Next, Request, Serve, Begin, CopyBack, AllocNode, AllocHugeNode, AllocSubpage,
                  OpenSpillFile, WriteOut, Transfer, Return, SwapOutVirt, table, vars
    <3>2. hugeTab \in [1 .. MaxHuge -> [there : 0 .. NumSub, last : 0 .. SubSize,
                                        swapped : 0 .. NumSub, page : BOOLEAN]]
      BY DEF TableInv, TableOK
    <3>3. ASSUME NEW h \in 1 .. MaxHuge
          PROVE  hugeTab'[h].there = hugeTab[h].there /\ hugeTab'[h].last = hugeTab[h].last
      <4>1. CASE hugeTab' = hugeTab
        BY <4>1
      <4>2. CASE hugeTab' = [hugeTab EXCEPT ![cur[2]].page = TRUE]
        BY <3>2, <4>2
      <4>3. CASE hugeTab' = [hugeTab EXCEPT ![cur[2]].swapped = fill + 1]
        BY <3>2, <4>3
      <4> QED BY <3>1, <4>1, <4>2, <4>3
    <3> QED BY <3>3
  <2>3. \A u \in Units : USize(u)' = USize(u)
    BY <2>1, <2>2, SizesSame
  <2>4. \A b, u, o : u \in Units => (Inside(b, u, o)' <=> Inside(b, u, o))
    BY <2>3 DEF Inside
  <2> QED BY <2>1, <2>4 DEF BlocksApart, BlocksBelow, Room
<1> QED BY <1>1, <1>2, <1>3

------------------------------------------------------------------------------
(* The theorems of layers A and B.                                         *)

\* All variables keep their types: no spill handle, file offset, subpage number
\* or buffer index ever leaves its table, although the code checks none of them.
THEOREM TypeCorrect == Spec => []TypeOK
<1>1. TableInv /\ StorageInv /\ CellType => TypeOK
  BY DEF TableInv, TableOK, RequestOK, StorageInv, StorageType, CellType, TypeOK
<1> QED BY <1>1, TableInit, TableNext, StorageInit, StorageNext, CellInit, CellNext, PTL DEF Spec

\* Between steps a page has a heap block exactly if its VIRT_INMEM flag is set, or
\* SwapOutVirt is taking the block out (it waits for the spill file's name, or for
\* its write); and but for the page being written no unit is both in memory and
\* spilled, whatever was swapped out in the middle of another allocation.
THEOREM EachUnitHasOneHome == Spec => []OneHome
<1>1. StorageInv => OneHome
  BY DEF StorageInv
<1> QED BY <1>1, TableInit, TableNext, StorageInit, StorageNext, PTL DEF Spec

\* SwapOutVirt can reach every page in memory: AllocNode may replace the whole
\* list by the new page because the pages it drops are all swapped out.
THEOREM PressureReachesPages == Spec => []SwapListComplete
<1>1. StorageInv => SwapListComplete
  BY DEF StorageInv, SwapList, SwapListComplete
<1> QED BY <1>1, TableInit, TableNext, StorageInit, StorageNext, PTL DEF Spec

\* Blocks share no cell with one another, nor units their place in the spill
\* file, however requests of all sizes follow each other.
THEOREM NothingShared == Spec => []StorageApart
<1>1. Init => BlocksApart /\ BlocksBelow
  BY DEF Init, BlocksApart, BlocksBelow
<1>2. StorageInv /\ BlocksApart => StorageApart
  BY DEF StorageInv, BlocksApart, StorageApart
<1> QED BY <1>1, <1>2, TableInit, TableNext, StorageInit, StorageNext, ApartNext, PTL DEF Spec

------------------------------------------------------------------------------
(***************************************************************************)
(* Layer C: what holds when the few bytes of the spill file's name are     *)
(* always there.  One spill file, and an abstract store the requests see.  *)
(***************************************************************************)

LEMMA OneFileNext ==
    ASSUME ~NameMayFail
    PROVE  TableInv /\ StorageInv /\ OneFile /\ [Next]_vars => OneFile'
<1> SUFFICES ASSUME TableInv, StorageInv, OneFile, [Next]_vars PROVE OneFile'
  OBVIOUS
<1>1. /\ files \subseteq {tempFile} /\ files \subseteq 1 .. MaxFiles
      /\ opening # <<>> => tempFile = 0 /\ writing = 0
      /\ tempFile = 0 => files = {}
  BY VirtMemAssumption DEF OneFile, Running, StorageInv, StorageType
<1>2. Len(<<>>) = 0
  OBVIOUS
<1>3. ASSUME UNCHANGED <<tempFile, files>>,
             \/ opening' = <<>>
             \/ opening' = opening /\ (writing' = writing \/ writing' = 0)
      PROVE  OneFile'
  BY <1>2, <1>3 DEF OneFile
<1>4. ASSUME NEW u, TakeSpill(u), Running, opening' = opening PROVE OneFile'
  <2>1. CASE tempFile = 0
    <3>1. files' = {tempFile'} /\ opening' = <<>>
      BY <1>1, <1>4, <2>1 DEF TakeSpill, OpenTempFile, Running
    <3> QED BY <1>2, <3>1 DEF OneFile
  <2>2. CASE tempFile # 0
    BY <1>3, <1>4, <2>2 DEF TakeSpill, Running
  <2> QED BY <2>1, <2>2
<1>5. CASE AllocNode
  <2>1. /\ Running /\ opening' = opening /\ writing' = writing
        /\ TakeBlock(cur) \/ TakeSpill(cur)
    BY <1>5 DEF AllocNode, NeedsNode, swapping
  <2> QED BY <1>3, <1>4, <2>1 DEF TakeBlock, spillFile
<1>6. CASE AllocSubpage
  <2>1. /\ Running /\ opening' = opening /\ writing' = writing
        /\ TakeBlock(Sub(cur[2], fill)) \/ TakeSpill(Sub(cur[2], fill))
    BY <1>6 DEF AllocSubpage, Filling, swapping
  <2> QED BY <1>3, <1>4, <2>1 DEF TakeBlock, spillFile
<1>7. CASE OpenSpillFile
  <2>1. opening # <<>> /\ Len(opening) <= 1 /\ opening \in Seq(1 .. MaxSeg)
    BY <1>7 DEF OpenSpillFile, OneFile, StorageInv, StorageType
  <2>2. opening' = SubSeq(opening, 1, Len(opening) - 1)
    BY <1>7 DEF OpenSpillFile
  <2> DEFINE PageNo == 1 .. MaxSeg
  <2>3. opening \in Seq(PageNo)
    BY <2>1
  <2> HIDE DEF PageNo
  <2>4. Len(opening) \in Nat /\ Len(opening) > 0 /\ Len(opening') = Len(opening) - 1 /\ opening' \in Seq(PageNo)
    BY <2>1, <2>2, <2>3, PrefixForm
  <2>5. Len(opening') = 0 /\ opening' = <<>>
    BY <2>1, <2>4
  <2>6. files' = {tempFile'}
    BY <1>1, <1>7, <2>1 DEF OpenSpillFile, OpenTempFile
  <2> QED BY <2>5, <2>6 DEF OneFile
<1>8. CASE SwapOutVirt
  <2>1. opening = <<>> /\ writing = 0 /\ UNCHANGED <<tempFile, files>>
    BY <1>8, AllocatingForm DEF SwapOutVirt, Allocating, NeedsNode, NeedsPage, Filling, Running
  <2>2. PICK k \in DOMAIN nextSwap :
          IF tempFile = 0 THEN opening' = Append(opening, nextSwap[k]) /\ UNCHANGED writing
          ELSE UNCHANGED opening
    BY <1>8 DEF SwapOutVirt
  <2>3. CASE tempFile = 0
    <3>1. opening' = <<nextSwap[k]>>
      BY <2>1, <2>2, <2>3
    <3>2. Len(opening') = 1
      BY <3>1
    <3> QED BY <1>1, <2>1, <2>2, <2>3, <3>2 DEF OneFile
  <2>4. CASE tempFile # 0
    BY <1>3, <2>1, <2>2, <2>4
  <2> QED BY <2>3, <2>4
<1>9. CASE Relink
  <2>1. tempFile' = 0 /\ files' = {} /\ opening' = <<>>
    BY <1>1, <1>9 DEF Relink, CloseSpillFile
  <2> QED BY <1>2, <2>1 DEF OneFile
<1>10. CASE ~(AllocNode \/ AllocSubpage \/ OpenSpillFile \/ SwapOutVirt \/ Relink)
  <2>1. UNCHANGED <<tempFile, files, opening>> /\ (writing' = writing \/ writing' = 0)
    BY <1>10 DEF Next, Request, Serve, AllocStg, Begin, CopyBack, AllocHugeNode, WriteOut,
                 Transfer, Return, spillFile, swapping, vars
  <2> QED BY <1>3, <2>1
<1> QED BY <1>5, <1>6, <1>7, <1>8, <1>9, <1>10

\* What CleanSubSystems would find at any time.
LEMMA CleanUpNow == TableInv /\ StorageInv /\ OneFile => CleanUpIsExact
<1> SUFFICES ASSUME TableInv, StorageInv, OneFile PROVE CleanUpIsExact
  OBVIOUS
<1>1. ASSUME NEW u \in HugeUnits
      PROVE  /\ u \in heap => /\ hugeTab[u[2]].page /\ u[3] >= hugeTab[u[2]].swapped
                              /\ u[3] < hugeTab[u[2]].there
             /\ hugeTab[u[2]].page /\ u[3] >= hugeTab[u[2]].swapped => spill[u] = 0
  <2>1. PICK h \in 1 .. MaxHuge, s \in 0 .. NumSub - 1 : u = Sub(h, s)
    BY DEF HugeUnits
  <2>2. u[2] = h /\ u[3] = s
    BY <2>1, SubForm
  <2>3. /\ Sub(h, s) \in heap <=> Dealt(h, s) /\ s >= hugeTab[h].swapped
        /\ spill[Sub(h, s)] # 0 <=> Dealt(h, s) /\ s < hugeTab[h].swapped
    BY DEF StorageInv, HugePages
  <2>4. ~(s >= hugeTab[h].swapped /\ s < hugeTab[h].swapped)
    <3>1. hugeTab[h].swapped \in 0 .. NumSub /\ NumSub \in Nat
      BY VirtMemAssumption DEF TableInv, TableOK
    <3> QED BY <3>1
  <2> QED BY <2>1, <2>2, <2>3, <2>4 DEF Dealt
<1>2. ASSUME NEW n \in inmem
      PROVE  Seg(n) \in heap /\ spill[Seg(n)] = 0
  <2>1. n \in 1 .. MaxSeg /\ Seg(n) \in heap /\ n \notin Leaving
    BY DEF StorageInv, StorageType, OneHome
  <2>2. Seg(n) = Seg(writing) => n = writing /\ n # 0
    BY <2>1, VirtMemAssumption DEF Seg
  <2> QED BY <2>1, <2>2, LeavingForm DEF StorageInv, OneHome
<1>3. \A u \in FreeVirtMem : spill[u] = 0
  BY <1>1, <1>2 DEF FreeVirtMem
<1> QED BY <1>3, FreeVirtMemAll DEF OneFile, CleanUpIsExact

\* A heap block taken for u holds values only inside u.
LEMMA TailsTaken ==
    ASSUME TableInv, StorageInv, CellType, Tails, NEW u \in Units, TakeBlock(u) \/ TakeSpill(u),
           \A v \in Units : USize(v)' = USize(v)
    PROVE  Tails'
<1>1. ram \in [Units -> [Offsets -> Cell]] /\ heap \subseteq Units
  BY DEF CellType, StorageInv, StorageType
<1>2. \A v \in heap' : \A i \in Offsets : i >= USize(v)' => ram'[v][i] = Junk
  <2>1. CASE TakeBlock(u)
    <3>1. heap' = heap \cup {u}
          /\ ram' = [ram EXCEPT ![u] = [i \in Offsets |-> IF i < USize(u) THEN Zero ELSE Junk]]
      BY <2>1 DEF TakeBlock
    <3>2. USize(u) \in Nat /\ \A i \in Offsets : i \in Int
      BY USizeBound, VirtMemAssumption DEF TableInv, Offsets
    <3>3. \A i \in Offsets : i >= USize(u) => ram'[u][i] = Junk
      BY <1>1, <3>1, <3>2
    <3>4. \A v \in heap : v # u => ram'[v] = ram[v]
      BY <1>1, <3>1
    <3> QED BY <1>1, <3>1, <3>3, <3>4 DEF Tails
  <2>2. CASE TakeSpill(u)
    BY <1>1, <2>2 DEF TakeSpill, Tails
  <2> QED BY <2>1, <2>2
<1>3. \A f \in 1 .. MaxFiles : \A a \in 0 .. DiskSize - 1 : a >= tmpFSize' \/ f \notin files' => disk'[f][a] = Junk
  <2>1. CASE TakeBlock(u)
    BY <2>1 DEF TakeBlock, spillFile, Tails
  <2>2. CASE TakeSpill(u)
    <3>1. PICK base \in 0 .. DiskSize : SpillAlloc(u, base)
      BY <2>2 DEF TakeSpill
    <3>2. tmpFSize' \in 0 .. DiskSize /\ base >= tmpFSize /\ tmpFSize' = base + USize(u)
      BY <3>1, SpillAllocOK DEF TableInv, StorageInv
    <3>3. USize(u) \in Nat /\ tmpFSize \in 0 .. DiskSize /\ DiskSize \in Nat
      BY USizeBound, VirtMemAssumption DEF TableInv, StorageInv, StorageType
    <3>4. \A a \in 0 .. DiskSize - 1 : a >= tmpFSize' => a >= tmpFSize
      BY <3>2, <3>3
    <3>5. files \subseteq files' /\ disk' = disk
      BY <2>2 DEF TakeSpill, OpenTempFile
    <3> QED BY <3>4, <3>5 DEF Tails
  <2> QED BY <2>1, <2>2
<1> QED BY <1>2, <1>3 DEF Tails

\* SpillAlloc only moves the end of the file on.
LEMMA TailsPlaced ==
    ASSUME TableInv, StorageInv, Tails, NEW n \in 1 .. MaxSeg, SwapTo(n), files \subseteq files',
           UNCHANGED <<segSize, hugeTab, heap, ram, disk>>
    PROVE  Tails'
<1>1. Seg(n) \in Units /\ heap \subseteq Units
  BY SegForm DEF StorageInv, StorageType
<1>2. PICK base \in 0 .. DiskSize : SpillAlloc(Seg(n), base)
  BY DEF SwapTo
<1>3. \A v \in Units : USize(v)' = USize(v)
  BY SizesSame
<1>4. tmpFSize' \in 0 .. DiskSize /\ base >= tmpFSize /\ tmpFSize' = base + USize(Seg(n))
  BY <1>1, <1>2, <1>3, SpillAllocOK DEF TableInv, StorageInv
<1>5. USize(Seg(n)) \in Nat /\ tmpFSize \in 0 .. DiskSize /\ DiskSize \in Nat
  BY <1>1, USizeBound, VirtMemAssumption DEF TableInv, StorageInv, StorageType
<1>6. \A a \in 0 .. DiskSize - 1 : a >= tmpFSize' => a >= tmpFSize
  BY <1>4, <1>5
<1> QED BY <1>1, <1>3, <1>6 DEF Tails

\* SpillWrite puts values only where SpillAlloc gave room.
LEMMA TailsWritten ==
    ASSUME TableInv, StorageInv, CellType, Tails, WriteOut
    PROVE  Tails'
<1>1. /\ ram \in [Units -> [Offsets -> Cell]] /\ heap \subseteq Units
      /\ disk \in [1 .. MaxFiles -> [0 .. DiskSize - 1 -> Cell]]
  BY DEF CellType, StorageInv, StorageType
<1>2. /\ writing # 0 /\ UNCHANGED <<segSize, hugeTab, tmpFSize, files>>
      /\ SpillWrite(tempFile, Seg(writing), spill[Seg(writing)] - 1)
      /\ heap' = heap \ {Seg(writing)} /\ ram' = [ram EXCEPT ![Seg(writing)] = NoCells]
  BY DEF WriteOut, Free, table
<1>3. PICK n \in 1 .. MaxSeg, f \in 1 .. MaxFiles, base \in 0 .. DiskSize :
         n = writing /\ f = tempFile /\ base = spill[Seg(writing)] - 1
  BY <1>2, WritingForm
<1>4. /\ Seg(n) \in Units /\ f \in files /\ base + USize(Seg(n)) <= tmpFSize
      /\ USize(Seg(n)) \in Nat /\ tmpFSize \in 0 .. DiskSize /\ DiskSize \in Nat
  BY <1>2, <1>3, WritingForm, VirtMemAssumption DEF StorageInv, StorageType
<1>5. \A v \in Units : USize(v)' = USize(v)
  BY <1>2, SizesSame
<1>6. \A v \in heap' : \A i \in Offsets : i >= USize(v)' => ram'[v][i] = Junk
  BY <1>1, <1>2, <1>5 DEF Tails
<1>7. ASSUME NEW g \in 1 .. MaxFiles, NEW a \in 0 .. DiskSize - 1, a >= tmpFSize' \/ g \notin files'
      PROVE  disk'[g][a] = Junk
  <2>1. disk'[g][a] = disk[g][a]
    <3>1. CASE g # f
      BY <1>1, <1>2, <1>3, <3>1 DEF SpillWrite
    <3>2. CASE g = f
      <4>1. ~(a < base + USize(Seg(n)))
        BY <1>2, <1>4, <1>7, <3>2
      <4> QED BY <1>1, <1>2, <1>3, <3>2, <4>1 DEF SpillWrite
    <3> QED BY <3>1, <3>2
  <2> QED BY <1>2, <1>7, <2>1 DEF Tails
<1> QED BY <1>6, <1>7 DEF Tails

\* What SaveInfo changes, of the current unit and of everything else.
LEMMA SaveForm ==
    ASSUME TableInv, StorageInv, CellType, Transfer, SaveInfo
    PROVE  \/ /\ InMem(cur) /\ cur \in heap /\ disk' = disk
              /\ \A u \in Units : u # cur => ram'[u] = ram[u]
              /\ ram'[cur] = [i \in Offsets |-> IF i >= off /\ i < off + Part THEN Given(i) ELSE ram[cur][i]]
           \/ /\ ~InMem(cur) /\ cur \notin heap /\ spill[cur] # 0 /\ tempFile \in 1 .. MaxFiles /\ ram' = ram
              /\ \A f \in 1 .. MaxFiles : f # tempFile => disk'[f] = disk[f]
              /\ \A a \in 0 .. DiskSize - 1 :
                    disk'[tempFile][a] = IF a >= spill[cur] - 1 + off /\ a < spill[cur] - 1 + off + Part
                                         THEN Given(a - (spill[cur] - 1)) ELSE disk[tempFile][a]
<1>1. /\ ram \in [Units -> [Offsets -> Cell]] /\ cur \in Units
      /\ disk \in [1 .. MaxFiles -> [0 .. DiskSize - 1 -> Cell]]
  BY AtUsedUnit DEF CellType, Transfer
<1>2. CASE InMem(cur)
  <2>1. cur \in heap
    BY <1>2, AtHome
  <2>2. /\ disk' = disk
        /\ ram' = [ram EXCEPT ![cur] = [i \in Offsets |->
                       IF i >= off /\ i < off + Part THEN Given(i) ELSE ram[cur][i]]]
    BY <1>2 DEF SaveInfo
  <2> QED BY <1>1, <1>2, <2>1, <2>2
<1>3. CASE ~InMem(cur)
  <2>1. cur \notin heap /\ spill[cur] # 0 /\ tempFile \in 1 .. MaxFiles
    BY <1>3, AtHome
  <2>2. /\ ram' = ram
        /\ disk' = [disk EXCEPT ![tempFile] = [a \in 0 .. DiskSize - 1 |->
              IF a >= spill[cur] - 1 + off /\ a < spill[cur] - 1 + off + Part
              THEN Given(a - (spill[cur] - 1)) ELSE disk[tempFile][a]]]
    BY <1>3 DEF SaveInfo
  <2> QED BY <1>1, <1>3, <2>1, <2>2
<1> QED BY <1>2, <1>3

LEMMA TailsTransfer ==
    ASSUME TableInv, StorageInv, CellType, Tails, Transfer
    PROVE  Tails'
<1>1. /\ UNCHANGED <<segSize, hugeTab, heap, spill, tmpFSize, tempFile, files>>
      /\ SaveInfo \/ UNCHANGED <<ram, disk>>
  BY DEF Transfer, table
<1>2. /\ heap \subseteq Units /\ cur \in Units /\ off \in Nat /\ Part \in Nat /\ off + Part <= USize(cur)
      /\ USize(cur) \in Nat
  BY AtUsedUnit, PartForm DEF Transfer, StorageInv, StorageType
<1>3. \A v \in Units : USize(v)' = USize(v)
  BY <1>1, SizesSame
<1>4. CASE UNCHANGED <<ram, disk>>
  BY <1>1, <1>2, <1>3, <1>4 DEF Tails
<1>5. CASE SaveInfo /\ InMem(cur)
  <2>1. /\ disk' = disk
        /\ \A u \in Units : u # cur => ram'[u] = ram[u]
        /\ ram'[cur] = [i \in Offsets |-> IF i >= off /\ i < off + Part THEN Given(i) ELSE ram[cur][i]]
        /\ cur \in heap
    BY <1>5, SaveForm
  <2>2. \A i \in Offsets : i >= USize(cur) => ~(i < off + Part)
    BY <1>2, VirtMemAssumption DEF Offsets
  <2>3. \A i \in Offsets : i >= USize(cur) => ram'[cur][i] = Junk
    BY <2>1, <2>2 DEF Tails
  <2>4. \A u \in heap' : \A i \in Offsets : i >= USize(u)' => ram'[u][i] = Junk
    BY <1>1, <1>2, <1>3, <2>1, <2>3 DEF Tails
  <2> QED BY <1>1, <2>1, <2>4 DEF Tails
<1>6. CASE SaveInfo /\ ~InMem(cur)
  <2>1. /\ spill[cur] # 0 /\ tempFile \in 1 .. MaxFiles /\ ram' = ram
        /\ \A f \in 1 .. MaxFiles : f # tempFile => disk'[f] = disk[f]
        /\ \A a \in 0 .. DiskSize - 1 :
              disk'[tempFile][a] = IF a >= spill[cur] - 1 + off /\ a < spill[cur] - 1 + off + Part
                                   THEN Given(a - (spill[cur] - 1)) ELSE disk[tempFile][a]
    BY <1>6, SaveForm
  <2>2. spill[cur] - 1 + USize(cur) <= tmpFSize /\ tempFile \in files
    BY <1>2, <2>1, VirtMemAssumption DEF StorageInv, SpillDisjoint, UsedUnits
  <2>3. spill[cur] \in Nat /\ tmpFSize \in Nat /\ DiskSize \in Nat
    BY <1>2, VirtMemAssumption DEF StorageInv, StorageType
  <2>4. ASSUME NEW f \in 1 .. MaxFiles, NEW a \in 0 .. DiskSize - 1, a >= tmpFSize \/ f \notin files
        PROVE  disk'[f][a] = Junk
    <3>1. disk[f][a] = Junk
      BY <2>4 DEF Tails
    <3>2. CASE f = tempFile
      <4>1. ~(a < spill[cur] - 1 + off + Part)
        BY <1>2, <2>2, <2>3, <2>4, <3>2
      <4> QED BY <2>1, <3>1, <3>2, <4>1
    <3>3. CASE f # tempFile
      BY <2>1, <3>1, <3>3
    <3> QED BY <3>2, <3>3
  <2> QED BY <1>1, <1>2, <1>3, <2>1, <2>4 DEF Tails
<1> QED BY <1>1, <1>4, <1>5, <1>6

LEMMA TailsInit == Init => Tails
  BY DEF Init, Tails

LEMMA TailsNext == TableInv /\ StorageInv /\ CellType /\ Tails /\ [Next]_vars => Tails'
<1> SUFFICES ASSUME TableInv, StorageInv, CellType, Tails, [Next]_vars PROVE Tails'
  OBVIOUS
<1>1. heap \subseteq Units /\ \A u \in heap : USize(u) > 0
  BY DEF StorageInv, StorageType, UsedUnits
<1>2. ASSUME UNCHANGED <<heap, ram, tmpFSize, files, disk>>, \A u \in heap : USize(u)' = USize(u) PROVE Tails'
  BY <1>2 DEF Tails
<1>3. ASSUME UNCHANGED <<heap, ram, tmpFSize, files, disk, segSize, hugeTab>> PROVE Tails'
  BY <1>1, <1>2, <1>3, SizesSame
<1>4. ASSUME NEW size \in Sizes, AllocStg(size) PROVE Tails'
  <2>1. /\ op = "idle" /\ UNCHANGED <<op, cur, off, len, pos>> /\ UNCHANGED <<heap, ram, tmpFSize, files, disk>>
        /\ AllocTinyStg(size) \/ AllocNormalStg(size) \/ AllocHugeStg(size)
    BY <1>4 DEF AllocStg, request, spillFile
  <2>2. size \in Nat \ {0}
    BY VirtMemAssumption
  <2>3. \A v \in Units : USize(v) # 0 => USize(v)' = USize(v)
    BY <2>1, <2>2, AllocSizes
  <2> QED BY <1>1, <1>2, <2>1, <2>3
<1>5. CASE Request \/ Return \/ UNCHANGED vars \/ \E b \in blocks : CopyBack(b)
  <2>1. UNCHANGED <<heap, ram, tmpFSize, files, disk, segSize, hugeTab>>
    BY <1>5 DEF Request, Begin, CopyBack, Return, vars, table, spillFile
  <2> QED BY <1>3, <2>1
<1>6. CASE AllocNode
  <2>1. cur \in Units /\ (TakeBlock(cur) \/ TakeSpill(cur)) /\ UNCHANGED <<segSize, hugeTab>>
    BY <1>6, AtUsedUnit DEF AllocNode, NeedsNode, table
  <2> QED BY <2>1, SizesSame, TailsTaken
<1>7. CASE AllocHugeNode
  <2>1. /\ UNCHANGED <<heap, ram, tmpFSize, files, disk, segSize>>
        /\ hugeTab' = [hugeTab EXCEPT ![cur[2]].page = TRUE]
    BY <1>7 DEF AllocHugeNode, spillFile
  <2>2. \A h \in 1 .. MaxHuge : hugeTab'[h].there = hugeTab[h].there /\ hugeTab'[h].last = hugeTab[h].last
    BY <2>1 DEF TableInv, TableOK
  <2> QED BY <1>1, <1>2, <2>1, <2>2, SizesSame
<1>8. CASE AllocSubpage
  <2>1. Sub(cur[2], fill) \in Units
    <3>1. fill >= 0 /\ fill \in -1 .. NumSub - 1
      BY <1>8 DEF AllocSubpage, Filling, TableInv, RequestOK
    <3>2. cur[2] \in 1 .. MaxHuge
      BY <3>1, UnitForm, SubForm DEF StorageInv, HugePages, HugeUnits, Sub
    <3> QED BY <3>1, <3>2, SubForm, VirtMemAssumption
  <2>2. TakeBlock(Sub(cur[2], fill)) \/ TakeSpill(Sub(cur[2], fill))
    BY <1>8 DEF AllocSubpage
  <2>3. segSize' = segSize /\ (hugeTab' = hugeTab \/ hugeTab' = [hugeTab EXCEPT ![cur[2]].swapped = fill + 1])
    BY <1>8 DEF AllocSubpage
  <2>4. \A h \in 1 .. MaxHuge : hugeTab'[h].there = hugeTab[h].there /\ hugeTab'[h].last = hugeTab[h].last
    <3>1. CASE hugeTab' = hugeTab
      BY <3>1
    <3>2. CASE hugeTab' = [hugeTab EXCEPT ![cur[2]].swapped = fill + 1]
      BY <3>2 DEF TableInv, TableOK
    <3> QED BY <2>3, <3>1, <3>2
  <2> QED BY <2>1, <2>2, <2>3, <2>4, SizesSame, TailsTaken
<1>9. CASE OpenSpillFile
  <2>1. /\ SwapTo(opening[Len(opening)]) /\ files \subseteq files'
        /\ UNCHANGED <<segSize, hugeTab, heap, ram, disk>>
    BY <1>9 DEF OpenSpillFile, OpenTempFile, table
  <2>2. opening[Len(opening)] \in 1 .. MaxSeg
    BY <1>9, InnermostForm DEF OpenSpillFile
  <2> QED BY <2>1, <2>2, TailsPlaced
<1>10. CASE Transfer
  BY <1>10, TailsTransfer
<1>11. CASE SwapOutVirt
  <2>1. PICK k \in DOMAIN nextSwap : tmpFSize' = tmpFSize \/ SwapTo(nextSwap[k])
    BY <1>11 DEF SwapOutVirt
  <2>2. nextSwap[k] \in 1 .. MaxSeg /\ UNCHANGED <<segSize, hugeTab, heap, ram, files, disk>>
    BY <1>11, ListedPages DEF StorageInv, SwapOutVirt, table
  <2>3. CASE tmpFSize' = tmpFSize
    BY <1>3, <2>2, <2>3
  <2>4. CASE SwapTo(nextSwap[k])
    BY <2>2, <2>4, TailsPlaced
  <2> QED BY <2>1, <2>3, <2>4
<1>12. CASE Relink
  <2>1. heap' = {}
    BY <1>12 DEF Relink, VirtMemInit
  <2>2. /\ files' = files \ {tempFile} /\ tmpFSize' = tmpFSize
        /\ disk' = IF tempFile = 0 THEN disk
                   ELSE [disk EXCEPT ![tempFile] = [a \in 0 .. DiskSize - 1 |-> Junk]]
    BY <1>12 DEF Relink, CloseSpillFile
  <2>3. ASSUME NEW f \in 1 .. MaxFiles, NEW a \in 0 .. DiskSize - 1, a >= tmpFSize' \/ f \notin files'
        PROVE  disk'[f][a] = Junk
    <3>1. CASE f = tempFile
      <4>1. tempFile # 0
        BY <3>1
      <4> QED BY <2>2, <3>1, <4>1 DEF CellType
    <3>2. CASE f # tempFile
      <4>1. disk'[f] = disk[f] /\ disk[f][a] = Junk
        BY <2>2, <2>3, <3>2 DEF CellType, Tails
      <4> QED BY <4>1
    <3> QED BY <3>1, <3>2
  <2> QED BY <2>1, <2>3 DEF Tails
<1>13. CASE WriteOut
  BY <1>13, TailsWritten
<1> QED BY <1>4, <1>5, <1>6, <1>7, <1>8, <1>9, <1>10, <1>11, <1>12, <1>13 DEF Next, Serve

------------------------------------------------------------------------------
(* Layer D: the refinement of VirtStore.  What a unit holds is its heap    *)
(* block, or what the spill file has for it, or nothing before it is used. *)

Content(u) == IF u \in heap THEN ram[u] ELSE IF spill[u] # 0 THEN Spilled(u) ELSE <<>>

\* A used unit holds cells, and none it does not have.
LEMMA ContentForm ==
    ASSUME TableInv, StorageInv, CellType, Tails, NEW u \in Units
    PROVE  /\ u \in heap \/ spill[u] # 0 => /\ Content(u) \in [Offsets -> Cell] /\ Content(u) # <<>>
                                           /\ \A i \in Offsets : i >= USize(u) => Content(u)[i] = Junk
           /\ u \notin heap /\ spill[u] # 0 =>
                 \A i \in Offsets : i < USize(u) =>
                    /\ spill[u] + i - 1 \in 0 .. DiskSize - 1
                    /\ Content(u)[i] = disk[tempFile][spill[u] + i - 1]
<1>1. /\ ram \in [Units -> [Offsets -> Cell]] /\ disk \in [1 .. MaxFiles -> [0 .. DiskSize - 1 -> Cell]]
      /\ USize(u) \in Nat /\ SubSize \in Nat \ {0} /\ DiskSize \in Nat
      /\ spill[u] \in 0 .. DiskSize + 1 /\ tmpFSize \in 0 .. DiskSize
  BY USizeBound, VirtMemAssumption DEF TableInv, CellType, StorageInv, StorageType
<1>2. ASSUME NEW c \in [Offsets -> Cell] PROVE c # <<>>
  <2>1. 0 \in DOMAIN c
    BY <1>1, <1>2 DEF Offsets
  <2> QED BY <2>1
<1>3. CASE u \in heap
  <2>1. Content(u) = ram[u]
    BY <1>3 DEF Content
  <2>2. Content(u) \in [Offsets -> Cell]
    BY <1>1, <2>1
  <2>3. \A i \in Offsets : i >= USize(u) => Content(u)[i] = Junk
    BY <1>3, <2>1 DEF Tails
  <2> QED BY <1>2, <1>3, <2>2, <2>3
<1>4. CASE u \notin heap /\ spill[u] # 0
  <2>1. Content(u) = [i \in Offsets |-> IF i < USize(u) THEN disk[tempFile][spill[u] + i - 1] ELSE Junk]
    BY <1>4 DEF Content, Spilled
  <2>2. tempFile \in 1 .. MaxFiles /\ spill[u] - 1 + USize(u) <= tmpFSize
    BY <1>4, VirtMemAssumption DEF StorageInv, StorageType, UsedUnits, SpillDisjoint
  <2>3. \A i \in Offsets : i < USize(u) => spill[u] + i - 1 \in 0 .. DiskSize - 1
    BY <1>1, <1>4, <2>2 DEF Offsets
  <2>4. \A i \in Offsets : i < USize(u) => disk[tempFile][spill[u] + i - 1] \in Cell
    BY <1>1, <2>2, <2>3
  <2>5. Content(u) \in [Offsets -> Cell]
    BY <2>1, <2>4 DEF Cell
  <2>6. \A i \in Offsets : i >= USize(u) => ~(i < USize(u))
    BY <1>1 DEF Offsets
  <2> QED BY <1>2, <1>4, <2>1, <2>3, <2>5, <2>6
<1> QED BY <1>3, <1>4

LEMMA StoreInit == Init => Store!Init
<1> SUFFICES ASSUME Init PROVE Store!Init
  OBVIOUS
<1>1. \A u \in Units : USize(u) = 0 /\ u \notin heap /\ spill[u] = 0
  <2>1. \A u \in Units : USize(u) = 0
    <3> TAKE u \in Units
    <3>1. CASE IsSeg(u)
      BY <3>1, UnitForm DEF Init, USize
    <3>2. CASE ~IsSeg(u)
      <4>1. u[3] \in 0 .. NumSub - 1 /\ u[2] \in 1 .. MaxHuge
        BY <3>2, UnitForm
      <4>2. hugeTab[u[2]].there = 0
        BY <4>1 DEF Init
      <4> QED BY <3>2, <4>1, <4>2 DEF USize
    <3> QED BY <3>1, <3>2
  <2> QED BY <2>1 DEF Init
<1>2. Seg(1) \in Units
  BY SegForm, VirtMemAssumption
<1> QED BY <1>1, <1>2 DEF Init, Store!Init, Store!Unset, Store!Index, Index

LEMMA StoreReturn == Return => Store!Return
<1> SUFFICES ASSUME Return PROVE Store!Return
  OBVIOUS
<1>1. Seg(1) \in Units
  BY SegForm, VirtMemAssumption
<1>2. UNCHANGED <<table, heap, ram, spill, spillFile>> /\ op = "done" /\ Idle
  BY DEF Return
<1> QED BY <1>1, <1>2 DEF Idle, Store!Return, Store!Idle, Store!Index, Index, Spilled, USize, table, spillFile

\* Steps that change what a unit holds nowhere, seen from the store.
LEMMA StoreStutter ==
    ASSUME \A u \in Units : USize(u)' = USize(u) /\ Content(u)' = Content(u), UNCHANGED request
    PROVE  UNCHANGED Store!vars
<1>1. [u \in Units |-> USize(u)]' = [u \in Units |-> USize(u)]
  OBVIOUS
<1>2. [u \in Units |-> Content(u)]' = [u \in Units |-> Content(u)]
  OBVIOUS
<1> QED BY <1>1, <1>2 DEF Store!vars, request, Content

LEMMA StoreAllocate ==
    ASSUME TableInv, TableInv', StorageInv, NEW size \in Nat \ {0}, AllocStg(size)
    PROVE  Store!Allocate
<1>1. /\ op = "idle" /\ UNCHANGED <<op, cur, off, len, pos>> /\ UNCHANGED request
      /\ UNCHANGED <<heap, ram, spill, tempFile, disk>>
      /\ AllocTinyStg(size) \/ AllocNormalStg(size) \/ AllocHugeStg(size)
  BY DEF AllocStg, request, spillFile
<1>2. \A u \in Units : USize(u) # 0 => USize(u)' = USize(u)
  BY <1>1, AllocSizes
<1>3. \A u \in Units : USize(u)' \in Nat
  <2> TAKE u \in Units
  <2>1. CASE IsSeg(u)
    <3>1. segSize'[u[2]] \in 0 .. NodeSize
      BY <2>1, UnitForm DEF TableInv, TableOK
    <3> QED BY <2>1, <3>1 DEF USize
  <2>2. CASE ~IsSeg(u)
    <3>1. hugeTab'[u[2]].last \in 0 .. SubSize /\ SubSize \in Nat
      BY <2>2, UnitForm, VirtMemAssumption DEF TableInv, TableOK
    <3> QED BY <2>2, <3>1 DEF USize
  <2> QED BY <2>1, <2>2
<1>4. \A u \in Units : Content(u)' = Content(u)
  <2> TAKE u \in Units
  <2>1. CASE u \in heap
    BY <1>1, <2>1 DEF Content
  <2>2. CASE u \notin heap /\ spill[u] # 0
    <3>1. USize(u) # 0
      BY <2>2 DEF StorageInv, UsedUnits
    <3> QED BY <1>1, <1>2, <2>2, <3>1 DEF Content, Spilled
  <2>3. CASE u \notin heap /\ spill[u] = 0
    BY <1>1, <2>3 DEF Content
  <2> QED BY <2>1, <2>2, <2>3
<1>5. [u \in Units |-> Content(u)]' = [u \in Units |-> Content(u)]
  BY <1>4
<1> QED BY <1>1, <1>2, <1>3, <1>5 DEF Store!Allocate, Store!request, request, Content

\* A step that leaves the tables and all cells alone.
LEMMA CellsSame ==
    ASSUME UNCHANGED <<table, heap, ram, spill, spillFile>>
    PROVE  \A u \in Units : USize(u)' = USize(u) /\ Content(u)' = Content(u)
  BY DEF table, spillFile, USize, Content, Spilled

LEMMA StoreBegin == CellType' /\ Request => Store!Begin
<1> SUFFICES ASSUME CellType', Request PROVE Store!Begin
  OBVIOUS
<1>1. PICK o \in {"load", "null", "copy", "save", "cmp"}, b \in blocks, l \in 1 .. MaxLen, d \in Data \cup {Zero} :
         Begin(o, b, l, d)
  BY DEF Request
<1>2. /\ op = "idle" /\ cur' \in Units /\ off' \in Offsets /\ len' = l /\ pos' = 0 /\ op' = o /\ same' = TRUE
      /\ UNCHANGED <<table, heap, ram, spill, spillFile>>
  BY <1>1 DEF Begin, At
<1>3. off' \in Nat /\ len' \in Nat
  BY <1>2, VirtMemAssumption DEF Offsets
<1>4. buf' \in [Index -> Cell]
  BY DEF CellType
<1>5. /\ [u \in Units |-> USize(u)]' = [u \in Units |-> USize(u)]
      /\ [u \in Units |-> Content(u)]' = [u \in Units |-> Content(u)]
  BY <1>2, CellsSame
<1> QED BY <1>2, <1>3, <1>4, <1>5 DEF Store!Begin, Store!Index, Index, Content

LEMMA StoreCopyBack == \A b \in blocks : TableInv /\ CopyBack(b) => Store!CopyBack
<1> SUFFICES ASSUME NEW b \in blocks, TableInv, CopyBack(b) PROVE Store!CopyBack
  OBVIOUS
<1>1. /\ op = "copied" /\ cur' \in Units /\ off' \in Offsets /\ len' = pos + len /\ pos' = 0 /\ op' = "save"
      /\ UNCHANGED <<table, heap, ram, spill, spillFile>> /\ UNCHANGED <<buf, same>>
  BY DEF CopyBack, At
<1>2. off' \in Nat /\ len' \in Nat
  BY <1>1, VirtMemAssumption DEF Offsets, TableInv, RequestOK
<1>3. /\ [u \in Units |-> USize(u)]' = [u \in Units |-> USize(u)]
      /\ [u \in Units |-> Content(u)]' = [u \in Units |-> Content(u)]
  BY <1>1, CellsSame
<1> QED BY <1>1, <1>2, <1>3 DEF Store!CopyBack, Content

\* The first use of a unit, with or without memory for it.
LEMMA StoreFirstUse ==
    ASSUME TableInv, StorageInv, CellType, Tails, NEW u \in Units, TakeBlock(u) \/ TakeSpill(u),
           u \notin heap, spill[u] = 0, USize(u) > 0, op # "idle",
           \A v \in Units : USize(v)' = USize(v), UNCHANGED request
    PROVE  Store!FirstUse
<1> DEFINE Fresh(c) == [i \in Offsets |-> IF i < USize(u) THEN c ELSE Junk]
<1>1. /\ ram \in [Units -> [Offsets -> Cell]] /\ disk \in [1 .. MaxFiles -> [0 .. DiskSize - 1 -> Cell]]
      /\ spill \in [Units -> 0 .. DiskSize + 1] /\ USize(u) \in Nat /\ SubSize \in Nat /\ DiskSize \in Nat
      /\ tmpFSize \in 0 .. DiskSize
  BY USizeBound, VirtMemAssumption DEF TableInv, CellType, StorageInv, StorageType
<1>2. \E c \in {Zero, Junk} :
         Content(u)' = Fresh(c) /\ \A v \in Units : v # u => Content(v)' = Content(v)
  <2>1. CASE TakeBlock(u)
    <3>1. heap' = heap \cup {u} /\ ram' = [ram EXCEPT ![u] = Fresh(Zero)] /\ UNCHANGED <<spill, spillFile>>
      BY <2>1 DEF TakeBlock
    <3>2. Content(u)' = Fresh(Zero)
      BY <1>1, <3>1 DEF Content
    <3>3. ASSUME NEW v \in Units, v # u PROVE Content(v)' = Content(v)
      <4>1. (v \in heap' <=> v \in heap) /\ ram'[v] = ram[v]
        BY <1>1, <3>1, <3>3
      <4> QED BY <3>1, <4>1 DEF Content, Spilled, spillFile
    <3> QED BY <3>2, <3>3
  <2>2. CASE TakeSpill(u)
    <3>1. PICK base \in 0 .. DiskSize : SpillAlloc(u, base)
      BY <2>2 DEF TakeSpill
    <3>2. /\ UNCHANGED <<disk, heap, ram>> /\ (tempFile # 0 => tempFile' = tempFile)
          /\ tempFile' \in 1 .. MaxFiles
      BY <2>2, VirtMemAssumption DEF TakeSpill, OpenTempFile, StorageInv, StorageType
    <3>3. /\ spill'[u] = base + 1 /\ (\A v \in Units : v # u => spill'[v] = spill[v])
          /\ base >= tmpFSize /\ tmpFSize' = base + USize(u) /\ tmpFSize' \in 0 .. DiskSize
      BY <3>1, SpillAllocOK DEF TableInv, StorageInv
    <3>4. Content(u)' = [i \in Offsets |-> IF i < USize(u) THEN disk[tempFile'][base + 1 + i - 1] ELSE Junk]
      <4>1. u \notin heap' /\ spill'[u] # 0
        BY <3>2, <3>3
      <4> QED BY <3>2, <3>3, <4>1 DEF Content, Spilled
    <3>5. \A i \in Offsets : i < USize(u) => disk[tempFile'][base + 1 + i - 1] = Junk
      <4> SUFFICES ASSUME NEW i \in Offsets, i < USize(u) PROVE disk[tempFile'][base + 1 + i - 1] = Junk
        OBVIOUS
      <4>1. base + 1 + i - 1 \in 0 .. DiskSize - 1 /\ base + 1 + i - 1 >= tmpFSize
        BY <1>1, <3>3 DEF Offsets
      <4> QED BY <3>2, <4>1 DEF Tails
    <3>6. Content(u)' = Fresh(Junk)
      BY <3>4, <3>5
    <3>7. ASSUME NEW v \in Units, v # u PROVE Content(v)' = Content(v)
      <4>1. spill[v] # 0 => tempFile' = tempFile
        BY <3>2 DEF StorageInv, UsedUnits
      <4> QED BY <3>2, <3>3, <3>7, <4>1 DEF Content, Spilled
    <3> QED BY <3>6, <3>7
  <2> QED BY <2>1, <2>2
<1>3. PICK c \in {Zero, Junk} :
         Content(u)' = Fresh(c) /\ \A v \in Units : v # u => Content(v)' = Content(v)
  BY <1>2
<1>4. Content(u) = <<>>
  BY DEF Content
<1>5. [v \in Units |-> Content(v)]' = [[v \in Units |-> Content(v)] EXCEPT ![u] = Fresh(c)]
  BY <1>3
<1>6. [v \in Units |-> USize(v)]' = [v \in Units |-> USize(v)]
  OBVIOUS
<1>7. USize(u) # 0
  BY <1>1
<1>8. \E w \in Units, d \in {Zero, Junk} :
         /\ [v \in Units |-> USize(v)][w] # 0 /\ [v \in Units |-> Content(v)][w] = <<>>
         /\ [v \in Units |-> Content(v)]' =
               [[v \in Units |-> Content(v)] EXCEPT ![w] =
                   [i \in Offsets |-> IF i < [v \in Units |-> USize(v)][w] THEN d ELSE Junk]]
  <2>1. [v \in Units |-> USize(v)][u] = USize(u) /\ [v \in Units |-> Content(v)][u] = <<>>
    BY <1>4
  <2> WITNESS u \in Units, c \in {Zero, Junk}
  <2> QED BY <1>5, <1>7, <2>1
<1> HIDE DEF Fresh
<1>9. UNCHANGED Store!request
  BY DEF Store!request, request
<1> QED BY <1>6, <1>8, <1>9 DEF Store!FirstUse, Store!Unset, Content

\* A page that has just got its place in the file is still read from its block.
LEMMA StorePlaced ==
    ASSUME TableInv, StorageInv, NEW n \in 1 .. MaxSeg, Seg(n) \in heap, SwapTo(n),
           tempFile # 0 => tempFile' = tempFile,
           UNCHANGED <<segSize, hugeTab, heap, ram, disk>>, UNCHANGED request
    PROVE  UNCHANGED Store!vars
<1>1. \A v \in Units : USize(v)' = USize(v)
  BY SizesSame
<1>2. PICK base \in 0 .. DiskSize : SpillAlloc(Seg(n), base)
  BY DEF SwapTo
<1>3. \A v \in Units : v # Seg(n) => spill'[v] = spill[v]
  BY <1>1, <1>2, SegForm, SpillAllocOK DEF TableInv, StorageInv
<1>4. ASSUME NEW v \in Units PROVE Content(v)' = Content(v)
  <2>1. CASE v \in heap
    BY <2>1 DEF Content
  <2>2. CASE v \notin heap
    <3>1. spill'[v] = spill[v] /\ (spill[v] # 0 => tempFile' = tempFile)
      BY <1>3, <2>2 DEF StorageInv, UsedUnits
    <3> QED BY <1>1, <2>2, <3>1 DEF Content, Spilled
  <2> QED BY <2>1, <2>2
<1> QED BY <1>1, <1>4, StoreStutter

\* Copying its block there and freeing it is invisible: its cells are in the file
\* where it now looks for them, and no other unit's place there is touched.
LEMMA StoreWriteOut ==
    ASSUME TableInv, StorageInv, CellType, Tails, WriteOut
    PROVE  UNCHANGED Store!vars
<1>1. /\ ram \in [Units -> [Offsets -> Cell]] /\ disk \in [1 .. MaxFiles -> [0 .. DiskSize - 1 -> Cell]]
      /\ spill \in [Units -> 0 .. DiskSize + 1] /\ SubSize \in Nat /\ DiskSize \in Nat
      /\ tmpFSize \in 0 .. DiskSize
  BY VirtMemAssumption DEF CellType, StorageInv, StorageType
<1>2. /\ writing # 0 /\ UNCHANGED <<segSize, hugeTab, spill, tempFile>> /\ UNCHANGED request
      /\ SpillWrite(tempFile, Seg(writing), spill[Seg(writing)] - 1)
      /\ heap' = heap \ {Seg(writing)} /\ ram' = [ram EXCEPT ![Seg(writing)] = NoCells]
  BY DEF WriteOut, Free, table
<1>3. PICK n \in 1 .. MaxSeg, f \in 1 .. MaxFiles, base \in 0 .. DiskSize :
         n = writing /\ f = tempFile /\ base = spill[Seg(writing)] - 1
  BY <1>2, WritingForm
<1>4. \A v \in Units : USize(v)' = USize(v)
  BY <1>2, SizesSame
<1>5. /\ Seg(n) \in Units /\ Seg(n) \in heap /\ spill[Seg(n)] = base + 1 /\ spill[Seg(n)] # 0
      /\ base + USize(Seg(n)) <= tmpFSize
  BY <1>1, <1>2, <1>3, WritingForm
<1>6. USize(Seg(n)) \in Nat /\ USize(Seg(n)) > 0
  BY <1>5, USizeBound DEF TableInv, StorageInv, UsedUnits
<1>7. \A a \in 0 .. DiskSize - 1 :
         disk'[f][a] = IF a >= base /\ a < base + USize(Seg(n)) THEN ram[Seg(n)][a - base] ELSE disk[f][a]
  BY <1>1, <1>2, <1>3 DEF SpillWrite
<1>8. Content(Seg(n))' = Content(Seg(n))
  <2>1. Content(Seg(n)) = ram[Seg(n)] /\ ram[Seg(n)] \in [Offsets -> Cell]
    BY <1>1, <1>5 DEF Content
  <2>2. Content(Seg(n))' = [i \in Offsets |-> IF i < USize(Seg(n)) THEN disk'[f][base + 1 + i - 1] ELSE Junk]
    <3>1. Seg(n) \notin heap' /\ spill'[Seg(n)] # 0
      BY <1>2, <1>3, <1>5
    <3> QED BY <1>2, <1>3, <1>4, <1>5, <3>1 DEF Content, Spilled
  <2>3. ASSUME NEW i \in Offsets
        PROVE  (IF i < USize(Seg(n)) THEN disk'[f][base + 1 + i - 1] ELSE Junk) = ram[Seg(n)][i]
    <3>1. CASE i < USize(Seg(n))
      <4>1. /\ base + 1 + i - 1 = base + i /\ base + i \in 0 .. DiskSize - 1
            /\ base + i >= base /\ base + i < base + USize(Seg(n)) /\ (base + i) - base = i
        BY <1>1, <1>5, <1>6, <3>1 DEF Offsets
      <4>2. disk'[f][base + i] = ram[Seg(n)][(base + i) - base]
        BY <1>7, <4>1
      <4> QED BY <3>1, <4>1, <4>2
    <3>2. CASE ~(i < USize(Seg(n)))
      <4>1. i >= USize(Seg(n))
        BY <1>1, <1>6, <3>2 DEF Offsets
      <4> QED BY <1>5, <3>2, <4>1 DEF Tails
    <3> QED BY <3>1, <3>2
  <2>4. [i \in Offsets |-> IF i < USize(Seg(n)) THEN disk'[f][base + 1 + i - 1] ELSE Junk]
          = [i \in Offsets |-> ram[Seg(n)][i]]
    BY <2>3
  <2>5. [i \in Offsets |-> ram[Seg(n)][i]] = ram[Seg(n)]
    BY <2>1
  <2> QED BY <2>1, <2>2, <2>4, <2>5
<1>9. ASSUME NEW v \in Units, v # Seg(n) PROVE Content(v)' = Content(v)
  <2>1. (v \in heap' <=> v \in heap) /\ ram'[v] = ram[v] /\ spill'[v] = spill[v]
    BY <1>1, <1>2, <1>3, <1>9
  <2>2. CASE v \in heap
    BY <2>1, <2>2 DEF Content
  <2>3. CASE v \notin heap /\ spill[v] = 0
    BY <2>1, <2>3 DEF Content
  <2>4. CASE v \notin heap /\ spill[v] # 0
    <3>1. tempFile' = f /\ tempFile = f
      BY <1>2, <1>3
    <3>2. \/ spill[v] + USize(v) <= spill[Seg(n)]
          \/ spill[Seg(n)] + USize(Seg(n)) <= spill[v]
      BY <1>5, <1>9, <2>4 DEF StorageInv, SpillDisjoint
    <3>3. /\ spill[v] \in Nat /\ USize(v) \in Nat /\ base \in Nat /\ Offsets \subseteq Nat
          /\ \A i \in Offsets : i < USize(v) => spill[v] + i - 1 \in 0 .. DiskSize - 1
      BY <1>1, <1>3, <2>4, USizeBound, ContentForm DEF TableInv, Offsets
    <3>4. ASSUME NEW i \in Offsets, i < USize(v)
          PROVE  disk'[f][spill[v] + i - 1] = disk[f][spill[v] + i - 1]
      <4>1. PICK a \in 0 .. DiskSize - 1 : a = spill[v] + i - 1
        BY <3>3, <3>4
      <4>2. ~(a >= base /\ a < base + USize(Seg(n)))
        BY <1>5, <1>6, <3>2, <3>3, <3>4, <4>1
      <4>3. disk'[f][a] = disk[f][a]
        BY <1>7, <4>2
      <4> QED BY <4>1, <4>3
    <3>5. Content(v)' = [i \in Offsets |-> IF i < USize(v) THEN disk'[f][spill[v] + i - 1] ELSE Junk]
      BY <1>4, <2>1, <2>4, <3>1 DEF Content, Spilled
    <3>6. Content(v) = [i \in Offsets |-> IF i < USize(v) THEN disk[f][spill[v] + i - 1] ELSE Junk]
      BY <2>4, <3>1 DEF Content, Spilled
    <3> QED BY <3>4, <3>5, <3>6
  <2> QED BY <2>2, <2>3, <2>4
<1> QED BY <1>2, <1>4, <1>8, <1>9, StoreStutter

LEMMA StoreRelink ==
    ASSUME TableInv, StorageInv, Relink
    PROVE  Store!Relink
<1>1. heap' = {}
  BY DEF Relink, VirtMemInit
<1>2. /\ spill' = [u \in Units |-> 0] /\ segSize' = [n \in 1 .. MaxSeg |-> 0]
      /\ hugeTab' = [h \in 1 .. MaxHuge |-> [there |-> 0, last |-> 0, swapped |-> 0, page |-> FALSE]]
      /\ Idle
  BY DEF Relink, VirtMemInit
<1>3. ASSUME NEW u \in Units PROVE USize(u)' = 0 /\ Content(u)' = <<>>
  <2>1. Content(u)' = <<>>
    BY <1>1, <1>2 DEF Content
  <2>2. CASE IsSeg(u)
    BY <1>2, <2>1, <2>2, UnitForm DEF USize
  <2>3. CASE ~IsSeg(u)
    <3>1. u[3] \in 0 .. NumSub - 1 /\ u[2] \in 1 .. MaxHuge
      BY <2>3, UnitForm
    <3>2. hugeTab'[u[2]].there = 0
      BY <1>2, <3>1
    <3> QED BY <2>1, <2>3, <3>1, <3>2 DEF USize
  <2> QED BY <2>2, <2>3
<1>4. /\ [u \in Units |-> USize(u)]' = [u \in Units |-> 0]
      /\ [u \in Units |-> Content(u)]' = [u \in Units |-> <<>>]
  BY <1>3
<1>5. Seg(1) \in Units
  BY SegForm, VirtMemAssumption
<1> QED BY <1>2, <1>4, <1>5 DEF Idle, Store!Relink, Store!Idle, Store!Unset, Store!Index, Index, Content

\* What LoadInfo and CompareBlock find is what the store holds.
LEMMA HereContent ==
    ASSUME TableInv, StorageInv, CellType, Tails, Transfer, NEW i \in Int, i >= off, i < off + Part
    PROVE  i \in Offsets /\ Here(i) = Content(cur)[i]
<1>1. cur \in Units /\ off \in Nat /\ Part \in Nat /\ off + Part <= USize(cur) /\ USize(cur) \in Nat
  BY AtUsedUnit, PartForm DEF Transfer
<1>2. i \in Offsets /\ i < USize(cur)
  BY <1>1, HereType
<1>3. CASE InMem(cur)
  <2>1. cur \in heap
    BY <1>3, AtHome
  <2> QED BY <1>2, <1>3, <2>1 DEF Here, Content
<1>4. CASE ~InMem(cur)
  <2>1. cur \notin heap /\ spill[cur] # 0
    BY <1>4, AtHome
  <2>2. Content(cur)[i] = disk[tempFile][spill[cur] + i - 1]
    BY <1>1, <1>2, <2>1, ContentForm
  <2> QED BY <1>2, <1>4, <2>2 DEF Here
<1> QED BY <1>3, <1>4

\* What SaveInfo and NullInfo put is what the store then holds, and no other
\* unit changes.
LEMMA SaveContent ==
    ASSUME TableInv, StorageInv, CellType, Tails, Transfer, SaveInfo,
           NEW c \in Units, c = cur
    PROVE  /\ Content(c)' = [i \in Offsets |-> IF i >= off /\ i < off + Part THEN Given(i)
                                                 ELSE Content(c)[i]]
           /\ \A v \in Units : v # c => Content(v)' = Content(v)
<1>1. UNCHANGED <<segSize, hugeTab, heap, spill, tempFile>>
  BY DEF Transfer, table
<1>2. /\ cur \in Units /\ off \in Nat /\ Part \in Nat /\ off + Part <= USize(cur) /\ USize(cur) \in Nat
      /\ SubSize \in Nat /\ ram \in [Units -> [Offsets -> Cell]] /\ DiskSize \in Nat
      /\ \A v \in Units : spill[v] \in 0 .. DiskSize + 1
  BY AtUsedUnit, PartForm, VirtMemAssumption DEF Transfer, CellType, StorageInv, StorageType
<1>3. \A v \in Units : USize(v)' = USize(v)
  BY <1>1, SizesSame
<1>4. CASE InMem(cur)
  <2>1. /\ cur \in heap /\ disk' = disk
        /\ \A u \in Units : u # cur => ram'[u] = ram[u]
        /\ ram'[cur] = [i \in Offsets |-> IF i >= off /\ i < off + Part THEN Given(i) ELSE ram[cur][i]]
    BY <1>4, SaveForm
  <2>2. Content(c) = ram[c] /\ Content(c)' = ram'[c]
    BY <1>1, <2>1 DEF Content
  <2>3. ASSUME NEW v \in Units, v # c PROVE Content(v)' = Content(v)
    BY <1>1, <1>3, <2>1, <2>3 DEF Content, Spilled
  <2> QED BY <2>1, <2>2, <2>3
<1>5. CASE ~InMem(cur)
  <2>1. /\ cur \notin heap /\ spill[cur] # 0 /\ tempFile \in 1 .. MaxFiles /\ ram' = ram
        /\ \A a \in 0 .. DiskSize - 1 :
              disk'[tempFile][a] = IF a >= spill[cur] - 1 + off /\ a < spill[cur] - 1 + off + Part
                                   THEN Given(a - (spill[cur] - 1)) ELSE disk[tempFile][a]
    BY <1>5, SaveForm
  <2>2. \A v \in Units : v \notin heap /\ spill[v] # 0 =>
           \A i \in Offsets : i < USize(v) => spill[v] + i - 1 \in 0 .. DiskSize - 1
    BY ContentForm
  <2>3. /\ Content(c)' = [i \in Offsets |-> IF i < USize(cur) THEN disk'[tempFile][spill[cur] + i - 1] ELSE Junk]
        /\ Content(c) = [i \in Offsets |-> IF i < USize(cur) THEN disk[tempFile][spill[cur] + i - 1] ELSE Junk]
    BY <1>1, <1>2, <1>3, <2>1 DEF Content, Spilled
  <2>4. ASSUME NEW i \in Offsets
        PROVE  Content(c)'[i] = IF i >= off /\ i < off + Part THEN Given(i) ELSE Content(c)[i]
    <3>1. i \in Nat /\ spill[cur] \in Nat
      BY <1>2 DEF Offsets
    <3>2. CASE i < USize(cur)
      <4>1. /\ spill[cur] + i - 1 \in 0 .. DiskSize - 1
            /\ (spill[cur] + i - 1) - (spill[cur] - 1) = i
            /\ spill[cur] + i - 1 >= spill[cur] - 1 + off <=> i >= off
            /\ spill[cur] + i - 1 < spill[cur] - 1 + off + Part <=> i < off + Part
        BY <1>2, <2>1, <2>2, <3>1, <3>2
      <4>2. disk'[tempFile][spill[cur] + i - 1] =
               IF i >= off /\ i < off + Part THEN Given(i) ELSE disk[tempFile][spill[cur] + i - 1]
        BY <2>1, <4>1
      <4>3. /\ Content(c)'[i] = disk'[tempFile][spill[cur] + i - 1]
            /\ Content(c)[i] = disk[tempFile][spill[cur] + i - 1]
        BY <2>3, <3>2
      <4> QED BY <4>2, <4>3
    <3>3. CASE ~(i < USize(cur))
      <4>1. ~(i < off + Part)
        BY <1>2, <3>1, <3>3
      <4> QED BY <2>3, <3>3, <4>1
    <3> QED BY <3>2, <3>3
  <2>5. Content(c)' = [i \in Offsets |-> IF i >= off /\ i < off + Part THEN Given(i) ELSE Content(c)[i]]
    BY <2>3, <2>4
  <2>6. ASSUME NEW v \in Units, v # c PROVE Content(v)' = Content(v)
    <3>1. CASE v \in heap
      BY <1>1, <2>1, <3>1 DEF Content
    <3>2. CASE v \notin heap /\ spill[v] = 0
      BY <1>1, <3>2 DEF Content
    <3>3. CASE v \notin heap /\ spill[v] # 0
      <4>1. spill[v] + USize(v) <= spill[cur] \/ spill[cur] + USize(cur) <= spill[v]
        BY <1>2, <2>1, <2>6, <3>3 DEF StorageInv, SpillDisjoint
      <4>2. spill[v] \in Nat /\ USize(v) \in Nat /\ spill[cur] \in Nat
        BY <1>2, USizeBound DEF TableInv
      <4>3. ASSUME NEW i \in Offsets, i < USize(v)
            PROVE  disk'[tempFile][spill[v] + i - 1] = disk[tempFile][spill[v] + i - 1]
        <5>1. i \in Nat /\ spill[v] + i - 1 \in 0 .. DiskSize - 1
          BY <1>2, <2>2, <3>3, <4>3 DEF Offsets
        <5>2. ~(spill[v] + i - 1 >= spill[cur] - 1 + off /\ spill[v] + i - 1 < spill[cur] - 1 + off + Part)
          BY <1>2, <4>1, <4>2, <4>3, <5>1
        <5> QED BY <2>1, <5>1, <5>2
      <4>4. /\ Content(v)' = [i \in Offsets |-> IF i < USize(v) THEN disk'[tempFile][spill[v] + i - 1] ELSE Junk]
            /\ Content(v) = [i \in Offsets |-> IF i < USize(v) THEN disk[tempFile][spill[v] + i - 1] ELSE Junk]
        BY <1>1, <1>3, <3>3 DEF Content, Spilled
      <4> QED BY <4>3, <4>4
    <3> QED BY <3>1, <3>2, <3>3
  <2> QED BY <2>5, <2>6
<1> QED BY <1>4, <1>5

\* One turn of ScanNodes is one turn over the store.
LEMMA StoreTransfer ==
    ASSUME TableInv, StorageInv, CellType, Tails, Transfer
    PROVE  Store!Transfer
<1> DEFINE C == [u \in Units |-> Content(u)]
           S == [u \in Units |-> USize(u)]
<1>1. /\ cur \in Units /\ off \in Nat /\ Part \in Nat /\ pos \in Nat /\ len \in Nat
  BY AtUsedUnit, PartForm DEF Transfer
<1>2. S[cur] = USize(cur) /\ C[cur] = Content(cur)
  BY <1>1
<1>3. S' = S
  <2>1. \A u \in Units : USize(u)' = USize(u)
    BY SizesSame DEF Transfer, table
  <2> QED BY <2>1
<1>4. C[cur] # <<>>
  <2>1. cur \in heap \/ spill[cur] # 0
    BY AtHome
  <2> QED BY <1>1, <1>2, <2>1, ContentForm
<1>5. Store!Part = Part
  BY <1>2 DEF Store!Part, Part, LastPart
<1>6. C' = IF op \in {"save", "null"}
           THEN [C EXCEPT ![cur] = [i \in Offsets |-> IF i >= off /\ i < off + Part THEN Given(i) ELSE C[cur][i]]]
           ELSE C
  <2>1. CASE op \in {"save", "null"}
    <3>1. SaveInfo
      BY <2>1 DEF Transfer
    <3>2. PICK c \in Units : c = cur
      BY <1>1
    <3>3. /\ Content(c)' = [i \in Offsets |-> IF i >= off /\ i < off + Part THEN Given(i) ELSE Content(c)[i]]
          /\ \A v \in Units : v # c => Content(v)' = Content(v)
      BY <3>1, <3>2, SaveContent
    <3> QED BY <1>1, <1>2, <2>1, <3>2, <3>3
  <2>2. CASE op \notin {"save", "null"}
    <3>1. UNCHANGED <<table, heap, ram, spill, spillFile>>
      BY <2>2 DEF Transfer, spillFile
    <3> QED BY <2>2, <3>1, CellsSame
  <2> QED BY <2>1, <2>2
<1>7. buf' = IF op \in {"load", "copy"}
             THEN [k \in Index |-> IF k >= pos /\ k < pos + Part THEN C[cur][k - pos + off] ELSE buf[k]]
             ELSE buf
  <2>1. CASE op \in {"load", "copy"}
    <3>1. buf' = [k \in Index |-> IF k >= pos /\ k < pos + Part THEN Here(k - pos + off) ELSE buf[k]]
      BY <2>1 DEF Transfer, LoadInfo
    <3>2. ASSUME NEW k \in Index, k >= pos, k < pos + Part
          PROVE  Here(k - pos + off) = C[cur][k - pos + off]
      <4>1. k - pos + off \in Int /\ k - pos + off >= off /\ k - pos + off < off + Part
        BY <1>1, <3>2, VirtMemAssumption DEF Index
      <4> QED BY <1>2, <4>1, HereContent
    <3> QED BY <2>1, <3>1, <3>2
  <2>2. CASE op \notin {"load", "copy"}
    BY <2>2 DEF Transfer
  <2> QED BY <2>1, <2>2
<1>8. same' = (op = "cmp" => \A i \in Offsets : i >= off /\ i < off + Part => C[cur][i] = buf[pos + i - off])
  <2>1. ASSUME NEW i \in Offsets, i >= off, i < off + Part, op = "cmp"
        PROVE  Here(i) = C[cur][i] /\ Given(i) = buf[pos + i - off]
    <3>1. i \in Int
      BY VirtMemAssumption DEF Offsets
    <3> QED BY <1>2, <2>1, <3>1, HereContent DEF Given
  <2>2. op = "cmp" =>
           (CompareBlock <=> \A i \in Offsets : i >= off /\ i < off + Part => C[cur][i] = buf[pos + i - off])
    BY <2>1 DEF CompareBlock
  <2>3. same' = (op = "cmp" => CompareBlock)
    BY DEF Transfer
  <2> QED BY <2>2, <2>3
<1>9. /\ Scanning
      /\ IF off + len <= USize(cur) \/ ~same'
         THEN /\ op' = IF op = "copy" THEN "copied" ELSE "done"
              /\ UNCHANGED <<cur, off, len, pos>>
         ELSE /\ cur' = After(cur) /\ off' = 0
              /\ len' = len - Part /\ pos' = pos + Part
              /\ op' = op
  BY DEF Transfer, LastPart
<1>10. \A i : (Store!Moved(i) <=> i >= off /\ i < off + Part) /\ Store!Stored(i) = Given(i)
  BY <1>5 DEF Store!Moved, Store!Stored, Given
<1>11. C' = IF op \in {"save", "null"}
            THEN [C EXCEPT ![cur] = [i \in Offsets |-> IF Store!Moved(i) THEN Store!Stored(i) ELSE C[cur][i]]]
            ELSE C
  <2>1. [i \in Offsets |-> IF Store!Moved(i) THEN Store!Stored(i) ELSE C[cur][i]]
          = [i \in Offsets |-> IF i >= off /\ i < off + Part THEN Given(i) ELSE C[cur][i]]
    BY <1>10
  <2> HIDE DEF C
  <2> QED BY <1>6, <2>1
<1>12. buf' = IF op \in {"load", "copy"}
              THEN [k \in Store!Index |-> IF k >= pos /\ k < pos + Store!Part
                                          THEN C[cur][k - pos + off] ELSE buf[k]]
              ELSE buf
  <2> HIDE DEF C
  <2> QED BY <1>5, <1>7 DEF Store!Index, Index
<1>13. same' = (op = "cmp" => Store!Matches)
  <2>1. Store!Matches <=> \A i \in Offsets : i >= off /\ i < off + Part => C[cur][i] = buf[pos + i - off]
    BY <1>10 DEF Store!Matches, Content
  <2>2. Store!Matches \in BOOLEAN
    BY DEF Store!Matches
  <2> HIDE DEF C
  <2> QED BY <1>8, <2>1, <2>2
<1>14. IF off + len <= S[cur] \/ ~same'
       THEN /\ op' = IF op = "copy" THEN "copied" ELSE "done"
            /\ UNCHANGED <<cur, off, len, pos>>
       ELSE /\ cur' = After(cur) /\ off' = 0
            /\ len' = len - Store!Part /\ pos' = pos + Store!Part
            /\ op' = op
  BY <1>2, <1>5, <1>9
<1>15. op \in {"load", "save", "null", "cmp", "copy"}
  BY <1>9 DEF Scanning
<1> QED BY <1>3, <1>4, <1>11, <1>12, <1>13, <1>14, <1>15 DEF Store!Transfer, Store!Unset, Content

LEMMA StoreNext ==
    ASSUME ~NameMayFail
    PROVE  TableInv /\ StorageInv /\ CellType /\ Tails /\ OneFile /\ TableInv' /\ CellType' /\ [Next]_vars
             => [Store!Next]_Store!vars
<1> SUFFICES ASSUME TableInv, StorageInv, CellType, Tails, OneFile, TableInv', CellType', [Next]_vars
             PROVE  [Store!Next]_Store!vars
  OBVIOUS
<1>1. ASSUME NEW size \in Sizes, AllocStg(size) PROVE Store!Next
  BY <1>1, VirtMemAssumption, StoreAllocate DEF Store!Next
<1>2. CASE Request
  BY <1>2, StoreBegin DEF Store!Next
<1>3. ASSUME NEW b \in blocks, CopyBack(b) PROVE Store!Next
  BY <1>3, StoreCopyBack DEF Store!Next
<1>4. CASE AllocNode
  <2>1. /\ NeedsNode /\ (TakeBlock(cur) \/ TakeSpill(cur)) /\ UNCHANGED table /\ UNCHANGED request
    BY <1>4 DEF AllocNode
  <2>2. /\ cur \in Units /\ cur \notin heap /\ spill[cur] = 0 /\ op # "idle" /\ USize(cur) > 0
    BY <2>1, AtUsedUnit DEF NeedsNode, Scanning
  <2>3. \A v \in Units : USize(v)' = USize(v)
    BY <2>1, SizesSame DEF table
  <2>4. Store!FirstUse
    BY <2>1, <2>2, <2>3, StoreFirstUse
  <2> QED BY <2>4 DEF Store!Next
<1>5. CASE AllocHugeNode
  <2>1. /\ UNCHANGED <<segSize, heap, ram, spill, spillFile>> /\ UNCHANGED request
        /\ hugeTab' = [hugeTab EXCEPT ![cur[2]].page = TRUE]
    BY <1>5 DEF AllocHugeNode
  <2>2. \A h \in 1 .. MaxHuge : hugeTab'[h].there = hugeTab[h].there /\ hugeTab'[h].last = hugeTab[h].last
    BY <2>1 DEF TableInv, TableOK
  <2>3. \A u \in Units : USize(u)' = USize(u)
    BY <2>1, <2>2, SizesSame
  <2>4. \A u \in Units : Content(u)' = Content(u)
    BY <2>1, <2>3 DEF spillFile, Content, Spilled
  <2> QED BY <2>1, <2>3, <2>4, StoreStutter
<1>6. CASE AllocSubpage
  <2>1. /\ fill >= 0 /\ fill \in -1 .. NumSub - 1 /\ NumSub \in Nat /\ SubSize \in Nat \ {0}
    BY <1>6, VirtMemAssumption DEF AllocSubpage, Filling, TableInv, RequestOK
  <2>2. /\ Scanning /\ cur \in HugeUnits /\ fill < hugeTab[cur[2]].there
    BY <2>1 DEF StorageInv, HugePages
  <2>3. PICK h \in 1 .. MaxHuge : cur[2] = h
    <3>1. PICK g \in 1 .. MaxHuge, s \in 0 .. NumSub - 1 : cur = Sub(g, s)
      BY <2>2 DEF HugeUnits
    <3> QED BY <3>1, SubForm
  <2>4. /\ Sub(h, fill) \in Units /\ ~IsSeg(Sub(h, fill)) /\ Sub(h, fill)[2] = h /\ Sub(h, fill)[3] = fill
        /\ fill \in 0 .. NumSub - 1
    BY <2>1, SubForm
  <2>5. Sub(h, fill) \notin heap /\ spill[Sub(h, fill)] = 0
    <3>1. ~Dealt(h, fill)
      BY <2>1, <2>3 DEF Dealt
    <3> QED BY <2>4, <3>1 DEF StorageInv, HugePages
  <2>6. USize(Sub(h, fill)) > 0
    <3>1. hugeTab[h].there \in 0 .. NumSub /\ hugeTab[h].there > 0 /\ hugeTab[h].last > 0
      <4>1. hugeTab[h].there \in 0 .. NumSub
        BY DEF TableInv, TableOK
      <4>2. hugeTab[h].there > 0
        BY <2>1, <2>2, <2>3, <4>1
      <4> QED BY <4>1, <4>2 DEF StorageInv, HugePages
    <3> QED BY <2>1, <2>2, <2>3, <2>4, <3>1 DEF USize
  <2>7. /\ TakeBlock(Sub(h, fill)) \/ TakeSpill(Sub(h, fill))
        /\ segSize' = segSize /\ UNCHANGED request
        /\ hugeTab' = hugeTab \/ hugeTab' = [hugeTab EXCEPT ![h].swapped = fill + 1]
    BY <1>6, <2>3 DEF AllocSubpage
  <2>8. \A g \in 1 .. MaxHuge : hugeTab'[g].there = hugeTab[g].there /\ hugeTab'[g].last = hugeTab[g].last
    <3>1. CASE hugeTab' = hugeTab
      BY <3>1
    <3>2. CASE hugeTab' = [hugeTab EXCEPT ![h].swapped = fill + 1]
      BY <3>2 DEF TableInv, TableOK
    <3> QED BY <2>7, <3>1, <3>2
  <2>9. \A v \in Units : USize(v)' = USize(v)
    BY <2>7, <2>8, SizesSame
  <2>10. op # "idle"
    BY <2>2 DEF Scanning
  <2>11. Store!FirstUse
    BY <2>4, <2>5, <2>6, <2>7, <2>9, <2>10, StoreFirstUse
  <2> QED BY <2>11 DEF Store!Next
<1>7. CASE OpenSpillFile
  <2>1. /\ opening # <<>> /\ SwapTo(opening[Len(opening)])
        /\ UNCHANGED <<segSize, hugeTab, heap, ram, disk>> /\ UNCHANGED request
    BY <1>7 DEF OpenSpillFile, table
  <2>2. tempFile = 0
    BY <2>1 DEF OneFile
  <2> QED BY <2>1, <2>2, InnermostForm, StorePlaced
<1>8. CASE Transfer
  BY <1>8, StoreTransfer DEF Store!Next
<1>9. CASE Return
  BY <1>9, StoreReturn DEF Store!Next
<1>10. CASE SwapOutVirt
  <2>1. PICK k \in DOMAIN nextSwap :
          nextSwap[k] \in inmem /\ (spill' = spill \/ SwapTo(nextSwap[k]))
    BY <1>10 DEF SwapOutVirt
  <2>2. /\ nextSwap[k] \in 1 .. MaxSeg /\ UNCHANGED table /\ UNCHANGED request
        /\ UNCHANGED <<heap, ram, tempFile, disk>>
    BY <1>10, ListedPages DEF StorageInv, SwapOutVirt
  <2>3. Seg(nextSwap[k]) \in heap
    BY <2>1, <2>2 DEF StorageInv, OneHome
  <2>4. CASE spill' = spill
    <3>1. \A u \in Units : USize(u)' = USize(u)
      BY <2>2 DEF table, USize
    <3>2. \A u \in Units : Content(u)' = Content(u)
      BY <2>2, <2>4, <3>1 DEF Content, Spilled
    <3> QED BY <2>2, <3>1, <3>2, StoreStutter
  <2>5. CASE SwapTo(nextSwap[k])
    <3>1. UNCHANGED <<segSize, hugeTab>>
      BY <2>2 DEF table
    <3> QED BY <2>2, <2>3, <2>5, <3>1, StorePlaced
  <2> QED BY <2>1, <2>4, <2>5
<1>11. CASE Relink
  BY <1>11, StoreRelink DEF Store!Next
<1>12. CASE UNCHANGED vars
  <2>1. UNCHANGED <<table, heap, ram, spill, spillFile>> /\ UNCHANGED request
    BY <1>12 DEF vars, table, spillFile, request
  <2> QED BY <2>1, CellsSame, StoreStutter
<1>13. CASE WriteOut
  BY <1>13, StoreWriteOut
<1> QED BY <1>1, <1>2, <1>3, <1>4, <1>5, <1>6, <1>7, <1>8, <1>9, <1>10, <1>11, <1>12, <1>13
        DEF Next, Serve

\* What CleanSubSystems frees when a fatal error ends the link in any state, in the
\* middle of a request or of a swap: FreeVirtMem frees every heap block except those
\* of the pages SwapOutVirt was swapping out (it had cleared their flag and not yet
\* reached its own _LnkFree, so these blocks are lost), it takes no spill handle for
\* a heap address, and CloseSpillFile deletes every spill file that was created.
THEOREM CleanUpMissesOnlySwaps ==
    ASSUME ~NameMayFail
    PROVE  Spec => []CleanUpIsExact
<1>1. Init => OneFile
  BY DEF Init, OneFile
<1> QED BY <1>1, CleanUpNow, OneFileNext, TableInit, TableNext, StorageInit, StorageNext, PTL DEF Spec

\* Paging, swapping and the spill file are invisible: what the requests read,
\* compare and copy is what was put, as in a store without any of them.
THEOREM PagingIsInvisible ==
    ASSUME ~NameMayFail
    PROVE  Spec => ImplementsStore
<1>1. Init => OneFile
  BY DEF Init, OneFile
<1> QED BY <1>1, OneFileNext, TableInit, TableNext, StorageInit, StorageNext, CellInit, CellNext,
           TailsInit, TailsNext, StoreInit, StoreNext, PTL DEF Spec, ImplementsStore

==============================================================================
