------------------------------- MODULE VirtMem -------------------------------
(***************************************************************************)
(* The linker's virtual memory (c/virtmem.c) over the heap (c/mem.c) and   *)
(* the spill file (c/spillio.c).  Link data lives in 4K pages and, for     *)
(* requests of a megabyte and more, in 32K subpages; a page gets its heap  *)
(* block on first use, and when an allocation anywhere in the linker fails *)
(* FreeUpMemory swaps out the oldest 4K page that is still in memory.      *)
(*                                                                         *)
(* One cell stands for the smallest even amount of bytes, so MAKE_EVEN is  *)
(* the identity on sizes.  The two-level SegTab is one table (a branch is  *)
(* 16 consecutive entries) and GetMoreBranches only moves its pointers.    *)
(* A heap block is named by the unit it was allocated for.                 *)
(***************************************************************************)
EXTENDS Integers, Sequences, FiniteSets

CONSTANTS
    MaxSeg,       \* bound: pages (SEG_LIMIT branches of 16 leaves)
    MaxHuge,      \* bound: huge pages (HUGE_LIMIT)
    NodeSize,     \* MAX_NODE_SIZE, cells in a 4K page
    SubSize,      \* HUGE_SUBPAGE_SIZE, cells in a 32K subpage
    NumSub,       \* HUGE_NUM_SUBPAGES
    TinyCutoff,   \* TINY_BLOCK_CUTOFF
    SectorSize,   \* SECTOR_SIZE
    DiskSize,     \* bound: cells a spill file can hold
    LinkSpace,    \* bound: spill cells one more link may need
    MaxFiles,     \* bound: spill file names (26 in the code)
    MaxLen,       \* bound: longest request
    Ops,          \* bound: the kinds of request
    Sizes,        \* sizes clients ask AllocStg for
    Data,         \* values clients put
    Zero, Junk,   \* the zero cell; a cell whose value nothing defines
    NameMayFail   \* whether malloc may refuse the few bytes of a file name

ASSUME VirtMemAssumption ==
    /\ MaxSeg \in Nat \ {0} /\ MaxHuge \in Nat
    /\ NodeSize \in Nat \ {0} /\ SubSize \in Nat \ {0} /\ NumSub \in Nat \ {0}
    /\ NodeSize <= SubSize
    /\ TinyCutoff \in Nat /\ TinyCutoff <= NodeSize
    /\ SectorSize \in Nat \ {0} /\ DiskSize \in Nat /\ LinkSpace \in Nat
    /\ MaxFiles \in Nat \ {0} /\ MaxLen \in Nat
    /\ Sizes \subseteq Nat \ {0}
    /\ NameMayFail \in BOOLEAN

VARIABLES
    segSize,   \* SegTab: size of each page handed out
    nextSeg,   \* CurrBranch and NextLeaf: pages handed out so far
    inmem,     \* pages with VIRT_INMEM set
    hugeTab,   \* HugeTab: [there, last, swapped, page]
    nextHuge,  \* NextHuge
    nextSwap,  \* NextSwap list, oldest page first
    tiny,      \* TinyAddr and TinyLeft
    blocks,    \* what AllocStg has returned
    heap, ram, \* the heap blocks this link has allocated, and the cells of each
    spill,     \* spill handle of each unit, 0 for none
    tmpFSize, tempFile, files, disk,  \* the spill file: end, handle, files that exist, cells
    opening,   \* pages whose swap waits in OpenTempFile
    writing,   \* page whose block SpillWrite is to copy to its place, 0 for none
    fill, nomem,  \* AllocHugeNode: next subpage to allocate (-1: none), nomem
    op, cur, off, len, pos, buf, same  \* the request ScanNodes serves

table == <<segSize, nextSeg, hugeTab, nextHuge, tiny, blocks>>
spillFile == <<tmpFSize, tempFile, files, disk>>
request == <<op, cur, off, len, pos, buf, same>>
swapping == <<opening, writing>>
vars == <<segSize, nextSeg, inmem, hugeTab, nextHuge, nextSwap, tiny, blocks, heap, ram,
          spill, tmpFSize, tempFile, files, disk, opening, writing, fill, nomem,
          op, cur, off, len, pos, buf, same>>
------------------------------------------------------------------------------
(* Addresses.  An address names a unit and an offset; the unit after the   *)
(* last subpage of a huge page is the first one of the next huge page.     *)

Seg(n) == <<"seg", n, 0>>
Sub(h, s) == <<"huge", h, s>>
SegUnits == {Seg(n) : n \in 1 .. MaxSeg}
HugeUnits == {Sub(h, s) : h \in 1 .. MaxHuge, s \in 0 .. NumSub - 1}
Units == SegUnits \cup HugeUnits
IsSeg(u) == u[1] = "seg"

After(u) == IF IsSeg(u) THEN Seg(u[2] + 1)
            ELSE IF u[3] = NumSub - 1 THEN Sub(u[2] + 1, 0) ELSE Sub(u[2], u[3] + 1)

Offsets == 0 .. SubSize - 1
Index == 0 .. MaxLen - 1
Cell == Data \cup {Zero, Junk}
NoCells == [i \in Offsets |-> Junk]

\* Cells in a unit: node->size, or currlen for a subpage (the last is short).
USize(u) == IF IsSeg(u) THEN segSize[u[2]]
            ELSE IF u[3] >= hugeTab[u[2]].there THEN 0
            ELSE IF u[3] = hugeTab[u[2]].there - 1 THEN hugeTab[u[2]].last ELSE SubSize

\* The flag, or the numswapped test, by which ScanNodes finds a unit in memory.
InMem(u) == IF IsSeg(u) THEN u[2] \in inmem
            ELSE hugeTab[u[2]].page /\ u[3] >= hugeTab[u[2]].swapped
------------------------------------------------------------------------------
(* The spill file.                                                         *)

\* SpillAlloc: storage starts at the next sector, and the handle is never 0.
SpillAlloc(u, base) ==
    /\ base \in tmpFSize .. tmpFSize + SectorSize - 1 /\ base % SectorSize = 0
    /\ base + USize(u) <= DiskSize
    /\ spill' = [spill EXCEPT ![u] = base + 1]
    /\ tmpFSize' = base + USize(u)

\* The cells a spilled unit reads back: SpillRead seeks to handle + offset - 1.
Spilled(u) == [i \in Offsets |-> IF i < USize(u) THEN disk[tempFile][spill[u] + i - 1] ELSE Junk]

SpillWrite(f, u, base) ==
    disk' = [disk EXCEPT ![f] = [a \in 0 .. DiskSize - 1 |->
                IF a >= base /\ a < base + USize(u) THEN ram[u][a - base] ELSE disk[f][a]]]

\* OpenTempFile takes the first name no file has.
OpenTempFile(f) ==
    /\ f \in 1 .. MaxFiles \ files
    /\ \A g \in 1 .. f - 1 : g \in files
    /\ tempFile' = f /\ files' = files \cup {f}

Free(u) == heap' = heap \ {u} /\ ram' = [ram EXCEPT ![u] = NoCells]
------------------------------------------------------------------------------
Init ==
    /\ segSize = [n \in 1 .. MaxSeg |-> 0] /\ nextSeg = 0 /\ inmem = {}
    /\ hugeTab = [h \in 1 .. MaxHuge |-> [there |-> 0, last |-> 0, swapped |-> 0, page |-> FALSE]]
    /\ nextHuge = 0 /\ nextSwap = <<>> /\ tiny = [node |-> 1, at |-> 0, left |-> 0]
    /\ blocks = {} /\ heap = {} /\ ram = [u \in Units |-> NoCells]
    /\ spill = [u \in Units |-> 0]
    /\ tmpFSize = 0 /\ tempFile = 0 /\ files = {}
    /\ disk = [f \in 1 .. MaxFiles |-> [a \in 0 .. DiskSize - 1 |-> Junk]]
    /\ opening = <<>> /\ writing = 0 /\ fill = -1 /\ nomem = FALSE
    /\ op = "idle" /\ cur = Seg(1) /\ off = 0 /\ len = 0 /\ pos = 0
    /\ buf = [k \in Index |-> Junk] /\ same = TRUE

Scanning == op \in {"load", "save", "null", "cmp", "copy"}

\* Nothing happens to a request while an allocation is swapping pages out.
Running == opening = <<>> /\ writing = 0
------------------------------------------------------------------------------
(* AllocStg: a block is the cells from offset "from" of its first unit to  *)
(* "end" of its last one.                                                  *)

\* The loops that cut a size into k pieces: all of "limit" but the last.
Pieces(size, limit, k) == (k - 1) * limit < size /\ size <= k * limit
Rest(size, limit, k) == size - (k - 1) * limit

\* GetStg for each piece of at most a page.
GetStg(size, k) ==
    /\ Pieces(size, NodeSize, k)
    /\ nextSeg + k <= MaxSeg
    /\ nextSeg' = nextSeg + k
    /\ segSize' = [n \in 1 .. MaxSeg |->
                     IF n > nextSeg /\ n < nextSeg + k THEN NodeSize
                     ELSE IF n = nextSeg + k THEN Rest(size, NodeSize, k) ELSE segSize[n]]

\* Mutant: the space left in the tiny page is not checked.
AllocTinyStgNoCheck(size) ==
    /\ size <= TinyCutoff /\ nextSeg > 0
    /\ tiny' = [tiny EXCEPT !.at = @ + size, !.left = @ - size]
    /\ blocks' = blocks \cup {[first |-> Seg(tiny.node), from |-> tiny.at,
                               last |-> Seg(tiny.node), end |-> tiny.at + size]}
    /\ UNCHANGED <<nextSeg, segSize, hugeTab, nextHuge>>

AllocTinyStg(size) ==
    /\ size <= TinyCutoff
    /\ \/ /\ tiny.left >= size
          /\ tiny' = [tiny EXCEPT !.at = @ + size, !.left = @ - size]
          /\ blocks' = blocks \cup {[first |-> Seg(tiny.node), from |-> tiny.at,
                                     last |-> Seg(tiny.node), end |-> tiny.at + size]}
          /\ UNCHANGED <<nextSeg, segSize>>
       \/ /\ tiny.left < size
          /\ GetStg(NodeSize, 1)
          /\ tiny' = [node |-> nextSeg + 1, at |-> size, left |-> NodeSize - size]
          /\ blocks' = blocks \cup {[first |-> Seg(nextSeg + 1), from |-> 0,
                                     last |-> Seg(nextSeg + 1), end |-> size]}
    /\ UNCHANGED <<hugeTab, nextHuge>>

\* Mutant: NextLeaf moves by one page, whatever the block needed.
AllocNormalStgOnePage(size) ==
    /\ size > TinyCutoff /\ size < NumSub * SubSize
    /\ \E k \in 1 .. MaxSeg :
          /\ Pieces(size, NodeSize, k) /\ nextSeg + k <= MaxSeg
          /\ nextSeg' = nextSeg + 1
          /\ segSize' = [n \in 1 .. MaxSeg |->
                           IF n > nextSeg /\ n < nextSeg + k THEN NodeSize
                           ELSE IF n = nextSeg + k THEN Rest(size, NodeSize, k) ELSE segSize[n]]
          /\ blocks' = blocks \cup {[first |-> Seg(nextSeg + 1), from |-> 0,
                                     last |-> Seg(nextSeg + k), end |-> Rest(size, NodeSize, k)]}
    /\ UNCHANGED <<hugeTab, nextHuge, tiny>>

AllocNormalStg(size) ==
    /\ size > TinyCutoff /\ size < NumSub * SubSize
    /\ \E k \in 1 .. MaxSeg :
          /\ GetStg(size, k)
          /\ blocks' = blocks \cup {[first |-> Seg(nextSeg + 1), from |-> 0,
                                     last |-> Seg(nextSeg + k), end |-> Rest(size, NodeSize, k)]}
    /\ UNCHANGED <<hugeTab, nextHuge, tiny>>

\* GetBigStg's entry: a huge page of k subpages, the last of "last" cells.
BigStg(k, last) == [there |-> k, last |-> last, swapped |-> 0, page |-> FALSE]

AllocHugeStg(size) ==
    /\ size > TinyCutoff /\ size >= NumSub * SubSize
    /\ \E k \in 1 .. MaxHuge, j \in 1 .. NumSub :
          LET rest == Rest(size, NumSub * SubSize, k)
              last == Rest(rest, SubSize, j)
          IN  /\ Pieces(size, NumSub * SubSize, k) /\ Pieces(rest, SubSize, j)
              /\ nextHuge + k <= MaxHuge
              /\ nextHuge' = nextHuge + k
              /\ hugeTab' = [h \in 1 .. MaxHuge |->
                               IF h > nextHuge /\ h < nextHuge + k THEN BigStg(NumSub, SubSize)
                               ELSE IF h = nextHuge + k THEN BigStg(j, last) ELSE hugeTab[h]]
              /\ blocks' = blocks \cup {[first |-> Sub(nextHuge + 1, 0), from |-> 0,
                                         last |-> Sub(nextHuge + k, j - 1), end |-> last]}
    /\ UNCHANGED <<segSize, nextSeg, tiny>>

AllocStg(size) ==
    /\ op = "idle" /\ Running
    /\ AllocTinyStg(size) \/ AllocNormalStg(size) \/ AllocHugeStg(size)
    /\ UNCHANGED <<inmem, nextSwap, heap, ram, spill, spillFile, swapping, fill, nomem, request>>
------------------------------------------------------------------------------
(* Requests: ReadInfo (and WriteInfo, which hands what it reads to the     *)
(* load file), PutInfo, PutNulls, CompareInfo and CopyInfo, each for a     *)
(* stretch inside one block.                                               *)

Position(u) == IF IsSeg(u) THEN u[2] ELSE u[2] * NumSub + u[3]
Full(u) == IF IsSeg(u) THEN NodeSize ELSE SubSize

\* Cells of block b from offset o of its unit u on.
Room(b, u, o) == (Position(b.last) - Position(u)) * Full(u) + b.end - o

Inside(b, u, o) ==
    /\ IsSeg(u) = IsSeg(b.first)
    /\ Position(u) >= Position(b.first) /\ Position(u) <= Position(b.last)
    /\ u = b.first => o >= b.from
    /\ o < USize(u)

At(b, l) ==
    /\ cur' \in Units /\ off' \in Offsets
    /\ Inside(b, cur', off') /\ l <= Room(b, cur', off')
    /\ len' = l /\ pos' = 0

Begin(o, b, l, d) ==
    /\ op = "idle" /\ Running
    /\ o \in {"load", "save", "null", "cmp", "copy"}
    /\ At(b, l)
    /\ op' = o /\ same' = TRUE
    /\ buf' = [k \in Index |-> IF k < l /\ o \in {"save", "cmp"} THEN d ELSE Junk]
    /\ UNCHANGED <<table, inmem, nextSwap, heap, ram, spill, spillFile, swapping, fill, nomem>>

\* CopyInfo has read its source and puts it at the target.
CopyBack(b) ==
    /\ op = "copied"
    /\ At(b, pos + len)
    /\ op' = "save"
    /\ UNCHANGED <<table, inmem, nextSwap, heap, ram, spill, spillFile, swapping, fill, nomem,
                   buf, same>>
------------------------------------------------------------------------------
(* First use of a unit, and swapping.  LAlloc retries malloc after each    *)
(* success of FreeUpMemory; it fails only when no page is left to swap.    *)

NeedsNode == Scanning /\ Running /\ IsSeg(cur) /\ cur \notin heap /\ spill[cur] = 0
NeedsPage == Scanning /\ Running /\ ~IsSeg(cur) /\ ~hugeTab[cur[2]].page
Filling == Running /\ fill >= 0

\* SwapOutVirt returns FALSE: the list holds no page that is in memory.
GivenUp == \A k \in DOMAIN nextSwap : nextSwap[k] \notin inmem

\* LAlloc succeeds, and clears the block.
TakeBlock(u) ==
    /\ heap' = heap \cup {u}
    /\ ram' = [ram EXCEPT ![u] = [i \in Offsets |-> IF i < USize(u) THEN Zero ELSE Junk]]
    /\ UNCHANGED <<spill, spillFile>>

\* LAlloc fails: the unit lives in the spill file from the start.
TakeSpill(u) ==
    /\ GivenUp
    /\ \E base \in 0 .. DiskSize : SpillAlloc(u, base)
    /\ IF tempFile = 0 THEN \E f \in 1 .. MaxFiles : OpenTempFile(f)
       ELSE UNCHANGED <<tempFile, files>>
    /\ UNCHANGED <<disk, heap, ram>>

\* Mutant: the page becomes the whole swap list instead of its last entry.
AllocNodeLosesList ==
    /\ NeedsNode
    /\ \/ TakeBlock(cur) /\ inmem' = inmem \cup {cur[2]} /\ nextSwap' = <<cur[2]>>
       \/ TakeSpill(cur) /\ inmem' = inmem \ {cur[2]} /\ nextSwap' = <<cur[2]>>
    /\ UNCHANGED <<table, swapping, fill, nomem, request>>

AllocNode ==
    /\ NeedsNode
    /\ \/ TakeBlock(cur) /\ inmem' = inmem \cup {cur[2]} /\ nextSwap' = Append(nextSwap, cur[2])
       \/ TakeSpill(cur) /\ inmem' = inmem \ {cur[2]} /\ nextSwap' = <<cur[2]>>
    /\ UNCHANGED <<table, swapping, fill, nomem, request>>

\* AllocHugeNode allocates the array of subpage addresses, then every
\* subpage from the last to the first; after one failure it stops trying.
AllocHugeNode ==
    /\ NeedsPage
    /\ hugeTab' = [hugeTab EXCEPT ![cur[2]].page = TRUE]
    /\ fill' = hugeTab[cur[2]].there - 1 /\ nomem' = FALSE
    /\ UNCHANGED <<segSize, nextSeg, nextHuge, tiny, blocks, inmem, nextSwap, heap, ram, spill,
                   spillFile, swapping, request>>

\* Mutant: numswapped does not count the subpage whose allocation failed.
AllocSubpageMiscounts ==
    /\ Filling
    /\ \/ /\ ~nomem /\ TakeBlock(Sub(cur[2], fill))
          /\ UNCHANGED <<hugeTab, nextSwap, nomem>>
       \/ /\ ~nomem /\ TakeSpill(Sub(cur[2], fill))
          /\ nomem' = TRUE /\ nextSwap' = <<>>
          /\ hugeTab' = [hugeTab EXCEPT ![cur[2]].swapped = fill]
       \/ /\ nomem /\ TakeSpill(Sub(cur[2], fill))
          /\ UNCHANGED <<hugeTab, nextSwap, nomem>>
    /\ fill' = fill - 1
    /\ UNCHANGED <<segSize, nextSeg, nextHuge, tiny, blocks, inmem, swapping, request>>

\* Mutant: once memory is out, the loop no longer moves to the subpage before.
AllocSubpageRepeats ==
    /\ Filling
    /\ \/ /\ ~nomem /\ TakeBlock(Sub(cur[2], fill)) /\ fill' = fill - 1
          /\ UNCHANGED <<hugeTab, nextSwap, nomem>>
       \/ /\ TakeSpill(Sub(cur[2], fill)) /\ fill' = fill
          /\ nomem' = TRUE /\ nextSwap' = <<>>
          /\ hugeTab' = [hugeTab EXCEPT ![cur[2]].swapped = fill + 1]
    /\ UNCHANGED <<segSize, nextSeg, nextHuge, tiny, blocks, inmem, swapping, request>>

AllocSubpage ==
    /\ Filling
    /\ \/ /\ ~nomem /\ TakeBlock(Sub(cur[2], fill))
          /\ UNCHANGED <<hugeTab, nextSwap, nomem>>
       \/ /\ ~nomem /\ TakeSpill(Sub(cur[2], fill))
          /\ nomem' = TRUE /\ nextSwap' = <<>>
          /\ hugeTab' = [hugeTab EXCEPT ![cur[2]].swapped = fill + 1]
       \/ /\ nomem /\ TakeSpill(Sub(cur[2], fill))
          /\ UNCHANGED <<hugeTab, nextSwap, nomem>>
    /\ fill' = fill - 1
    /\ UNCHANGED <<segSize, nextSeg, nextHuge, tiny, blocks, inmem, swapping, request>>

\* Where an allocation may be under way: here, elsewhere in the linker while
\* no request runs, or for the name of the spill file.
Allocating ==
    \/ op = "idle" /\ Running
    \/ NeedsNode \/ NeedsPage
    \/ Filling /\ ~nomem
    \/ opening # <<>> /\ writing = 0 /\ NameMayFail

\* SwapOutVirt with a spill file open: the page gets its place there.
SwapTo(n) ==
    /\ \E base \in 0 .. DiskSize : SpillAlloc(Seg(n), base)
    /\ writing' = n

\* Mutant: VIRT_INMEM stays set on the page that is swapped out.
SwapOutVirtKeepsFlag ==
    /\ Allocating
    /\ \E k \in DOMAIN nextSwap :
          /\ nextSwap[k] \in inmem /\ \A j \in 1 .. k - 1 : nextSwap[j] \notin inmem
          /\ nextSwap' = SubSeq(nextSwap, k + 1, Len(nextSwap))
          /\ IF tempFile = 0
             THEN /\ opening' = Append(opening, nextSwap[k])
                  /\ UNCHANGED <<writing, spill, tmpFSize>>
             ELSE SwapTo(nextSwap[k]) /\ UNCHANGED opening
    /\ UNCHANGED <<table, inmem, heap, ram, tempFile, files, disk, fill, nomem, request>>

\* The flag of the oldest page in memory goes first; without a spill file,
\* SpillAlloc has to open one.
SwapOutVirt ==
    /\ Allocating
    /\ \E k \in DOMAIN nextSwap :
          /\ nextSwap[k] \in inmem /\ \A j \in 1 .. k - 1 : nextSwap[j] \notin inmem
          /\ nextSwap' = SubSeq(nextSwap, k + 1, Len(nextSwap))
          /\ inmem' = inmem \ {nextSwap[k]}
          /\ IF tempFile = 0
             THEN /\ opening' = Append(opening, nextSwap[k])
                  /\ UNCHANGED <<writing, spill, tmpFSize>>
             ELSE SwapTo(nextSwap[k]) /\ UNCHANGED opening
    /\ UNCHANGED <<table, heap, ram, tempFile, files, disk, fill, nomem, request>>

\* OpenTempFile has its name: the innermost swap that waits for it goes on.
OpenSpillFile ==
    /\ opening # <<>> /\ writing = 0
    /\ \E f \in 1 .. MaxFiles : OpenTempFile(f)
    /\ SwapTo(opening[Len(opening)])
    /\ opening' = SubSeq(opening, 1, Len(opening) - 1)
    /\ UNCHANGED <<table, inmem, nextSwap, heap, ram, disk, fill, nomem, request>>

\* SwapOutVirt's last two calls: the block is copied to its place, then freed.
WriteOut ==
    /\ writing # 0
    /\ SpillWrite(tempFile, Seg(writing), spill[Seg(writing)] - 1) /\ Free(Seg(writing))
    /\ writing' = 0
    /\ UNCHANGED <<table, inmem, nextSwap, spill, tmpFSize, tempFile, files, opening, fill, nomem,
                   request>>
------------------------------------------------------------------------------
(* One turn of ScanNodes, with LoadInfo, SaveInfo, NullInfo or             *)
(* CompareBlock on the part of the request in the current unit.            *)

\* Mutant: a request that ends with its unit goes on into the next one.
LastPartStrict == off + len < USize(cur)

LastPart == off + len <= USize(cur)
Part == IF LastPart THEN len ELSE USize(cur) - off

\* Mutant: the 1 SpillAlloc added to the handle is not taken off again.
HereOffByOne(i) == IF InMem(cur) THEN ram[cur][i] ELSE disk[tempFile][spill[cur] + i]

Here(i) == IF InMem(cur) THEN ram[cur][i] ELSE disk[tempFile][spill[cur] + i - 1]

Given(i) == IF op = "null" THEN Zero ELSE buf[pos + i - off]

SaveInfo ==
    IF InMem(cur)
    THEN /\ ram' = [ram EXCEPT ![cur] = [i \in Offsets |->
                       IF i >= off /\ i < off + Part THEN Given(i) ELSE ram[cur][i]]]
         /\ UNCHANGED disk
    ELSE LET base == spill[cur] - 1
         IN  /\ disk' = [disk EXCEPT ![tempFile] = [a \in 0 .. DiskSize - 1 |->
                            IF a >= base + off /\ a < base + off + Part THEN Given(a - base)
                            ELSE disk[tempFile][a]]]
             /\ UNCHANGED ram

LoadInfo == buf' = [k \in Index |-> IF k >= pos /\ k < pos + Part THEN Here(k - pos + off) ELSE buf[k]]

CompareBlock == \A i \in Offsets : i >= off /\ i < off + Part => Here(i) = Given(i)

Transfer ==
    /\ Scanning /\ Running /\ fill = -1
    /\ ~NeedsNode /\ ~NeedsPage
    /\ IF op \in {"save", "null"} THEN SaveInfo ELSE UNCHANGED <<ram, disk>>
    /\ IF op \in {"load", "copy"} THEN LoadInfo ELSE UNCHANGED buf
    /\ same' = (op = "cmp" => CompareBlock)
    /\ IF LastPart \/ ~same'
       THEN /\ op' = IF op = "copy" THEN "copied" ELSE "done"
            /\ UNCHANGED <<cur, off, len, pos>>
       ELSE /\ cur' = After(cur) /\ off' = 0
            /\ len' = len - Part /\ pos' = pos + Part
            /\ op' = op
    /\ UNCHANGED <<table, inmem, nextSwap, heap, spill, tmpFSize, tempFile, files, swapping, fill, nomem>>

Idle ==
    /\ op' = "idle" /\ cur' = Seg(1) /\ off' = 0 /\ len' = 0 /\ pos' = 0
    /\ buf' = [k \in Index |-> Junk] /\ same' = TRUE

Return ==
    /\ op = "done" /\ Idle
    /\ UNCHANGED <<table, inmem, nextSwap, heap, ram, spill, spillFile, swapping, fill, nomem>>
------------------------------------------------------------------------------
(* CleanSubSystems, at the end of a link or after a fatal error anywhere,  *)
(* in the middle of a swap too (no name for the spill file, a short write, *)
(* a break): CloseSpillFile, FreeVirtMem; then VirtMemInit for the next    *)
(* link, which knows of no block of this one, freed or not.                *)
(* TmpFSize keeps its value: only InitSpillFile, once a process, clears it.*)

\* The blocks FreeVirtMem frees: it knows them by flags and tables alone.
FreeVirtMem ==
    {Seg(n) : n \in inmem} \cup {u \in HugeUnits : /\ hugeTab[u[2]].page
                                                  /\ u[3] >= hugeTab[u[2]].swapped
                                                  /\ u[3] < hugeTab[u[2]].there}

CloseSpillFile ==
    /\ tempFile' = 0 /\ files' = files \ {tempFile}
    /\ disk' = IF tempFile = 0 THEN disk
               ELSE [disk EXCEPT ![tempFile] = [a \in 0 .. DiskSize - 1 |-> Junk]]

VirtMemInit ==
    /\ segSize' = [n \in 1 .. MaxSeg |-> 0] /\ nextSeg' = 0 /\ inmem' = {}
    /\ hugeTab' = [h \in 1 .. MaxHuge |-> [there |-> 0, last |-> 0, swapped |-> 0, page |-> FALSE]]
    /\ nextHuge' = 0 /\ nextSwap' = <<>> /\ tiny' = [node |-> 1, at |-> 0, left |-> 0]
    /\ blocks' = {} /\ heap' = {} /\ ram' = [u \in Units |-> NoCells]
    /\ spill' = [u \in Units |-> 0] /\ fill' = -1 /\ nomem' = FALSE

Relink ==
    /\ tmpFSize + LinkSpace <= DiskSize
    /\ CloseSpillFile /\ VirtMemInit /\ Idle
    /\ opening' = <<>> /\ writing' = 0
    /\ UNCHANGED tmpFSize
------------------------------------------------------------------------------
Request ==
    \/ \E o \in Ops \cap {"load", "null", "copy"}, b \in blocks, l \in 1 .. MaxLen : Begin(o, b, l, Zero)
    \/ \E o \in Ops \cap {"save", "cmp"}, b \in blocks, l \in 1 .. MaxLen, d \in Data : Begin(o, b, l, d)

Serve ==
    \/ \E b \in blocks : CopyBack(b)
    \/ AllocNode \/ AllocHugeNode \/ AllocSubpage \/ OpenSpillFile \/ WriteOut \/ Transfer \/ Return

Next ==
    \/ \E size \in Sizes : AllocStg(size)
    \/ Request \/ Serve \/ SwapOutVirt \/ Relink

\* One thread runs the linker, and a request under way goes on.
Fairness == WF_vars(Serve)

Spec == Init /\ [][Next]_vars /\ Fairness
------------------------------------------------------------------------------
(* Properties.                                                             *)

\* Type correctness of the page tables, the swap list and the request.
TypeOK ==
    /\ segSize \in [1 .. MaxSeg -> 0 .. NodeSize] /\ nextSeg \in 0 .. MaxSeg
    /\ inmem \subseteq 1 .. MaxSeg
    /\ hugeTab \in [1 .. MaxHuge -> [there : 0 .. NumSub, last : 0 .. SubSize,
                                     swapped : 0 .. NumSub, page : BOOLEAN]]
    /\ nextHuge \in 0 .. MaxHuge
    /\ nextSwap \in Seq(1 .. MaxSeg)
    /\ tiny \in [node : 1 .. MaxSeg, at : 0 .. NodeSize, left : 0 .. NodeSize]
    /\ heap \subseteq Units /\ ram \in [Units -> [Offsets -> Cell]]
    /\ spill \in [Units -> 0 .. DiskSize + 1]
    /\ tmpFSize \in 0 .. DiskSize /\ tempFile \in 0 .. MaxFiles /\ files \subseteq 1 .. MaxFiles
    /\ disk \in [1 .. MaxFiles -> [0 .. DiskSize - 1 -> Cell]]
    /\ opening \in Seq(1 .. MaxSeg) /\ writing \in 0 .. MaxSeg
    /\ fill \in -1 .. NumSub - 1 /\ nomem \in BOOLEAN
    /\ op \in {"idle", "load", "save", "null", "cmp", "copy", "copied", "done"}
    /\ off \in Nat /\ len \in Nat /\ pos \in Nat
    /\ buf \in [Index -> Cell] /\ same \in BOOLEAN

\* Pages SwapOutVirt has begun to swap and not yet freed.
Leaving == {opening[k] : k \in DOMAIN opening} \cup ({writing} \ {0})

\* A page has one home: VIRT_INMEM is set exactly on the pages that own a heap
\* block no swap is taking out, and no unit has both a block and a spill handle,
\* but for the page whose block is on its way to the place just given to it.
OneHome ==
    /\ \A n \in 1 .. MaxSeg : (n \in inmem) <=> (Seg(n) \in heap /\ n \notin Leaving)
    /\ \A u \in heap : (spill[u] # 0) <=> (u = Seg(writing))

\* Every page in memory is on the NextSwap list, once, so memory pressure can
\* always reach it and never swaps it twice.
SwapListComplete ==
    \A n \in inmem : \E k \in DOMAIN nextSwap :
        nextSwap[k] = n /\ \A j \in DOMAIN nextSwap : nextSwap[j] = n => j = k

\* Two units in the spill file never share a cell, and the next SpillAlloc
\* starts behind all of them.
SpillDisjoint ==
    /\ \A u \in Units : spill[u] # 0 => spill[u] - 1 + USize(u) <= tmpFSize
    /\ \A u, v \in Units : u # v /\ spill[u] # 0 /\ spill[v] # 0 =>
          \/ spill[u] + USize(u) <= spill[v]
          \/ spill[v] + USize(v) <= spill[u]

\* A request never leaves the block it was made for, whatever units it crosses.
RequestFits ==
    Scanning => \E b \in blocks : Inside(b, cur, off) /\ len <= Room(b, cur, off)

\* Nothing shares storage, on the heap or in the spill file: two blocks AllocStg
\* returned share no cell, tiny blocks cut from one page included, and no two
\* pages have places in the spill file that overlap.
StorageApart ==
    /\ SpillDisjoint
    /\ \A b, c \in blocks : b # c =>
          \A u \in Units, o \in Offsets :
             ~(Inside(b, u, o) /\ Room(b, u, o) > 0 /\ Inside(c, u, o) /\ Room(c, u, o) > 0)

\* What CleanSubSystems frees when a fatal message ends the link, in any state, the
\* middle of a swap included: FreeVirtMem misses the blocks SwapOutVirt was swapping
\* out, whose flag it had cleared, and no other block; it takes no spill handle for
\* an address; and the only spill file on disk is the open one, so CloseSpillFile
\* deletes all the linker created.
CleanUpIsExact ==
    /\ files \subseteq {tempFile}
    /\ heap \ FreeVirtMem = {Seg(n) : n \in Leaving}
    /\ \A u \in FreeVirtMem : spill[u] = 0

\* Swapping, spilling and the spill file are invisible: the requests see a
\* plain store (what PutInfo put is what ReadInfo reads).
Store == INSTANCE VirtStore WITH
    size <- [u \in Units |-> USize(u)],
    content <- [u \in Units |-> IF u \in heap THEN ram[u]
                                ELSE IF spill[u] # 0 THEN Spilled(u) ELSE <<>>]

ImplementsStore == Store!Init /\ [][Store!Next]_Store!vars

\* Every request is answered, however much is swapped out on its way.
RequestsEnd == op # "idle" ~> op = "idle"
==============================================================================
