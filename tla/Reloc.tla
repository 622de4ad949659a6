-------------------------------- MODULE Reloc --------------------------------
(***************************************************************************)
(* The relocation store (c/reloc.c).  Relocations are kept in blocks of    *)
(* RELOC_PAGE_SIZE, newest block first, on lists that depend on the format *)
(* of the load file: one per page of a group, one per group, or one per    *)
(* section.  A block lives on the heap or in the spill file; FreeUpMemory  *)
(* moves blocks to the spill file at any allocation of the linker, so also *)
(* while a block for a relocation is being allocated.  The writer of the   *)
(* format reads the lists back, and CleanLinkStruct frees them, whether    *)
(* the link was finished or abandoned at any point.                        *)
(*                                                                         *)
(* SpillAlloc is a new area of the file each time: that areas do not       *)
(* overlap is VirtMem's business, and so is the name of the spill file,    *)
(* whose allocation is taken to succeed at once.                           *)
(***************************************************************************)
EXTENDS Naturals, Sequences, FiniteSets, SequencesExt

CONSTANTS PageSize,       \* RELOC_PAGE_SIZE
          RlidxMax,       \* OSF_RLIDX_MAX: lists in one part of an index table
          GroupPages,     \* per group, the pages of group->size and of group->totalsize
          NumSects,       \* sections; the first is Root
          MaxRecord,      \* QNX_MAX_FIXUPS
          Formats,        \* the formats to be linked
          FmtSizes(_),    \* the sizes of their relocations
          MaxRelocs(_),   \* bound: relocations in a link of a format
          Unset           \* what an area of the spill file holds before it is written

ASSUME RelocAssumption ==
    /\ PageSize \in Nat \ {0} /\ RlidxMax \in Nat \ {0} /\ NumSects \in Nat \ {0}
    /\ GroupPages \in Seq([size : Nat, total : Nat])
    /\ \A g \in DOMAIN GroupPages : GroupPages[g].size <= GroupPages[g].total
    /\ \A f \in Formats : FmtSizes(f) \subseteq 1 .. PageSize
    /\ \A f \in Formats \ {"flat", "pe", "os2", "elf", "qnx"} : \E n \in 1 .. PageSize : FmtSizes(f) = {n}
    /\ MaxRecord \in Nat /\ PageSize + 2 < MaxRecord

VARIABLES fmt,            \* FmtData.type
          lists,          \* the block list behind each list head
          table,          \* grp_relocs of a group with an index table: its parts
          relocs,         \* section->relocs
          ram,            \* the heap blocks of the store and their cells
          disk,           \* the areas of the spill file
          op,             \* the relocation being written
          count,          \* relocations written so far, which names the next one
          cursor,         \* how many lists the writer has done, and blocks of the next
          written,        \* the records in the load file
          phase,          \* "pass2", "load", "clean" or "done"
          linkError,      \* LINK_ERROR, or a fatal error
          freed           \* what FreeRelocInfo freed, in order

mem == <<ram, disk>>
vars == <<fmt, lists, table, relocs, ram, disk, op, count, cursor, written, phase, linkError, freed>>
Groups == DOMAIN GroupPages
Paged == fmt \in {"flat", "pe"}
High(n) == n \div RlidxMax
Low(n) == n % RlidxMax
NoOp == [kind |-> "none"]

\* The parts of the index table of a group: so many lists each.
Parts(g) == [c \in 1 .. High(GroupPages[g].total) |-> RlidxMax]
            \o IF Low(GroupPages[g].total) # 0 THEN <<Low(GroupPages[g].total)>> ELSE << >>

\* TraverseRelocBlock: n pages of one part, with two lists a page for OS/2 flat.
PartLists(g, c, n) ==
    FlattenSeq([s \in 1 .. n |->
        IF fmt = "flat" THEN <<<<"page", g, c, s, "ext">>, <<"page", g, c, s, "int">>>>
        ELSE <<<<"page", g, c, s, "ext">>>>])

\* The lists of the first n pages of a group, as every loop over them counts.
PageLists(g, n) ==
    FlattenSeq([c \in 1 .. High(n) |-> PartLists(g, c, RlidxMax)])
    \o PartLists(g, High(n) + 1, Low(n))

TraverseOS2RelocList(g) == IF table[g] = << >> THEN << >> ELSE PageLists(g, GroupPages[g].total)

SectLists == [s \in 1 .. NumSects |-> <<"sect", s>>]
GroupLists == [g \in Groups |-> <<"group", g>>]
FloatFixups == <<"float", 0>>

\* Every list head there is.
Lists == (IF Paged THEN ToSet(FlattenSeq([g \in Groups |-> PageLists(g, GroupPages[g].total)]))
          ELSE ToSet(GroupLists)) \cup ToSet(SectLists) \cup {FloatFixups}
-------------------------------------------------------------------------------
(* Blocks.  Cells are <<relocation, part>>.                                *)
Used(b) == PageSize - b.left
Content(b) == SubSeq(IF b.spilled THEN disk[b.loc] ELSE ram[b.loc], 1, Used(b))
Heap == DOMAIN ram
NewAddr == CHOOSE a \in 1 .. Cardinality(Heap) + 1 : a \notin Heap
Cleared == [i \in 1 .. PageSize |-> Unset]
With(a, cells) == [x \in Heap \cup {a} |-> IF x = a THEN cells ELSE ram[x]]
Without(a) == [x \in Heap \ {a} |-> ram[x]]
\* cells with s put at an offset: memcpy, and SpillWrite.
At(cells, offset, s) == [i \in DOMAIN cells |-> IF i > offset /\ i <= offset + Len(s) THEN s[i - offset] ELSE cells[i]]
-------------------------------------------------------------------------------
Init ==
    /\ fmt \in Formats
    /\ lists = [l \in Lists |-> << >>]
    /\ table = [g \in Groups |-> << >>]
    /\ relocs = [s \in 1 .. NumSects |-> 0]
    /\ ram = << >> /\ disk = << >>
    /\ op = NoOp /\ count = 0 /\ cursor = [list |-> 0, block |-> 0]
    /\ written = << >> /\ phase = "pass2" /\ linkError = FALSE /\ freed = << >>

\* After an error the link goes on, but keeps no file: only its clean up matters.
Running == phase \in {"pass2", "load"} /\ ~linkError
\* A fatal message: CleanSubSystems is next.
Abandon == phase' = "clean" /\ linkError' = TRUE
-------------------------------------------------------------------------------
(* SwapOutRelocs.                                                          *)

\* Mutant: QNX's floating point fixups are forgotten.
SwapOrderNoFloat ==
    CASE Paged -> FlattenSeq([g \in Groups |-> TraverseOS2RelocList(g)])
      [] fmt \in {"os2", "qnx"} -> GroupLists
      [] OTHER -> SectLists

\* The lists in the order in which SwapOutRelocs looks at them.
SwapOrder ==
    CASE Paged -> FlattenSeq([g \in Groups |-> TraverseOS2RelocList(g)])
      [] fmt = "os2" -> GroupLists
      [] fmt = "qnx" -> GroupLists \o <<FloatFixups, SectLists[1]>>
      [] OTHER -> SectLists

\* SpillRelocList finds the first block of l that is in memory.
FirstIn(l, k) == ~lists[l][k].spilled /\ \A j \in 1 .. k - 1 : lists[l][j].spilled
HasBlock(l) == \E b \in Range(lists[l]) : ~b.spilled
CanSwap == LET reached == Range(SwapOrder) IN \E l \in reached : HasBlock(l)

Moved(b) == [b EXCEPT !.spilled = TRUE, !.loc = Len(disk) + 1]

\* SpillWrite: the cells arrive, or an error is reported and they do not, or
\* only some do and the link is abandoned.
SpillFails == linkError' = TRUE /\ UNCHANGED phase

\* SpillRelocList on the first list with a block in memory.  When SpillWrite
\* does not return the block stays where it is.
SwapOutRelocs ==
    /\ Running
    /\ LET order == SwapOrder IN \E i \in DOMAIN order :
          LET l == order[i] IN
          /\ HasBlock(l) /\ \A j \in 1 .. i - 1 : ~HasBlock(order[j])
          /\ \E k \in DOMAIN lists[l] :
                LET b == lists[l][k] IN
                /\ FirstIn(l, k)
                /\ \/ /\ disk' = Append(disk, At(Cleared, 0, Content(b))) /\ UNCHANGED <<phase, linkError>>
                      /\ lists' = [lists EXCEPT ![l][k] = Moved(b)] /\ ram' = Without(b.loc)
                   \/ /\ disk' = Append(disk, Cleared) /\ SpillFails
                      /\ lists' = [lists EXCEPT ![l][k] = Moved(b)] /\ ram' = Without(b.loc)
                   \/ disk' = Append(disk, Cleared) /\ Abandon /\ UNCHANGED <<lists, ram>>
    /\ UNCHANGED <<fmt, table, relocs, op, count, cursor, written, freed>>
-------------------------------------------------------------------------------
(* WriteReloc, FloatReloc, QNXLinearReloc.                                 *)

\* The list head for an offset in page p of group g.
Header(g, p, kind) == <<"page", g, High(p) + 1, Low(p) + 1, kind>>

\* The lists the fixups of a format go to; only initialised pages have fixups.
Targets ==
    CASE fmt = "flat" -> UNION {{Header(g, p, k) : p \in 0 .. GroupPages[g].size - 1} :
                             g \in Groups, k \in {"ext", "int"}}
      [] fmt = "pe" -> UNION {{Header(g, p, "ext") : p \in 0 .. GroupPages[g].size - 1} : g \in Groups}
      [] fmt \in {"os2", "elf"} -> Range(GroupLists)
      [] fmt = "qnx" -> Range(GroupLists) \cup {FloatFixups, SectLists[1]}
      [] OTHER -> Range(SectLists)

\* The section whose counter goes up: none for QNX's float and linear ones.
Counted(l) == IF fmt = "qnx" /\ l # SectLists[1] THEN {} ELSE IF l[1] = "sect" THEN {l[2]} ELSE {1}

Cells(n) == [i \in 1 .. n |-> <<count + 1, i>>]
NeedsTable(l) == Paged /\ table[l[2]] = << >>
NeedsBlock(l, n) == lists[l] = << >> \/ lists[l][1].left < n

\* The end of DoWriteReloc: the relocation goes behind the ones in block b,
\* the head of what l is now; outside is memory and spill file by now.
Store(l, n, blocks, r, d) ==
    LET b == blocks[1]
        stored == [lists EXCEPT ![l] = [blocks EXCEPT ![1].left = @ - n]] IN
    \/ /\ ~b.spilled /\ ram' = [r EXCEPT ![b.loc] = At(@, Used(b), Cells(n))] /\ disk' = d
       /\ lists' = stored /\ UNCHANGED <<phase, linkError>>
    \/ /\ b.spilled /\ disk' = [d EXCEPT ![b.loc] = At(@, Used(b), Cells(n))] /\ ram' = r
       /\ lists' = stored /\ UNCHANGED <<phase, linkError>>
    \/ b.spilled /\ disk' = d /\ ram' = r /\ lists' = stored /\ SpillFails
    \/ b.spilled /\ disk' = d /\ ram' = r /\ lists' = [lists EXCEPT ![l] = blocks] /\ Abandon

\* DoWriteReloc returns, and WriteReloc counts the relocation.
Counts(l) ==
    IF phase' = "clean" THEN UNCHANGED <<relocs, op, count>>
    ELSE /\ relocs' = [s \in DOMAIN relocs |-> IF s \in Counted(l) THEN relocs[s] + 1 ELSE relocs[s]]
         /\ count' = count + 1 /\ op' = NoOp

\* A fixup makes a relocation of n cells.  If memory has to be allocated for
\* it, that takes a while.
WriteReloc(l, n) ==
    /\ phase = "pass2" /\ Running /\ op = NoOp /\ count < MaxRelocs(fmt) /\ l \in Targets
    /\ IF NeedsTable(l) \/ NeedsBlock(l, n)
       THEN /\ op' = [kind |-> "alloc", list |-> l, size |-> n, parts |-> << >>]
            /\ UNCHANGED <<lists, ram, disk, relocs, count, phase, linkError>>
       ELSE Store(l, n, lists[l], ram, disk) /\ Counts(l)
    /\ UNCHANGED <<fmt, table, cursor, written, freed>>

Allocating == op # NoOp /\ Running

\* OS2PagedRelocInit: the parts of the table of a group are allocated one by
\* one, and the group gets the table after the last.
OS2PagedRelocInit ==
    /\ Allocating /\ NeedsTable(op.list)
    /\ LET g == op.list[2] parts == Append(op.parts, NewAddr) IN
       /\ ram' = With(NewAddr, << >>)
       /\ IF Len(parts) = Len(Parts(g))
          THEN table' = [table EXCEPT ![g] = parts] /\ op' = [op EXCEPT !.parts = << >>]
          ELSE op' = [op EXCEPT !.parts = parts] /\ UNCHANGED table
    /\ UNCHANGED <<fmt, lists, relocs, disk, count, cursor, written, phase, linkError, freed>>

\* AllocRelocInfo and the rest of DoWriteReloc: the new block is on the heap, or
\* in the spill file if there is no memory and nothing left to swap out.
AllocRelocInfo ==
    /\ Allocating /\ ~NeedsTable(op.list)
    /\ LET l == op.list
           New(spilled, loc) == <<[left |-> PageSize, spilled |-> spilled, loc |-> loc]>> \o lists[l] IN
       /\ \/ Store(l, op.size, New(FALSE, NewAddr), With(NewAddr, Cleared), disk)
          \/ ~CanSwap /\ Store(l, op.size, New(TRUE, Len(disk) + 1), ram, Append(disk, Cleared))
       /\ Counts(l)
    /\ UNCHANGED <<fmt, table, cursor, written, freed>>

\* No memory at all, no spill file, a break, or an error anywhere in the linker.
FatalError ==
    /\ phase \in {"pass2", "load"} /\ Abandon
    /\ UNCHANGED <<fmt, lists, table, relocs, mem, op, count, cursor, written, freed>>
-------------------------------------------------------------------------------
(* The load file.                                                          *)

\* The order in which the writer of the format goes through the lists.
DumpOrder ==
    (CASE fmt = "flat" -> FlattenSeq([g \in Groups |-> TraverseOS2RelocList(g)])
       [] fmt = "pe" -> FlattenSeq([g \in Groups |->
                            IF table[g] = << >> THEN << >> ELSE PageLists(g, GroupPages[g].size)])
       [] OTHER -> GroupLists)
    \o SectLists \o <<FloatFixups>>

Total(blocks) ==
    LET upTo[i \in 0 .. Len(blocks)] == IF i = 0 THEN 0 ELSE upTo[i - 1] + Used(blocks[i])
    IN  upTo[Len(blocks)]

\* Mutant: the size of the next block is not counted.
DumpMaxRelocListLate(blocks, max) ==
    CHOOSE s \in Prefixes(blocks) \ {<< >>} :
       /\ s = blocks \/ (max # 0 /\ Total(s) >= max)
       /\ \A j \in 1 .. Len(s) - 1 : max = 0 \/ Total(SubSeq(s, 1, j)) < max

\* The blocks DumpMaxRelocList takes: at least one, and then as long as the
\* total stays below max.
DumpMaxRelocList(blocks, max) ==
    CHOOSE s \in Prefixes(blocks) \ {<< >>} :
       /\ s = blocks \/ (max # 0 /\ Total(SubSeq(blocks, 1, Len(s) + 1)) >= max)
       /\ \A j \in 2 .. Len(s) : max = 0 \/ Total(SubSeq(s, 1, j)) < max

\* WriteQNXRelocs puts the selector before the linear fixups of a group.
Adjust(f, l) == IF f = "qnx" /\ l[1] = "group" THEN 2 ELSE 0
Limit(f) == IF f = "qnx" THEN MaxRecord ELSE 0

\* The size written before the relocations: from RelocSize, rounded for PE;
\* from section->relocs for DOS; what DumpMaxRelocList returned for QNX.
Announced(l, blocks) ==
    CASE fmt = "qnx" -> Total(blocks) + Adjust(fmt, l)
      [] fmt = "pe" -> Total(blocks) + (Total(blocks) % 2)
      [] fmt \notin {"qnx", "pe"} /\ l[1] = "sect" -> relocs[l[2]] * (CHOOSE n \in FmtSizes(fmt) : TRUE)
      [] OTHER -> Total(blocks)

\* FiniLoadFile: pass 2 is over.
StartLoad ==
    /\ phase = "pass2" /\ op = NoOp /\ Running /\ phase' = "load"
    /\ UNCHANGED <<fmt, lists, table, relocs, mem, op, count, cursor, written, linkError, freed>>

\* One record of the next list.
WriteRecord ==
    /\ phase = "load" /\ Running /\ cursor.list < Len(DumpOrder)
    /\ LET order == DumpOrder
           l == order[cursor.list + 1]
           rest == SubSeq(lists[l], cursor.block + 1, Len(lists[l])) IN
       IF rest = << >>
       THEN cursor' = [list |-> cursor.list + 1, block |-> 0] /\ UNCHANGED written
       ELSE LET blocks == DumpMaxRelocList(rest, Limit(fmt) - Adjust(fmt, l)) IN
            /\ cursor' = [cursor EXCEPT !.block = @ + Len(blocks)]
            /\ written' = Append(written,
                   [list |-> l, size |-> Announced(l, blocks),
                    cells |-> FlattenSeq([j \in DOMAIN blocks |-> Content(blocks[j])])])
    /\ UNCHANGED <<fmt, lists, table, relocs, mem, op, count, phase, linkError, freed>>

Finish ==
    /\ phase = "load" /\ cursor.list = Len(DumpOrder) /\ phase' = "clean"
    /\ UNCHANGED <<fmt, lists, table, relocs, mem, op, count, cursor, written, linkError, freed>>
-------------------------------------------------------------------------------
(* CleanLinkStruct.                                                        *)

\* Mutant: FreeRelocList does not look at RELOC_SPILLED.
InHeapAll(l) == [i \in DOMAIN lists[l] |-> lists[l][i].loc]
\* FreeRelocList: the heap blocks of l.
InHeap(l) == FlattenSeq([i \in DOMAIN lists[l] |-> LET b == lists[l][i] IN IF b.spilled THEN << >> ELSE <<b.loc>>])

FreeGroupRelocs(g) ==
    IF Paged THEN LET all == TraverseOS2RelocList(g)
                  IN  FlattenSeq([i \in DOMAIN all |-> InHeap(all[i])]) \o table[g]
    ELSE InHeap(<<"group", g>>)

FreeRelocInfo ==
    /\ phase = "clean" /\ phase' = "done"
    /\ freed' = (IF fmt \in {"elf", "os2", "flat", "pe", "qnx"}
                 THEN FlattenSeq([g \in Groups |-> FreeGroupRelocs(g)])
                 ELSE FlattenSeq([s \in 1 .. NumSects |-> InHeap(SectLists[s])]))
                \o IF fmt = "qnx" THEN InHeap(FloatFixups) \o InHeap(SectLists[1]) ELSE << >>
    /\ UNCHANGED <<fmt, lists, table, relocs, mem, op, count, cursor, written, linkError>>

Next ==
    \/ \E l \in Targets, n \in FmtSizes(fmt) : WriteReloc(l, n)
    \/ OS2PagedRelocInit \/ AllocRelocInfo \/ SwapOutRelocs \/ FatalError
    \/ StartLoad \/ WriteRecord \/ Finish \/ FreeRelocInfo

Spec == Init /\ [][Next]_vars
-------------------------------------------------------------------------------
(* Properties.                                                             *)

Block == [left : 0 .. PageSize, spilled : BOOLEAN, loc : Nat]
TypeOK ==
    /\ fmt \in Formats /\ phase \in {"pass2", "load", "clean", "done"} /\ linkError \in BOOLEAN
    /\ \A l \in DOMAIN lists : \A b \in Range(lists[l]) :
          b \in Block /\ b.loc \in (IF b.spilled THEN DOMAIN disk ELSE Heap)
    /\ \A g \in Groups : Len(table[g]) \in {0, Len(Parts(g))} /\ Range(table[g]) \subseteq Heap
    /\ op = NoOp \/ op.list \in Targets

\* Whatever happened - swapping at any moment, a link abandoned in the middle of
\* an allocation or by a failing write - FreeRelocInfo frees every heap block of
\* the store, and none twice.  Only the parts of an index table that was being
\* allocated when the link was abandoned are lost.
FreedOnce ==
    phase = "done" =>
        /\ \A i, j \in DOMAIN freed : freed[i] = freed[j] => i = j
        /\ Heap \ Range(freed) = (IF op = NoOp THEN {} ELSE Range(op.parts))
        /\ Range(freed) \subseteq Heap

\* Memory pressure reaches every block there is, so that a new block goes to the
\* spill file only when no block is left in memory.  Except for ELF, whose
\* relocations are on lists SwapOutRelocs does not look at.
PressureReachesAll ==
    fmt # "elf" => LET reached == Range(SwapOrder) IN \A l \in DOMAIN lists : HasBlock(l) => l \in reached

\* The store keeps the promises of RelocStore: every relocation is in the load
\* file once, whole, in a record of its list, the size announced for a record is
\* the size of what follows, and a QNX record stays below QNX_MAX_FIXUPS.
StoreOf == INSTANCE RelocStore WITH
    Sizes <- FmtSizes, Announced <- LAMBDA f, l, n : IF f = "pe" THEN n + (n % 2) ELSE n + Adjust(f, l),
    stored <- [l \in DOMAIN lists |-> IF Running THEN UNION {Range(Content(b)) : b \in Range(lists[l])} ELSE {}],
    writing <- phase = "load", failed <- linkError
ImplementsRelocs == StoreOf!Spec
===============================================================================
