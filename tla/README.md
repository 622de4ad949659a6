# A verification project for JWlink

JWlink is a linker (a fork of Open Watcom's wlink) written in C: it reads OMF, COFF and ELF object
files and libraries, resolves symbols, lays out segments and writes executables in about a dozen formats.
This directory holds TLA+ modules that model the parts of it where state is hard to keep right, the TLC
configurations that check them on small instances, and theorems proved with TLAPS.

## 1. The system

### 1.1 The run of a link

`main` (c/wlink.c) initialises the subsystems and then repeats: `LinkMeBaby` runs one link under `Spawn`
(a setjmp; a fatal message longjmps out of it), `CleanSubSystems` frees whatever that link left, `GetNextLink`
says whether the command line wants another one in the same process. One link is two passes.

Pass 1 reads the directives, loads every object file named (`ProcObjFiles`), then searches libraries until no undefined symbol
can be found any more (`ResolveUndefined`). Between the passes the linker converts lazy references, removes dead
segments, packs segments into groups and gives them addresses. Pass 2 (`ObjPass2`) relocates the data and
writes the load file.

There is one thread. What makes the program hard is not concurrency but re-entrance: **any** allocation may fail, and
then `FreeUpMemory` (c/mem.c) runs in the middle of whatever was being done and takes memory away from it: it shrinks
the permanent blocks, drops the cache of object files, discards library dictionaries, swaps virtual pages to the spill file and swaps
relocation blocks. Every structure those functions touch must be safe to lose at any allocation.

### 1.2 Components

Each component with the state it keeps, what can be done to it, what makes it hard, and what makes it correct. The last
column says where it is modelled; section 6 says why the rest is not.

| component (source) | state | operations | what is hard | correct when | module |
|---|---|---|---|---|---|
| virtual memory (c/virtmem.c) | page table `SegTab`, huge pages `HugeTab`, swap list, tiny page | `AllocStg`, `ReadInfo`, `PutInfo`, `PutNulls`, `CompareInfo`, `CopyInfo`, `WriteInfo`, `SwapOutVirt`, `FreeVirtMem` | a page may be swapped out by any allocation, also by one a request makes itself | every request sees a plain store; every page has one home; what a fatal error leaves is freed, but for the page in a swap | VirtMem, VirtStore |
| spill file (c/spillio.c) | `TempFile`, `TFileName`, `TmpFSize` | `SpillAlloc`, `SpillRead`, `SpillWrite`, `CloseSpillFile` | opening it allocates, and so can re-enter it; survives a link | allocations are apart; one file per link | VirtMem |
| memory manager (c/mem.c, c/symmem.c, c/carve.c) | permanent and pass 1 blocks, carved blocks with free lists | `LAlloc`, `FreeUpMemory`, `PermAlloc`, `CarveAlloc` ... | the order in which memory is taken away; `LnkReAlloc` is called from within it | nothing taken away is still in use | VirtMem, in part |
| relocation store (c/reloc.c) | lists of 512-byte blocks in memory or spilled | `WriteReloc`, `DumpMaxRelocList`, `WalkRelocList`, `SwapOutRelocs`, `FreeRelocInfo` | blocks move to the spill file between two writes, and while one is being allocated | each relocation is written once, whole, and announced with its size | Reloc, RelocStore |
| object file cache (c/mixcache.c, c/objio.c) | pages or whole content of each file, handles, `TokBuff` | `CacheOpen`, `CacheRead`, `CachePermRead`, `CacheClose`, `DumpObjCache`, `CleanCachedHandles` | pages and handles vanish between reads and in the middle of one | a read returns what the file holds, and pointers into pages stay good while they are used | ObjCache |
| library dictionaries (c/libr.c, JWlib/c/omfutil.c) | pages of OMF dictionaries, sorted tables of AR ones | `SearchLib`, `DiscardDicts`, `BurnLibs`; JWlib: `WriteOmfDict` | probing must follow the writer, a program of its own; tables sorted in place with 16-bit indices | a search answers what the library lists | OmfDict, ArDict |
| symbol table (c/lsymtab.c) | list and hash table of symbols, each with a type and a union | `SymOp`, `MakeSymAlias`, `WeldSyms`, `HashReplace`, `ConvertLazyRefs` ... | aliases resolved at definition, references with defaults, unions whose member depends on the type | definitions stay, lookups end | SymTab |
| pass 1, library search (c/procfile.c, c/objpass1.c, c/objomf.c, c/libsupp.c, c/cmdall.c) | list of libraries, `LIBRARIES_ADDED`, SYM_CHECKED | directives, records of object modules, `ResolveUndefined` | the search reads modules that change what it iterates over | everything that can be found is, and nothing else is read | Resolve |
| dead code (c/objstrip.c, c/distrib.c) | SEG references, edges, SYM_DCE_REF | `AddEdge`, `DataRef`, `RefSeg`, `DefStripSym`, `KillUnrefedSyms` | fixups and definitions come in any order | exactly unused code goes | ObjStrip |
| overlays (c/ovlsupp.c, c/overlays.c, c/distrib.c) | sections, areas, vectors, `ovlstate` and `ovlref` of symbols | vectors (`OvlDefVector`, `OvlRefVector`, `IndirectCall`), tables, distribution of libraries | sections share addresses; whether a function needs a vector is decided while references still come | a call that may find its target out of memory goes through a vector, and no other function has one | Overlay; LoadDos, the padding |
| address assignment (c/autogrp.c, c/objcalc.c, c/salloc.c) | classes, segments, groups with sizes and addresses | `AutoGroup`, `CalcAddresses`, `CalcSegSizes` | 64K limits, wrap-around, sizes predicted before addresses exist | nothing overlaps, and no group outgrows what it was packed for | Layout |
| fixups and pass 2 (c/obj2supp.c, c/omfreloc.c, c/objpass2.c) | saved fixups, frames, the last far call optimised | `StoreFixup`, `IncExecRelocs`, `BuildReloc`, `PatchData`, `FarCallOpt`, `FmtReloc`, `DumpReloc` | five kinds of relocation, calls that are rewritten, fields that cross pages, segments that are left out of a stream of deltas | wherever it is loaded, a reference reads what the object file says | Fixups |
| COMDATs and communal symbols (c/wcomdef.c, c/objpass1.c) | `CDatList`, `CDatSegments`, the segments and `publist` of symbols | `MakeCommunalSym`, `ProcComdat`, `DefineSymbol`, `HashReplace`, `ResolveComdats`, `CalcSegSizes` | each definition of a name may replace the storage of another, in any order of modules | a name has one definition and the storage of that one, whole and once | Comdat; references in ObjStrip |
| repeated data (c/objomf.c, c/omfreloc.c) | current segment, the record in `TokBuff` | `ObjLedata`, `LidataRecord`, `StoreLidataFixup` | a fixup names a byte of the record and belongs to every copy of it | fixups reach every copy and nothing else | Lidata |
| load file output (c/loadfile.c) | block buffer, position, direct or buffered | `WriteLoad`, `PadLoad`, `SeekLoad`, `CloseLoadFile` | buffered until the first seek back; failing writes | the file is the one asked for, or is deleted | BuffFile, LoadFile, SeekFile |
| DOS executables (c/loaddos.c) | `file_loc` of files and sections | `FiniDOSLoadFile`, `WriteDOSSectRelocs`, `PadOvlFiles` | groups alternate between sections and files | each byte is where the layout puts it | LoadDos |
| other load formats (c/loadpe.c, c/loados2.c, ...) | tables of one format each | | | | |
| command language (c/cmd*.c) | files, libraries, options | a directive each | | | Resolve, what makes symbols and libraries |
| debug information, map file, messages, containers | | | | | |
| life cycle (c/wlink.c) | `LinkState` | `ResetSubSystems`, `CleanSubSystems` | a fatal message leaves any state behind | the next link starts clean | VirtMem, LoadFile |

**How they interact.** The command language fills the lists of files and libraries and makes symbols. Pass 1 reads files through
the object cache and the dictionaries, and calls the symbol table and the graph of dead code elimination for each record; it
puts the data of segments into virtual memory. Address assignment turns segments that are not dead into groups.
Pass 2 reads virtual memory back, writes relocations to the relocation store and both go to the load file. Virtual memory and
the relocation store share the spill file. And every one of them allocates, so every one of them can call
`FreeUpMemory`, which calls the blocks, the cache, the dictionaries, virtual memory and the relocation store, in that order.

## 2. The modules

`SeekFile`, `VirtStore` and `RelocStore` are abstract specifications: what a component promises. The other modules are translated from the code and
keep its names. A comment at each definition says where it leaves something out. Operators whose comment begins with *Mutant* are
plausible mistakes; none is used by a specification. A module `MC...` is an instance, or several that share a run: a variable `part`, chosen in
its Init, says which of them moves.

| modules | instances for TLC | proofs |
|---|---|---|
| VirtMem, VirtStore | MCVirt (parts `pages`, `huge`), MCVirtMem (finding 1) | VirtMemProofs |
| BuffFile, LoadFile, SeekFile, LoadDos | MCOutput (parts `buffer`, `dos`), MCLoadDos (finding 2); both take their layouts from MCDosLayouts | LoadFileProofs |
| Reloc, RelocStore | MCOutput (part `relocs`) | RelocProofs |
| ObjCache | MCPass1 (part `reads`), MCObjCache (finding 5) | ObjCacheProofs |
| SymTab, Resolve | MCResolveLibs (parts `plain`, `virtual`), MCPass1 (part `names`), MCResolve (findings 3 and 4) | ResolveProofs |
| OmfDict, ArDict | MCResolveLibs (parts `omf`, `ar`) | NameProofs |
| Comdat | MCResolveLibs (part `comdats`) | NameProofs |
| ObjStrip | MCObjStrip (part `strip`) | ObjStripProofs |
| Overlay | MCObjStrip (part `vectors`) | OverlayProofs |
| Layout | MCObjStrip (part `layout`) | OverlayProofs |
| Lidata, Fixups | MCObjStrip (parts `lidata`, `fixups`), MCLidata (finding 6), MCFixups (finding 7) | |

### 2.1 VirtMem, with VirtStore

*State.* A unit is a 4K page or a 32K subpage of a huge page (`Seg`, `Sub`); the table gives its size, its flags and
whether its address is a heap block or a spill handle, as `virt_struct` does. The heap is the set of blocks that are allocated; `ram` and
`disk` hold cells, so that a wrong address shows up as wrong data. A request is a position in the table and in the caller's buffer.

*Actions.* `AllocStg` with its tiny, normal and huge cases; `Request`, then one step for each turn of `ScanNodes`, preceded by the steps
that allocate the page it comes to; `SwapOutVirt`, which may happen whenever the linker may call malloc, also in the middle of a
request that allocates; `OpenSpillFile`, the second half of a `SpillAlloc` that must open the file; `WriteOut`, the write and the free that
end a swap; `Relink`, which is `CleanSubSystems`, where a fatal error may have left things, and `ResetSubSystems`. A swap is not atomic:
`SwapOutVirt` clears the flag and gives the page its place (`opening` holds the pages whose swap waits for the file's name, `writing` the one with a place and
not yet copied), and `Relink` may come before `WriteOut`, as it does when no name is free (c/spillio.c:102), a write is short
(c/posixio.c:228) or the user breaks in. `CleanUpIsExact` therefore judges `FreeVirtMem` in every state, and says which blocks it misses.

*Refinement.* VirtMem implements VirtStore: sizes map to sizes, the content of a unit is what its heap block or
its place in the spill file holds, and each step is one of the plain store or a stutter. `Junk` stands for memory nobody wrote; equal
`Junk` cells are not equal data, so no property can hold because two garbage cells look alike.

### 2.2 BuffFile, LoadFile, SeekFile

BuffFile has the operations of the output buffer as functions from a file to a file. LoadFile is their client: any
sequence of writes, padding, alignment and seeks on two files, on a disk that may be full, then closing them or deleting them. SeekFile
is a file with a position, without a buffer; LoadFile implements it.

### 2.3 LoadDos

The loop of `FiniDOSLoadFile`/`WriteDOSData` over groups in address order, with `WriteDOSSectRelocs`, `PadOvlFiles` and the header, as a composition of BuffFile's
operations. The layout is an input: MCDosLayouts gives the set TLC tries. A cell says which byte of which group, of the header or of whose
relocations it is, so the end of a link can be judged both ways: every byte in its place (`GroupsInPlace`, `RelocsInPlace`), and in every other place padding (`PaddingClean`). A gap that is skipped instead of
padded shows the cells of the block before, which belong elsewhere. Relocations start at EasSize, behind the header; run `output` has the gap of KNOWEAS there.

### 2.4 Reloc, with RelocStore

*State.* The lists of each format (one for each page of a group and kind of relocation, one for each group, or one for each section), as sequences of blocks, newest first. A block says
how much room is left and whether it is in memory or spilled, and where; `ram` and `disk` hold the cells of the blocks.

*Actions.* `WriteReloc`, which begins an allocation when the head of the list is full; `OS2PagedRelocInit` for the index table of a group, part by part; `AllocRelocInfo`, which ends the allocation, in memory or directly in the
spill file; `SwapOutRelocs`, at any time and so also in the middle of such an allocation; `SpillWrite` that fails, with and without a return; the loops that write the lists into the load file, a list at a
time or in records of a limited size (QNX); and `FreeRelocInfo` after a link that was finished or abandoned.

*Refinement.* RelocStore has lists of relocations, and records that take whole relocations out of them, each once, with the size they announce. The content of a list of Reloc is what its blocks hold, wherever they are.

### 2.5 SymTab and Resolve

SymTab is the symbol table: the list of symbols and what each is, and the operations on it as functions from a table to a table.
Resolve is pass 1: directives; object modules as sequences of records, chosen as they are read; the end of a module with its weak references; the sweeps of
`ResolveUndefined` symbol by symbol, each of which may begin to read a library module; `ConvertLazyRefs`.
A sweep holds a position in a list that grows under it, as the code does.
Ghost variables remember what was asked for: `strong`, `virtual`, `pulled`.

### 2.6 OmfDict and ArDict

Resolve takes a library as a function from names to modules. These two modules show that a search is such a function.

OmfDict has both ends of the dictionary of an OMF library: JWlib's `WriteOmfDict`, with its estimate of the number of pages and the attempts that follow when symbols do not fit, and the search of c/libr.c, with its cache of parts that `DiscardDicts` may drop between any
two probes. The names are whatever hashes to what the constants say: their collisions are chosen, not computed. `OmfFinds`: the search for a name ends with the entry of the symbol that was written, and without one if none was; with case and without.

ArDict reads the first or the second dictionary of an archive, sorts an index if the search needs another order, and then moves names and offsets along the cycles of that permutation, as the loop in c/libr.c does in place, step by step (`Scan`, `Correct`). `ArFinds`:
a search by halves then finds the module of a name, or of one that differs in case only.

### 2.7 Comdat

What becomes of the storage of a name that several modules define. `segs` are the segments made for communal symbols and COMDATs, in the order the code makes them; `infos` is `CDatList`, which lasts for one module; `publist` is the lists of symbols of all modules as pairs. Actions are the records PUBDEF, COMDEF, COMDAT
and its continuation, `ResolveComdats` at the end of a module, and `CalcSegSizes` after pass 1. The ghost `came` has every declaration. `OneDefinition` reads what a name should mean off `came`, in no order but that of modules, and compares it with the table; `InOneList` and `OnlyDefinitionStays` say that nothing of the other
declarations is left; `ComdatWhole` and `CommunalHolds` that the storage is large enough and has the data of one module's records, all of them; `PiecesApart` that the segments of one name follow each other without overlapping.
`NeedsSegment` reads a size that is not known before `CalcSegSizes`, as the code does.

### 2.8 ObjStrip

The graph of references: segments marked `refd`, edges between segments, edges from a symbol that is not defined yet, and the flag SYM_DCE_REF.
Actions are the fixups (`AddEdge`, `DataFixup`, `SegFixup`), start addresses, the ways to define a symbol, the end of a module and `SetSegments`. Ghosts
`uses` and `roots` remember the fixups as such, whatever the graph makes of them, and the properties compare the two.
`Ways(n)` says which definitions may come for a name. Where the code follows a null pointer or takes edges for something else, the phase is `wild` and nothing
is claimed about what follows.

### 2.9 Layout

From a list of segments to addresses: `PackSegment` is a turn of the loop of `PackSegs` in c/autogrp.c, which predicts whether a segment still fits; `SortGroupList` drops and orders groups; `AllocSeg` gives the next segment of a class an address, in real mode, in flat and
split formats, in NE and in PE; `CalcAddresses` finds the extent of each group and numbers them. `EverythingPlaced` compares the end of all this with the segments that went in: none overlaps another, each is aligned, its group reaches over all of it and the initialised part of the group over all that is initialised, and groups follow each other in the file. `PackedFit` relates the
prediction to the result: no group that packing made of several segments reaches the limit it was packed for, so the messages about 64K come only for groups the objects made and segments that are too large alone.

### 2.10 Overlay

Sections are read in the order of their numbers, libraries last. A name is defined, referred to, has its address taken, or is named in a VECTOR, NOVECTOR or FORCEVECTOR directive, in any order; `ovlstate` and `ovlref` remember what the code remembers of it. `CallsArrive`: a call that may find its
target out of memory goes through a vector, and an address that may be called from anywhere is that of the vector; NOVECTOR and NOINDIRECT say otherwise. `VectorsNeeded`: a function no directive names has a vector only if a section it is not in memory with refers to it, or its address is taken.

### 2.11 Lidata

The current segment and the data records that come for it, LEDATA, LIDATA and COMDAT, each with the fixups that follow. A cell of a segment remembers the byte of the record it is a copy of, so `FixupsFollow` can say of each fixup that it was stored for exactly the copies of the
bytes it names.

### 2.12 Fixups

*State.* Pass 1 has `data`, the content of the segments with the addends in it, and `saved`, the stream `StoreFixup` writes: fixups, with a record in between whenever the segment changes. Between the passes some segments go and the rest get addresses (`CalcAddresses`, from a set of layouts). Pass 2
walks the stream; `relocs` is what it leaves for the loader.

*Actions.* `Item`: an instruction or a pointer is added to a segment. `CalcAddresses`. `ExecReloc` for each saved fixup: `Relocated` is the whole of `BuildReloc`, with the frame, the addend, `PatchData`, `FarCallOpt` and `FmtReloc`/`DumpReloc` for the format.

*The property.* `ReferencesRight` does what comes after the linker: it loads the segments at a place the linker does not know, applies the relocations as the loader of the system would (`LoadDos`, `LoadNE`, `LoadLX`, `LoadPE`, modelled as external code from what is written for
them), and then reads the memory: every instruction and pointer that pass 1 stored refers to what the object file says, a far call that was shortened still pushes what the target pops. Where the linker reported an error, nothing is claimed of that reference; of the others it still is.

### 2.13 ObjCache

*State.* For each file: whether it has a handle, whether it is in use, which kind of cache, where the handle is (`pos`) and where the linker thinks it is (`currpos`), and its pages. A cell of a file is its
position, so a read that returns cells from somewhere else shows. `cache` tells a table of pages that was freed from one that is there. `kept` are the pages the module being read has pointers into.

*Actions.* The cache's own: `CacheOpen`, `ClosePass1` (a CacheClose), `CacheRead` with one `NextPage` for each turn of its loop and `EndRead`. Its clients': modules of object files and libraries, dictionaries read through the same
handle, `BurnLibs`, `SetSegments` with `ReleasePass1`, the walk over modules in pass 2, and `CleanLinkStruct`, which may come at any point because a fatal message may. And what an allocation or an open may take at every point
where the code allocates, also inside a read (`MayAllocate`): `DumpObjCache`, `DiscardDicts`, `CleanCachedHandles`.

## 3. The runs

| run | what it shows | instance | distinct states |
|---|---|---|---|
| virt | swapping loses no data; pages, tiny blocks and spill places stay apart; every request ends, stays in its block and sees a plain store; a fatal error in any state frees every block but that of the page a swap takes out; one spill file per link | part `pages`: three 4K pages of two cells, at most four blocks of one and three cells, spill file of six cells, one link; part `huge`: one 4K page, two huge pages of two subpages, a block of five cells, requests of up to three, two links | 375 k |
| virt_reentry | *violation*: finding 1 | two 4K pages, two spill files, file names may fail to be allocated | 10 k |
| output | a file written through the buffer is the one asked for, or is deleted; every group and relocation of an overlaid executable is in its place, in one file or two; .COM files too; relocations are written once and whole however they were swapped out | part `buffer`: blocks of two cells, one file of two blocks or two of one; part `dos`: 4-cell blocks, 3 sections and 4 groups, all combinations of sizes, files and relocations; part `relocs`: a group of three pages and two uninitialised ones, two sections, blocks of three cells, up to three relocations in six formats | 940 k |
| dos_empty_group | *violation*: finding 2 | the layouts `output` leaves out | 1.7 k |
| resolve_libs | sweeps find all that can be found, read nothing else; plain references stay so; directives' libraries come first; virtual function records pull in functions of used classes only; no record takes a definition away; a search of a dictionary answers what the library lists; a name has one definition and its storage | part `plain`: two names, two libraries, two object files, modules of four records (plain, lazy, weak, public, library); part `virtual`: two names, one library, eight kinds of records; part `omf`: up to four of seven names that collide in pages and buckets, pages of six words and three buckets; part `ar`: up to four of five names, two pairs of which differ in case; part `comdats`: two names, three modules, four declarations, far and near communal symbols of 1 to 6 cells where 64K is 4, COMDATs of three places and alignments in up to two records | 1.38 M |
| resolve_circular | *violation*: finding 3 | two names, two aliases | 20 |
| resolve_missed | *violation*: finding 4 | two names, one library | 40 k |
| obj_cache | reads return what files hold; pointers of a module stay good; the position of a handle is known wherever a seek is left out; nothing is left after a link or an abandoned one; aliases mean what they name and pass 1 ends | part `reads`: an object file and an OMF library of three cells, the library one that may also be a FILE, an AR library of two, pages of two, CACHE, NOCACHE and neither; part `names`: four names, a chain of three aliases, a library with none of the names, the middle of the chain, or one name and the end of the chain | 0.41 M |
| obj_cache_strip | *violation*: finding 5 | the same files, with ELIMINATE | 9 k |
| strip_code | exactly the code that is used stays, and nothing that stays refers to what went; segments do not overlap and groups fit; fixups reach every copy of repeated data; exactly the calls that need a vector go through one; references read right wherever the program is loaded | part `strip`: two names (a function, import or constant, with or without a default; and a COMDAT or communal symbol), three segments and at most three calls; part `layout`: three segments of twelve kinds in five formats; part `lidata`: three records, two fixups each; part `vectors`: root and three sections, two trees, one name, a directive, a fixup; part `fixups`: two segments of code in one group and one of data, five formats, up to three references | 0.91 M |
| lidata_fixups | *violation*: finding 6 | records with two blocks of data | 0.2 k |
| far_calls | *violation*: finding 7 | two segments of code in two groups | 2.5 k |

**Why the bounds are enough.** *VirtMem*: sizes of two cells are the smallest that have a first, a last and an only cell; three
pages are the fewest where the swap list has a middle; three-cell blocks end in a page that is not full; five cells in huge pages end in a
subpage that is short and leave one that is unused. A request of three cells spans units of every kind. *LoadFile*: two blocks have an inner boundary, requests of two cells
end on it, before it and behind it. *LoadDos*: two sections at one address is the smallest case in which groups of sections alternate; both orders of sizes and both with
and without a file of their own are there. *Reloc*: blocks of three cells hold one relocation of two cells and not two, so that a list grows with the second; three pages in an index of parts of two need two parts, and the two uninitialised pages a third, which the writer of a PE file must not visit;
a QNX record below six cells, two of them for the selector, ends inside a list. *Resolve*: a library search needs a module that asks for what a sweep has passed and one that adds a library, which two
names and two libraries give; a chain of three aliases, which takes four names, is needed for an alias that keeps a name its target no longer leads to. *OmfDict*: a page of six words holds its three buckets and two names, or one long one, so with four names pages fill up, symbols go on to the next page, and the estimate of the number of pages is too small and has to grow; the cache holds two pages, fewer than the dictionary.
*ArDict*: four entries have permutations with two cycles and with one of each length; IndexLimit is as small as they allow. *Comdat*: four declarations have a name declared in each of the three ways and once more in the way that comes last; far symbols of five and six cells take two segments; a COMDAT of three cells with two more goes over 64K. *ObjStrip*: a path from a root through a segment to another with a symbol
that is defined later takes three segments, two names and two calls, and a third call closes a circle; the theorems cover the rest. *Layout*: a group that is cut needs two segments, and one that is skipped in between needs a third; a paragraph is four bytes and 64K is sixteen, so sizes from 2 to 11 with alignments
1, 2 and 4 meet the limits on both sides; of the six rarer kinds (empty, without a class, absolute, at a fixed address, 32-bit, private) each comes with every pair of usual ones. *Overlay*: root and three sections have sections above, below and beside each other. *Lidata*: repeat counts up to three, nested up to twice. *Fixups*: pages of
four cells are crossed by fields in every position; addresses are taken modulo 128, which both loads (at 0 and 5) and backward distances wrap around; segments of twelve cells hold two far calls in a row and something before them. Two references may be of any kind, three only of the plain ones, among which are the far calls whose shortening looks at the call before.
*ObjCache*: three and four cells in pages of two give a short last page, reads of one page and of two, and a TokBuff that grows; a third file is needed for `DumpObjCache` and `CleanCachedHandles` to have a choice besides the current one.

**Parts.** `virt`, `output`, `resolve_libs`, `obj_cache` and `strip_code` each cover several instances that would otherwise be runs of their own. The variable `part` is chosen in Init and never changes; the other
instances stay where they began, so the states are the sum of all and no interleaving of them is explored or claimed. A property of one part is about its own variables; where the part does not run they keep their first values.

**Symmetry.** Names are symmetric in `resolve_libs`, and so are libraries; in `strip_code` the segments of part `strip` are. No definition tells them apart, and neither run has a liveness property.

**What TLC may stop at.** strip_code, lidata_fixups and far_calls end with the pass they model, so CHECK_DEADLOCK is FALSE there. In the other runs the last state has a step that changes nothing
or starts over, and deadlock is checked.

**Fairness.** `HugeRequestsServed` (part `huge` of `virt`) is under weak fairness of the step that serves a request, `LinkEnds` (part `names` of `obj_cache`) under weak fairness of the next step of the link. The linker has one thread and nothing it waits for:
while there is a step to take, it takes one. Swapping may happen at every turn that allows it, and modules may hold what they like.

## 4. Findings

1. **virt_reentry** (c/spillio.c:118). Opening the spill file allocates its name; if that allocation has to free memory, `SwapOutVirt` opens a spill file of its own, and the
   outer call then opens another and forgets the first. Pages in the first are read back from the second.
2. **dos_empty_group** (c/loaddos.c:96). For a group without data `WriteDOSGroup` returns FALSE, although what follows it was written over: the file stays at the relocations of the section, and padding goes over the
   next section of the same file. c/loadfile.c:607 says it "returns TRUE if the file should be repositioned".
3. **resolve_circular** (c/lsymtab.c:928). html/JWlink.html:6012 describes a warning for circular aliases. `ALIAS foo1=foo2, foo2=foo1` makes foo2 an alias of itself without one, and a lookup of foo1
   never returns, because `UnaliasSym` only stops where it set out.
4. **resolve_missed** (c/objpass1.c:1203). A virtual function record that makes a reference plain in the middle of a sweep clears SYM_CHECKED, but no further sweep comes; the symbol is undefined though a library has it.
5. **obj_cache_strip** (c/mixcache.c:115). The table of a page cache is pass 1 memory. With OPTION ELIMINATE `SetSegments` frees that memory (c/distrib.c:237), but object files under NOCACHE and libraries of FILE directives that keep a page cache
   still point to their tables, and `DumpObjCache` or `FreeFiles` walks a freed table. h/objstruc.h:118 says of `cache`: "used when object file cached in mem".
6. **lidata_fixups** (c/omfreloc.c:128). A fixup of a LIDATA record is stored once for every data block of the record, also for the blocks that do not hold the byte it names. With more than one block it is applied in other places, even before the start of the data. Ver/Readme.txt:125: "JWlink is able to handle OMF
   LIDATA records with relocations."
7. **far_calls** (c/obj2supp.c:1221). `FarCallOpt` tells that two far calls are neighbours by the offset of the last one it optimised, and does not forget that offset when the group changes. A call in another group five bytes further on is taken for the neighbour, and the byte before it, part of another instruction, becomes an
   SS prefix. c/obj2supp.c:1144: "if there are two far calls in a row, it detects this".

The runs for the other properties leave out what leads to a finding, and only that: `NameMayFail = FALSE`, the layouts `SharedBSS`, the alias `Circle`, `StripCode = FALSE` in ObjCache,
the records `vf` together with `NothingMissed` (`NothingMissedPlain` is about links without virtual function records), LIDATA records with more than one data block, and code in more than one group where far calls are optimised.

Seen while modelling, without a run:

- c/wcomdef.c:342: `AddToLinkerComdat` begins another segment when the COMDATs of a kind would exceed 64K, but `leader->size` is set by `CalcSegSizes`, after pass 1 (c/objcalc.c:477). It is always 0 there, so that 16-bit COMDATs of more than 64K in all end with a message about a segment that is too large. Nor is one begun for an alignment above a word.
- c/objpass1.c:990: a second declaration of a far communal symbol of 64K or more enlarges the first of its segments beyond 64K; and `HashReplace` marks only the first as dead, so the others stay when a public symbol takes its place (`OnlyDefinitionStays` excepts them).
- c/wcomdef.c:98: `ResetComdef` does not reset `CDatSegments` and `CDatSegNum` (the lines are under `#if 0`), so a second link in one process puts COMDATs in a segment of the first, whose memory is free. Comdat is one link. c/wcomdef.c:352: what `AllocStg` returns there is lost when `StoreInfoData` allocates again; a continuation of a COMDAT that did not begin (541) follows a null pointer.
- c/loaddos.c:250 writes a third group of a .COM file too far back once the first began before the start address. The layouts have two.
- c/loaddos.c:345: with KNOWEAS the gap behind the header is skipped, not filled: it holds zeros (LAlloc cleared the buffer) whatever FILLCHAR says.
- c/loadfile.c:1136: after the first seek back padding is zeros whatever FILLCHAR says (html/JWlink.html:1438).
- c/virtmem.c:360: `SwapOutVirt` clears VIRT_INMEM and overwrites `loc` before it opens the spill file and writes the page, and frees the block after both. A fatal message in between (no free name, c/spillio.c:102; an open that fails, c/posixio.c:125; a short write, c/posixio.c:228; a break)
  leaves a block that `FreeVirtMem` no longer recognises; it is lost until the process ends. `CleanUpIsExact` says that this is all that is lost. A write that fails with an error code is only reported (c/posixio.c:224)
  and the link goes on with an image that is wrong; the spill file here takes what is written to it.
- c/virtmem.c:449: huge pages never get on the swap list, though 465 prepares for it. They stay in memory.
- c/lsymtab.c:929 copies the name of the resolved target with the length of the name that was written. The runs use names of one length.
- c/cmdall.c:255: REFERENCE does not set SYM_OLDHAT, so a module can make the reference weak and no library is searched (html/JWlink.html:3351).
- c/objpass1.c:1082: a reference the linker made weak and that becomes lazy keeps SYM_CHECKED, so a later library may supply the symbol though an earlier one has it.
- c/wlink.c:258: without any library virtual function references are never resolved, and fall back on their defaults.
- c/mixcache.c:203: when memory for a later page of one read comes from `DumpObjCache`, the earlier pages of a file that is not the current module's are gone, and the copy reads through NULL. A search of a library is such a file; `ReadsRight`
  excepts it (`robbed`).
- c/libr.c:299 and the names `CachePermRead` copies: a pointer into a page is used after an allocation that may drop it, in searches again.
- html/JWlink.html:778 says that object files are not cached unless CACHE is given. `CacheOpen` reads them whole unless NOCACHE is.
- Between two links the list of files still points to what `CleanSym` frees (c/wlink.c:229), until `ResetObjIO`; an allocation that fails in between would walk it.
- libr.c:239: the second dictionary of an archive reuses the name table made for the first, whose size is the first one's number of symbols; they are taken to be equal. And more than 65536 symbols do not fit the 16-bit indices of the sort.
- c/reloc.c:462: `SpillAlloc` may open the spill file and so re-enter `SwapOutRelocs`, which then moves the block that is being moved: the same cause as finding 1, and Reloc takes the file to be open.
- c/reloc.c:518: relocations of an ELF file are on lists `SwapOutRelocs` does not look at; they stay in memory. Of an index table that is being allocated when the link is abandoned the parts are lost until the process ends.
- c/autogrp.c:199: a segment without a class ends no group, but takes a place in between that the prediction does not count; `PackedFit` excepts it. In real mode page alignment is relative to a frame that may begin in the middle of a page. The limit of FFF0h that packing has for NE code is 64K less one here.
- c/objcalc.c: an empty segment of a packed NE group may lie behind the end of the group; `NumGroups` counts groups `SortGroupList` has dropped.
- c/obj2supp.c:979: the message about a 16-bit distance out of range (html/JWlink.html:5757) needs `fix.type` to be FIX_OFFSET_16 and nothing else, which a relative fixup never is. A near call farther than 64K wraps around silently. In NE, a reference by offset whose frame is another segment is not reported either, since `ConvertToFrame` makes that
  segment its target.
- c/obj2supp.c: `CheckRWData` and `FmtReloc` take `targ->u.sym` for a symbol whatever the kind of target. `IncExecRelocs` goes on after `LoadObj` returns FALSE.
- c/wcomdef.c:528: the length of an iterated COMDAT is that of the expanded data, but the raw record is copied. c/omfreloc.c: a repeat count of 0 skips what is left of the record, while `CountIDBlock` counts on. LIDATA keeps a pointer into the record that is read; whether it stays good when records span pages of a cache was not looked at.
- Overlays: `TryUseVector` and `OvlUseVector` are not called by anybody, the redirection is in `BuildReloc` (c/obj2supp.c:404). Functions in COMDATs never get vectors (html/JWlink.html:2691). An alias or a default that is resolved after the references has lost who referred, so its target may lack a vector; so do static functions whose segment is
  named in a pointer of resident data. A reference before the definition makes REFERENCE give a function a vector it may not need. `OvlRefVector` keeps the first section that refers only, which is enough because sections are read in order. With SHORT vectors `vect_off` is an offset without a segment that is added to a real address. VECTOR of a symbol without a segment follows a null pointer. `OvlPass1` clears `ovlref` of the overlay
  loader, vector or not. `ovlref` has 12 bits that nothing checks (h/syms.h:183).
- ObjStrip: an alias that is not a default overwrites the edges of its symbol (c/lsymtab.c:945); a public symbol that replaces a communal one or a COMDAT loses them (c/objpass1.c:857), which
  is why `Steady` is assumed below; `DataRef` of an absolute symbol calls `RefSeg(NULL)` (c/objstrip.c:157); a code COMDAT over a communal symbol takes its segment for edges (c/wcomdef.c:588); .pdata always goes in a PE image; the `_start` of an ELF
  link is marked after the eliminated code (c/loadfile.c:474).

## 5. The proofs

TLAPS checks every step; the constants are arbitrary but for the named assumptions.

**VirtMemProofs: `StaysInBlock`, `TypeCorrect`, `EachUnitHasOneHome`, `PressureReachesPages`, `NothingShared`, `CleanUpMissesOnlySwaps`, `PagingIsInvisible`.** All that is said of virtual memory but liveness, for all page, subpage, block and sector sizes, in four layers. Assumed: `VirtMemAssumption`.

- *The table.* `RequestFits` is not inductive: that a request stays in its block depends on the table. `TableInv` says that the units of a block are consecutive, full but for the last, and that nothing that is allocated changes size; positions in the address space are injective (`PositionInjective`),
  and the end of a unit is the beginning of the next (`AfterNext`). There is a lemma for each allocation (`AllocTinyOK`, `AllocNormalOK`, `AllocHugeOK`), one for a turn of `ScanNodes` (`TransferOK`), and every other action leaves the table alone (`TableUnchanged`).
- *Where the data is.* `StorageInv` is what makes `OneHome`, `SwapListComplete` and `SpillDisjoint` inductive together. `SwapList` also says that a page on the list is in memory or spilled, never unused, which is why an append cannot name a page twice and why the failing `AllocNode` may drop the list. `HugePages` says that
  `numswapped` divides the subpages `AllocHugeNode` has dealt with, also while it is between two of them. `UsedUnits` says that only units with cells have data, and that the pages in a swap are distinct and still on the heap. `SpillAllocOK` is the lemma about the spill file, `SwapToOK` and `WriteOutStorage` those about the two halves of a swap; `AtRest` says what `OneHome` means when none is under way.
  For `StorageApart`, `BlocksBelow` says that blocks lie below the ends of the tables, and those in the tiny page below its next free cell.
- *Clean up.* `FreeVirtMemAll`: in every state the heap blocks `FreeVirtMem` does not free are exactly those of the pages in a swap. If malloc never refuses the name of the spill file, `OneFile` holds, so at most one page is in a swap
  and `CloseSpillFile` deletes all the spill files there are (`CleanUpNow`). Without that hypothesis this second half is false: finding 1.
- *The refinement.* `Content` maps a unit to its heap block or its place in the file. `Tails` says that cells nobody put are `Junk`, in blocks behind their unit and in the file behind its end; without it a page that is swapped out would not read back as the same function. Then each action is an action of VirtStore
  (`StoreAllocate`, `StoreBegin`, `StoreCopyBack`, `StoreFirstUse`, `StoreTransfer`, `StoreReturn`, `StoreRelink`) or changes nothing the store has (`StorePlaced` and `StoreWriteOut` for the halves of a swap, `StoreStutter`).

**ResolveProofs: `SymbolsStay`, `PlainStaysPlain`, `LibrariesInOrder`, `TableWellFormed`, `SearchComplete`, `PulledForAReason`, `TargetsLookedFor`, `AliasesMeanTargets`.** Any names, libraries, records and bounds; the assumptions are that Nil is no name and no library.

- *The table.* Operators on tables are shown one by one to keep a table `Good` and to relate it to the old one by `Keeps`: what is defined stays defined, what has an address keeps its
  type, a symbol asked for without a default does not get one. `Keeps` is reflexive and transitive, so operations that compose others keep it, and `StepFine` puts the actions together. `PlainStaysPlain` assumes that no directive makes symbols.
- *The libraries.* `Sorted` is what `AddObjLib` keeps, wherever in the list it finds the library it is asked for.
- *The search.* That nothing is missed is not inductive: it holds because of three marks, CHECKED on symbols, OLD and SEEN on libraries, which sweeps set and other code clears. `Search` says what each is worth while there are no virtual function records: a symbol that is CHECKED and still wanted is in no OLD library; one the sweep is past is in no library it has SEEN;
  and unless LIBRARIES_ADDED is set, everything the sweep is past is CHECKED. Every operator on tables is shown to leave that so (`Looked`), as whatever makes a symbol wanted again either clears CHECKED or puts it behind the sweep.
- *The reasons.* `Asking`: a symbol that is wanted is asked for plainly or lazily, or is a function of a used class, or was made by the module that is being read, whose weak references its end makes weak. `ReadOnce`: a module that was read defined what it was read for. `PulledForAReason` assumes that there are no ALIAS records: when one is replaced by a definition its target
  stays wanted and may be pulled in for nobody.

- *Aliases.* A lookup follows a trail of names. `Resolved` says that on tables whose aliases lead down (`Falls`) it ends, at one symbol, and that all of the trail is looked up as that; `Rerouted` what a lookup is after one entry changed. Every step but MakeSymAlias is `Tame`: no alias comes and none holds another name, and one ends only when it gets an address. For
  `TargetsLookedFor`, `Tied` says that what an alias holds is in the list, so a sweep comes by it. For `AliasesMeanTargets`, `Meant`: an alias and its target lead to the same symbol, or one leads to an alias that got an address. A new alias turns all trails that went through its name the same way (`AliasMeans`); when one is replaced, nothing has an address yet. Assumed: names that
  are not cut off (c/lsymtab.c:929), no references with a default (no weak ones for `TargetsLookedFor`), one target for an alias, and no circles, given as a rank.

Three statements had to change. `AliasMeansTarget` excepted only targets that have an address themselves. It was not inductive, and false: with a chain of three aliases made from the middle outward, the outermost holds the name at the end, and when the middle one is then defined by a module, the alias before it leads there and the outermost does not. The run had chains of two; it has three now. TLC found that, with virtual functions, `PullsWanted` did not hold as it stood: a reference the linker made weak and that becomes lazy keeps SYM_CHECKED (c/objpass1.c:1082), so that the libraries already searched are skipped and a later one supplies the symbol; its last part is now about links without virtual function records.
And `TypeOK` no longer says that only a virtual function reference has conditional symbols: an ALIAS that replaces one leaves them (c/lsymtab.c:941).

**ObjStripProofs: `TypeCorrect`, `LiveCodeKept`, `UnusedCodeGone`, `NothingDanglesEver`.** `LiveCodeKept` is the safety of the elimination: code that is used stays, for any number of modules, segments and names. `LiveCodeStays` speaks of a closure and
is not inductive. `Marks` is: what a root names is marked or flagged; an edge in `uses` is in the graph, waits at its symbol, or starts at a segment that was marked when it was seen; and a marked segment leaves no edge behind. All of it says: *the set
`refd` is closed under the fixups as far as they have a target*, and so contains `Live` (`MarksKeepLive`). `IInv` is the types and, unless the phase is `wild`, `Marks`. `Grows` relates the graph before and after `RefSeg`, `Point` and `DefStripSym`: no mark goes away, and an
edge goes only if its target gets marked. Assumed: `Steady`, that no name is both public and communal or COMDAT; the code does lose edges there.

`UnusedCodeGone` is the converse: what is not used is not marked. `UsedOnly` reads the graph the other way round: an edge of the graph is a call in `uses`, an edge that waits at a symbol (`Waits`) is one too, a symbol is flagged only if a root or something live names it, and what is marked is `Live` or a segment that holds no code (`Soft`). `Live` grows
with every action (`LiveStays`), so what was live stays so. For `NothingDanglesEver`, `Anchor` says that no symbol lies in a segment that was replaced, that no other symbol lies in the segment of a communal one, and that the default of a reference is a root; with what LiveCodeKept says of the segments, whatever a fixup of a segment that stays refers to stays too. Assumed: `Steady`.

**NameProofs: `OneMeaning`, `StorageRight`, `ArFindsAlways`, `OmfFindsAlways`.** `OneMeaning` is about Comdat: any number of names, modules and declarations in any order. `OneDefinition`, `InOneList` and `OnlyDefinitionStays` become inductive together with `Read` and `SymbolFine`: no declaration comes from a later module than the one that is read, a symbol was defined by then, and it has a segment of its own name exactly if it is communal or a COMDAT. A declaration
that is no better than what there is changes no meaning, because its module is no earlier (`NoBetter`); a better one gives the name its meaning alone (`Better`). `OldSegments` and `NewSegments` are the same argument for segments: the one a symbol leaves is marked dead and the one it gets is new. Assumed: `LegalRecords`.

`StorageRight` is the rest of what the run checks of Comdat: data, room and places. `NameFine` says four things of each name: CDatList knows a segment for it exactly as long as the COMDAT that gave the name its meaning is in the module being read (`InfoFine`), so that records that continue one, and the data stored at the end of a module, can only reach that segment;
the segment is as long as the records that came, and its data, or the pieces that wait for it, add up to as much (`DataFine`); it is the first of those made for the symbol (`FirstFine`); and what is alive of the segments of a communal symbol adds up to its largest size (`RoomFine`). A step leaves all names but its own alone (`OtherName`), as no two names have a segment in common.
A module that declares a name once cannot declare it again while its COMDAT is collected (`Undeclared`). `Total` is made into partial sums (`TotalIs`), by which room only grows (`RoomMore`) and the parts of a far communal symbol add up to its size (`RoomParts`). AddUpSegData goes on from the end of all segments of the name it has met, rounded up, which is never below (`PlacedStep`). Assumed: `LegalRecords`, and `PowersOfTwo`, that a power of two is a
positive number, which the provers do not know.

`ArFindsAlways`: the loop that moves entries along the cycles of the sort, for any number of entries that an index can count. `Table` is, at every step, the table the entries will be in the end; `Sort` gives it the right order (`SortInv`), and no turn of the loops changes it (`ScanInv`, `CorrectInv`). For that the indices must never point into the hole, the entry
whose content has gone further up the cycle and that waits for its own (`Places`). So the table that is searched is sorted and has each symbol of the archive. Assumed: `ArBounds`.

`OmfFindsAlways`: a dictionary of OMF type finds each name that was put into it, whatever the names hash to, however often the pages had to get more. The writer and the reader go the same way through buckets and pages. `Way` says, of a place on it, that the reader, when it comes there, goes on to the next one, and `Ahead` that it is where the name is; `OnWay` puts them together: whoever follows the way meets the name.
Inserting other names only makes buckets used and pages full (`Grows`), and neither turns a way that leads to a name: a bucket in use stays in use with what is in it, and a page that is marked full does not change any more. The folds of the model are made into sequences of states by `FoldExists`. Assumed: `OmfBounds` (a page has buckets and room, names that are compared as equal hash alike) and `Bertrand`,
that there is a prime between n and 2n, which is why NextPrime has something to choose.

**OverlayProofs: `EveryCallArrives`, `NoVectorInVain`.** Any number of sections, symbols and references, in any order. The argument is about one symbol at a time. As long as it is undecided and not defined, `ovlref` is the first section that refers to it, or 0 once its address was taken (`Early`). Sections are read in the order of their numbers,
so that section is no later than any other that refers to it; if it is also the one that defines it, none else does, and no vector is needed. If it is an earlier one, it is not loaded with the definition, because a section is read after those it is loaded with, and a vector is. After the definition each reference is compared with its place (`Late`). The number
of a vector is its place in the table as long as `ovlref` can count them (`VectorRight`). Assumed: `Forest`, which says how sections are numbered.

`EverySegmentPlaced` is about Layout and shares the module. Any list of segments, in the five formats. While groups are packed, each segment the loop has passed has a group or is one of the `num` that wait for the group being made (`PackInv`); PackSegs counts `num` segments again, from the first, and the proof is that it finds just those (`PackTakes`), although segments in between may have a
group already. So no segment is without a group (`Grouped`), and after SortGroupList each group that has a segment with an address is in the list once (`Sorted`). Segments get addresses in the order of the list: `loc` is behind all that was placed in its address space (`MemInv`), and where a group is a segment of the file its total is (`FileInv`). Neither a change of
frame nor a fixed address goes back (`NormalRight`, `LocatedRight`). The extent of a group is a minimum and a maximum over its segments (`MemGroup`), the starts of the groups of a PE file are a fold (`FlatFold`). Assumed: `Machine`. Alignments and the paragraph are positive, an initialised part is no longer than its segment, only real mode
has fixed addresses, and there no alignment exceeds a paragraph: page alignment is relative to a frame.

The proof found that `EverythingPlaced` said less than it meant. By the precedence of the operators, that a segment does not begin before its group was claimed of segments with content only; it holds of all, and the model checks that now. The list SortGroupList makes was given by an operator that the language does not define for two groups with the same first segment; it is now given by its order.

`PackingIsRight` is about Layout too, and relates its two ends: what AutoGroupSect adds up while it packs, and what allocation and the check of 64K find much later. Any list of segments, real mode and NE. While groups are packed, `PackingInv` keeps for each segment the place in its group that packing thinks it has, and the first segment it was packed with (`Member`, `Predicted`, `Drawn`): the
size so far is the end of the last one, sums do not wrap around in 32 bits (`NoWrap`), after a cut only the rest of a paragraph remains in front of the next group (`RoundIs`), and PackSegs puts together just what was packed together (`PackOnly`, `AfterPack`). Then allocation is compared with the drawing. In real mode a segment is where it was drawn, within the paragraph its group begins in
(`RealFit`), because alignments divide a paragraph (`AlignMod`); in NE a group never gets longer than drawn (`FileFit`, `AlignMono`). So the total is below the limit packing kept (`GroupEnd`, `TotalFits`). Assumed: `Machine` and `Fits`. Sizes with their alignment fit in 32 bits, 64K holds a paragraph, 2^32 is a number of paragraphs, and PACKCODE and PACKDATA ask for no more than 64K: the code
takes any value, and a larger one asks for the groups the message is about. Segments without a class and with an address of their own are `PackedFit`'s own exceptions.

**ObjCacheProofs: `KeptStaysAlways`, `CacheTyped`, `SeeksRight`, `LinkLeavesNothing`, `ReadsReturnTheFile`.** Everything the run checks of the cache, for any files, lengths, page size and options, from one inductive invariant. `FileOK` says of a file that a page that is there holds its own part of the file, that the handle is where a read would leave out the seek, that a full cache is whole, and that
one without a table has no pages; each operation on a file (`OpenOK`, `DumpOK`, `FreeOK`, `CloseOK`, `ReadPageOK`) keeps it. The two halves need each other: a page is right because the seek was, and the place is right after the last, short page only because no page begins at the end of the file (`PageInside`). Around it: the file in use is open and has its table
(`UserOK`); files that are neither read nor searched are never opened, which is why FreeFiles need not look at them (`FilesOK`); the pages a read has passed are there unless it was robbed (`ReadOK`, `Trusted`); and CurrMod is the module being read, which is what keeps `DumpObjCache` off its file (`KeptOK`). `ReadsRight` then is arithmetic on pages (`PageOfCell`, `DivMono`, `CellRight`). Assumed: `ObjCacheAssumption`.

**LoadFileProofs: `FilesTyped`, `BufferInvisible`.** Blocks of any size, any number of files, requests of any length, any stub in front. A file whose writes succeeded is `Whole`: while it has a buffer, the handle is at the end of what reached the file, the position is that plus `ModPos`, and its image ends at its position. So every operation with a buffer appends: `WriteBufferOK` shows that the
image gets longer by just the cells of the request, whatever whole blocks go to the file and whatever stays, by way of `AfterBlocksOK` (the buffer keeps the rest over what was there) and `ModBlocks`. The first seek back gives the buffer up (`FlushOK`), and from then on the image is the file (`Direct`, `QWriteOK`). `SeekLoadOK` and `SeekEndLoadOK` put the two together. `IInv` says that files are Whole until an error is reported and `Sized` after it;
then each step is a request of SeekFile (`PutMaps`, `MoveMaps`), `Fail`, `Keep`, or changes nothing SeekFile has. Nothing is assumed but that blocks are not empty.

**RelocProofs: `RelocTypes`, `RelocPressure`, `RelocFreed`, `RelocKept`.** Any groups, pages, sections, formats and sizes of relocations and blocks. The lists are where the arithmetic is: every loop over the pages of a group counts parts and pages of parts, `Header` divides the number of a page, and `PageListsAre` shows that the loops meet each page once and the ones
`WriteReloc` fills among them (`HighLow`, `Lexicographic`); `FlattenPlaces` says where FlattenSeq puts an element. So SwapOutRelocs and FreeRelocInfo reach every list that gets relocations (`SwapReaches`, `FreePagedIs`). `Owned` is what makes `FreedOnce` inductive: everything on the heap belongs to one block of one list, to one table, or to the table that is being allocated, and to
nothing else; `ListStep` keeps it when one list gets other blocks, which is all that writing, allocating and swapping do. `Placed` says that no list has a block before its group has a table, which is why the loops may skip groups without one, and that the parts of a table are never pending while a block is allocated.

`RelocKept` is the refinement of RelocStore. Its invariant `Kept` adds what the blocks hold, as long as nothing went wrong (`Running`): every block holds whole relocations and none is empty (`Pieces`), no relocation is in two blocks (`IdsApart`), no two blocks share an area of the spill file (`DiskApart`, which makes a swap harmless to the others), `section->relocs` times the
size of a relocation is what the blocks of the section hold (`RelocsRight`: the DOS header announces the one, the writer dumps the other), and what is in the load file is what the blocks in front of the cursor hold (`WrittenOK`). A step that puts a relocation somewhere changes one block of one list (`PutIn`, `PutKept`); a swap, and the allocation of a table, change where blocks are and not
what they hold (`KeptSame`); a record takes whole blocks from behind the cursor, is announced with their size (`AnnouncedIs`; `TotalMore` is why `RelocsRight` stays) and stays below the limit of QNX, because a block that would reach it begins the next record (`RecordIs`). After an abandoned link RelocStore promises nothing, and each step is its `failed` step or changes nothing. Assumed: `RelocAssumption`.

The proof found a fault of two models that no run could show. `Announced` of Reloc and `PatchData` of Fixups had a CASE whose guards overlapped: TLC takes the first that is true, the language leaves open which, so nothing could be proved of the value. The guards exclude each other now, in the order of the code.

**Only model-checked**: everything about liveness (`HugeRequestsServed`, `LinkEnds`), what a search with virtual function records pulls in and from where, the DOS layout; Lidata and Fixups. Liveness is out of the prover's reach, and so are the recursive data of LIDATA records and the streams of fixups, whose walk is a fold; the others only lack a proof.

## 6. What is not modelled

- *Decoding and encoding*: OMF, COFF and ELF records, headers and tables of the load formats other than DOS, debug information, map file, resources. Each is a translation without state that survives it. It is most of the code: with JWlib, cvpack, the resource compiler and the tables of
  processors it makes up nine tenths of the lines, which is why the modules cover the smaller part of them.
- *Fixups*: floating point, absolute and debugger fixups, movable segments, 16-bit segments in a 32-bit format and the other way round, processors other than the x86, RELOCS of self-relative fixups in OS/2 files, and formats other than DOS, NE, LX, LE and PE.
- *Address assignment*: ELF, DOS/16M, overlays, debug classes, COPY, the order of classes and segments (`CheckClassOrder`, `SortClasses`, `SortSegments`), the stack of a PE image and the padding before uninitialised data. They choose the list Layout begins with, or change one address.
- *Overlays*: the tables for the overlay loader, the addresses of sections, and the distribution of library modules, which is switched off (c/distrib.c:202).
- *Options that change one module's details*: incremental links and c/permdata.c (a dump of the tables), TOC (PowerPC), ELF and COFF modules, fuzzy exports, COMMON segments, and the messages the selection of COMDATs leads to.
- *Containers*: rings, string tables and hash tables are the sets, sequences and functions they stand for. Hash chains only make the search faster.
- *JWlib, the resource compiler, cvpack*: programs of their own, but for the writer of dictionaries in JWlib, which is the other half of a search.
- *Options NT, DOS and OS/2 builds*: c/posixio.c stands for them all. Of the caches only c/mixcache.c is built.

## 7. The plan

What was planned first is there. What is left, in this order; new modules share runs with those there are, as further parts.

1. **Life cycle**: which subsystem's state survives an abandoned link, as one table of what each `Reset` and `Clean` function sets; today VirtMem, LoadFile, ObjCache and Reloc each have their own share of it.
2. **COMDATs**: incremental links, where definitions that made way are kept, and COMDATs of COFF modules.
3. **ObjStrip**: virtual function edges, COMMON segments and aliases.
4. **Overlay addresses**: areas and sections under Layout, which is the input LoadDos takes from MCLoadDos today.
5. **Proofs**: what a search pulls in when there are virtual function records.
