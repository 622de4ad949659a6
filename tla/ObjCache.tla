------------------------------ MODULE ObjCache ------------------------------
(***************************************************************************)
(* The cache of object files and libraries (c/mixcache.c) with its handles *)
(* (c/objio.c), under its clients: DoPass1 and ProcLibFile, which read     *)
(* modules, and SearchLib, which reads dictionaries.  There is one thread; *)
(* what happens in between is that an allocation or an open takes pages,   *)
(* dictionaries or handles away.                                           *)
(*                                                                         *)
(* A cell of a file is its position in it, so what was read shows where it *)
(* came from.  Libraries are well formed, and records end within the file. *)
(***************************************************************************)
EXTENDS Naturals, Sequences

CONSTANTS CachedFiles,   \* the list of all files, in its order
          Objects,       \* the files of Root->files
          ObjLibFiles,   \* the list of libraries, in its order
          IsLibrary,     \* the files with INSTAT_LIBRARY
          ArLibs,        \* the libraries that are AR archives
          Length,        \* of each file
          DictStart, DictSize,   \* where the dictionary of an OMF library is
          PageSize,      \* CACHE_PAGE_SIZE
          Headroom,      \* MAX_HEADROOM, the first size of TokBuff
          SectorSize,    \* SECTOR_SIZE, the unit it grows by
          CacheOptions,  \* what a link may say: "CACHE", "NOCACHE", or "default"
          StripCode,     \* OPTION ELIMINATE
          Null

Files == {CachedFiles[i] : i \in DOMAIN CachedFiles}
Libs == {ObjLibFiles[i] : i \in DOMAIN ObjLibFiles}

ASSUME ObjCacheAssumption ==
    /\ PageSize \in Nat \ {0} /\ SectorSize \in Nat \ {0} /\ Headroom \in Nat
    /\ Length \in [Files -> Nat \ {0}]
    /\ Objects \subseteq Files /\ Libs \subseteq Files
    /\ Libs \subseteq IsLibrary /\ IsLibrary \subseteq Files
    /\ \A f \in Libs \ ArLibs : DictStart[f] \in Nat /\ DictSize[f] \in Nat /\ DictStart[f] + DictSize[f] <= Length[f]
    /\ StripCode \in BOOLEAN /\ Null \notin Nat /\ Null \notin Files

VARIABLES file,      \* the infilelist of each file
          dict,      \* u.dict of each library: Null, "entry", or "cached" with its cache
          tokSize,   \* the size of TokBuff
          phase,     \* "objects", "libraries", "burnt", "pass2", "clean" or "wild"
          user,      \* the file between CacheOpen and CacheClose, or Null
          stage,     \* of user: "open", "typed" once something was read, "module", "done"
          currMod,   \* the file of CurrMod, or Null
          left,      \* the files of Root->files that are still to read
          read,      \* the CacheRead that is under way, or Null
          option,    \* what this one says
          kept       \* the pages the module being read has pointers into

reading == <<user, stage, currMod, left, read, option, kept>>
vars == <<file, dict, tokSize, phase, reading>>

NumCacheBlocks(f) == (Length[f] + PageSize - 1) \div PageSize
Pages(f) == 0 .. NumCacheBlocks(f) - 1
NoPages(f) == [p \in Pages(f) |-> Null]
Smaller(a, b) == IF a < b THEN a ELSE b

\* AllocEntry.  pos is where the handle really is; currpos is what the linker
\* thinks.  cache is "none", "memory", or "freed" when the table of the pages is
\* still pointed to after ReleasePass1.
AllocEntry(f) ==
    [handle |-> FALSE, inUse |-> FALSE, kind |-> "unset", currpos |-> 0, pos |-> 0,
     cache |-> "none", page |-> NoPages(f)]

Init ==
    /\ file = [f \in Files |-> AllocEntry(f)]
    /\ dict = [f \in Libs |-> Null]
    /\ tokSize = Headroom /\ phase = "objects"
    /\ user = Null /\ stage = "open" /\ currMod = Null /\ left = Objects
    /\ read = Null /\ kept = {} /\ option \in CacheOptions
-----------------------------------------------------------------------------
(* Files as they are opened, closed and dropped.                           *)

\* Mutant: a new handle keeps the position of the old one.
DoObjOpenKeepsPos(r) == IF r.handle THEN r ELSE [r EXCEPT !.handle = TRUE, !.pos = 0]

\* A new handle is at the start of the file.
DoObjOpen(r) == IF r.handle THEN r ELSE [r EXCEPT !.handle = TRUE, !.currpos = 0, !.pos = 0]

KindOf(f) ==
    CASE option = "CACHE" -> "full"
      [] option = "NOCACHE" -> "page"
      [] OTHER -> IF f \in IsLibrary THEN "page" ELSE "full"

\* The full cache reads the file from its start, the other one makes the table.
MakeCache(f, r) ==
    IF r.kind = "page" THEN [r EXCEPT !.cache = "memory"]
    ELSE LET start == IF r.currpos # 0 THEN 0 ELSE r.pos IN
         [r EXCEPT !.cache = "memory", !.currpos = Length[f],
                   !.pos = Smaller(start + Length[f], Length[f]),
                   !.page = [p \in Pages(f) |-> start + p * PageSize]]

OpenedFile(f) ==
    LET r == DoObjOpen(file[f])
        s == [r EXCEPT !.inUse = TRUE, !.kind = IF @ = "unset" THEN KindOf(f) ELSE @]
    IN  IF s.cache = "none" THEN MakeCache(f, s) ELSE s

\* All pages but the one the file is at; all if nuke.
DumpFileCache(f, r, nuke) ==
    IF r.cache = "none" THEN r
    ELSE [r EXCEPT !.page = [p \in Pages(f) |->
             IF ~nuke /\ p = r.currpos \div PageSize THEN r.page[p] ELSE Null]]

\* Mutant: FreeObjCache keeps the page the file is at, as CacheClose does for a library.
FreeObjCacheKeepsPage(f, r) ==
    LET dumped == IF r.kind = "full" THEN [r EXCEPT !.page = NoPages(f)]
                  ELSE DumpFileCache(f, r, FALSE)
    IN  [dumped EXCEPT !.cache = "none"]

FreeObjCache(f, r) ==
    LET dumped == IF r.kind = "full" THEN [r EXCEPT !.page = NoPages(f)]
                  ELSE DumpFileCache(f, r, TRUE)
    IN  [dumped EXCEPT !.cache = "none"]

\* CacheClose of pass 1 and of FreeFiles (3).
CacheClose(f, r, pass) ==
    LET s == [r EXCEPT !.inUse = FALSE] nuke == f \notin IsLibrary IN
    CASE pass = 3 -> [FreeObjCache(f, s) EXCEPT !.handle = FALSE]
      [] pass = 1 /\ r.kind = "full" -> IF nuke THEN FreeObjCache(f, s) ELSE s
      [] OTHER -> DumpFileCache(f, s, nuke)

CacheOpen(f) ==
    /\ user = Null /\ read = Null
    /\ \/ phase = "objects" /\ f \in left /\ left' = left \ {f}
       \/ phase = "libraries" /\ f \in Libs /\ UNCHANGED left
    /\ file' = [file EXCEPT ![f] = OpenedFile(f)]
    /\ user' = f /\ stage' = "open"
    /\ UNCHANGED <<dict, tokSize, phase, currMod, read, kept, option>>

\* The end of DoPass1 and of ProcLibFile, whether or not it found anything.
ClosePass1 ==
    /\ user # Null /\ read = Null
    /\ IF phase = "objects" THEN stage = "typed" ELSE stage # "module"
    /\ file' = [file EXCEPT ![user] = CacheClose(user, @, 1)]
    /\ user' = Null /\ stage' = "open"
    /\ UNCHANGED <<dict, tokSize, phase, currMod, left, read, kept, option>>
-----------------------------------------------------------------------------
(* Reading.  A read from pages comes to them one by one.                   *)

First(r) == r.pos \div PageSize
Last(r) == (r.pos + r.len - 1) \div PageSize
Multipage(r) == file[user].kind = "page" /\ Last(r) > First(r)

\* What memory at the place of cell q of f holds: a cell, if the page is there.
Cell(f, q) ==
    LET start == file[f].page[q \div PageSize] IN
    IF start = Null THEN Null ELSE start + (q % PageSize)

\* What a read returns, in place or in a copy.
Result(r) == [i \in 1 .. r.len |-> Cell(user, r.pos + i - 1)]

\* CacheRead, and CachePermRead if perm.  A full cache has nothing to fetch.
CacheRead(pos, len, perm) ==
    /\ user # Null /\ read = Null /\ pos + len <= Length[user]
    /\ read' = [pos |-> pos, len |-> len, perm |-> perm, robbed |-> FALSE,
                next |-> (IF file[user].kind = "full" THEN pos + len - 1 ELSE pos) \div PageSize]
    /\ UNCHANGED <<file, dict, tokSize, phase, user, stage, currMod, left, kept, option>>

\* Mutant: the last page of a file counts as a whole one.
ReadPageWhole(f, r, p) ==
    LET start == IF r.currpos # p * PageSize THEN p * PageSize ELSE r.pos
    IN  [r EXCEPT !.page[p] = start, !.currpos = p * PageSize + PageSize, !.pos = start + PageSize]

ReadPage(f, r, p) ==
    LET newpos == p * PageSize
        start == IF r.currpos # newpos THEN newpos ELSE r.pos
    IN  [r EXCEPT !.page[p] = start, !.currpos = newpos + PageSize,
                  !.pos = Smaller(start + PageSize, Length[f])]

\* One turn of the loop that makes sure that the pages are in.
NextPage ==
    /\ read # Null /\ read.next <= Last(read)
    /\ file' = IF file[user].page[read.next] # Null THEN file
               ELSE [file EXCEPT ![user] = ReadPage(user, @, read.next)]
    /\ read' = [read EXCEPT !.next = @ + 1]
    /\ UNCHANGED <<dict, tokSize, phase, user, stage, currMod, left, kept, option>>

\* The pages a result points into: several are copied to TokBuff, and what
\* CachePermRead returns is a copy, but not from a full cache.
Pointed(r) ==
    IF Multipage(r) \/ (file[user].kind = "page" /\ r.perm) THEN {} ELSE First(r) .. Last(r)

\* A module that is read may keep what it was given until it ends.
EndRead ==
    /\ read # Null /\ read.next > Last(read)
    /\ read' = Null
    /\ kept' = IF stage = "module" THEN kept \cup {<<user, p>> : p \in Pointed(read)} ELSE kept
    /\ stage' = IF stage = "open" THEN "typed" ELSE stage
    /\ tokSize' = IF Multipage(read) /\ read.len > tokSize
                  THEN ((read.len + SectorSize - 1) \div SectorSize) * SectorSize ELSE tokSize
    /\ UNCHANGED <<file, dict, phase, user, currMod, left, option>>
-----------------------------------------------------------------------------
(* The clients.                                                            *)

Between == user # Null /\ read = Null

\* CheckLibraryType makes the dictionary entry; SearchLib calls it once.
MakeDict ==
    /\ Between /\ phase = "libraries" /\ stage = "typed"
    /\ dict[user] = Null /\ dict' = [dict EXCEPT ![user] = "entry"]
    /\ UNCHANGED <<file, tokSize, phase, reading>>

\* Mutant: SetDict moves the handle and does not say so.
SetDictSilent ==
    /\ Between /\ phase = "libraries" /\ stage \in {"open", "typed"}
    /\ user \notin ArLibs /\ dict[user] = "entry"
    /\ \E n \in 1 .. DictSize[user] : file' = [file EXCEPT ![user].pos = DictStart[user] + n]
    /\ UNCHANGED <<dict, tokSize, phase, reading>>

\* SetDict reads the dictionary, or one page of it if there is no memory, through
\* the same handle.
SetDict ==
    /\ Between /\ phase = "libraries" /\ stage \in {"open", "typed"} /\ user \notin ArLibs /\ dict[user] = "entry"
    /\ \/ /\ dict' = [dict EXCEPT ![user] = "cached"]
          /\ file' = [file EXCEPT ![user].pos = DictStart[user] + DictSize[user],
                                  ![user].currpos = DictStart[user] + DictSize[user]]
       \/ /\ UNCHANGED dict
          /\ \E n \in 1 .. DictSize[user] :
                file' = [file EXCEPT ![user].pos = DictStart[user] + n,
                                     ![user].currpos = DictStart[user] + n]
    /\ UNCHANGED <<tokSize, phase, reading>>

\* A module of the file: CurrMod is set before it is read.  DoPass1 has looked at
\* the type of the file, and a search at the dictionary.
StartModule ==
    /\ Between /\ stage \in {"open", "typed"}
    /\ IF phase = "objects" THEN stage = "typed" ELSE dict[user] # Null
    /\ currMod' = user /\ stage' = "module"
    /\ UNCHANGED <<file, dict, tokSize, phase, user, left, read, kept, option>>

\* FreeObjInfo.  A file may hold more modules; a search is for one.
EndModule ==
    /\ Between /\ stage = "module"
    /\ stage' = IF phase = "objects" THEN "typed" ELSE "done"
    /\ kept' = {}
    /\ UNCHANGED <<file, dict, tokSize, phase, user, currMod, left, read, option>>

\* ProcObjFiles has read all files.
StartLibraries ==
    /\ phase = "objects" /\ user = Null /\ left = {}
    /\ phase' = "libraries"
    /\ UNCHANGED <<file, dict, tokSize, reading>>

BurntFiles == [f \in Files |-> IF f \in Libs /\ dict[f] # Null THEN FreeObjCache(f, file[f]) ELSE file[f]]

\* The end of ResolveUndefined.
BurnLibs ==
    /\ phase = "libraries" /\ user = Null
    /\ file' = BurntFiles /\ dict' = [f \in Libs |-> Null]
    /\ phase' = "burnt"
    /\ UNCHANGED <<tokSize, reading>>

\* SetSegments: ReleasePass1, with STRIP_CODE.  Tables of pages are pass 1 memory.
SetSegments ==
    /\ phase = "burnt" \/ (phase = "objects" /\ user = Null /\ left = {})
    /\ phase' = "pass2"
    /\ file' = [f \in Files |->
                   IF StripCode /\ file[f].kind = "page" /\ file[f].cache = "memory"
                   THEN [file[f] EXCEPT !.cache = "freed"] ELSE file[f]]
    /\ UNCHANGED <<dict, tokSize, reading>>

\* Pass 2 and what leads to it walk the modules again (PModList).
WalkModules ==
    /\ phase = "pass2"
    /\ currMod' \in Objects \cup Libs
    /\ UNCHANGED <<file, dict, tokSize, phase, user, stage, left, read, kept, option>>

\* DumpFileCache looks at a table that is not there any more.
Freed(r) == r.kind = "page" /\ r.cache = "freed"

\* CleanLinkStruct: BurnLibs and FreeFiles, after a link or an error in it.
CleanLinkStruct ==
    /\ phase \notin {"clean", "wild"}
    /\ phase' = IF \E f \in Files : Freed(file[f]) THEN "wild" ELSE "clean"
    /\ file' = [f \in Files |-> IF f \in Objects \cup Libs THEN CacheClose(f, BurntFiles[f], 3) ELSE file[f]]
    /\ dict' = [f \in Libs |-> Null]
    /\ user' = Null /\ read' = Null /\ kept' = {}
    /\ UNCHANGED <<tokSize, stage, currMod, left, option>>

\* The next link of the same process.
Restart ==
    /\ phase = "clean"
    /\ file' = [f \in Files |-> AllocEntry(f)] /\ phase' = "objects"
    /\ stage' = "open" /\ currMod' = Null /\ left' = Objects /\ option' \in CacheOptions
    /\ UNCHANGED <<dict, tokSize, user, read, kept>>
-----------------------------------------------------------------------------
(* What an allocation or an open may take away.                            *)

\* The linker allocates all the time between two reads, and in one for a page,
\* a longer TokBuff, or the copy of CachePermRead.
Allocates(r) ==
    IF r.next <= Last(r) THEN file[user].page[r.next] = Null
    ELSE IF Multipage(r) THEN r.len > tokSize ELSE r.perm /\ file[user].kind = "page"
MayAllocate ==
    /\ phase \notin {"clean", "wild"}
    /\ read # Null => Allocates(read)

\* Mutant: DumpObjCache does not ask whose pages they are.
DroppableAny(f) == file[f].kind = "page" /\ file[f].cache # "none"

\* The first in the list that CurrMod is not read from and that has pages.
Droppable(f) == file[f].kind = "page" /\ file[f].cache # "none" /\ currMod # f
HasPages(f) == \E p \in Pages(f) : file[f].page[p] # Null
Drops(i) ==
    /\ Droppable(CachedFiles[i]) /\ (HasPages(CachedFiles[i]) \/ Freed(file[CachedFiles[i]]))
    /\ \A j \in 1 .. i - 1 :
          ~(Droppable(CachedFiles[j]) /\ (HasPages(CachedFiles[j]) \/ Freed(file[CachedFiles[j]])))

DumpObjCache(i) ==
    LET f == CachedFiles[i] IN
    /\ MayAllocate /\ Drops(i)
    /\ IF Freed(file[f]) THEN phase' = "wild" /\ UNCHANGED <<file, read>>
       ELSE /\ file' = [file EXCEPT ![f] = DumpFileCache(f, @, TRUE)]
            /\ read' = IF read # Null /\ f = user THEN [read EXCEPT !.robbed = TRUE] ELSE read
            /\ UNCHANGED phase
    /\ UNCHANGED <<dict, tokSize, user, stage, currMod, left, kept, option>>

\* If there are no pages: the last dictionary in the list.
DiscardDicts(i) ==
    /\ MayAllocate /\ \A j \in DOMAIN CachedFiles : ~Drops(j)
    /\ dict[ObjLibFiles[i]] = "cached"
    /\ \A j \in i + 1 .. Len(ObjLibFiles) : dict[ObjLibFiles[j]] # "cached"
    /\ dict' = [dict EXCEPT ![ObjLibFiles[i]] = "entry"]
    /\ UNCHANGED <<file, tokSize, phase, reading>>

\* A file is opened when too many are: the first handle nobody uses goes.
CleanCachedHandles(i) ==
    LET Idle(j) == file[CachedFiles[j]].handle /\ ~file[CachedFiles[j]].inUse IN
    /\ MayAllocate /\ Idle(i) /\ \A j \in 1 .. i - 1 : ~Idle(j)
    /\ file' = [file EXCEPT ![CachedFiles[i]].handle = FALSE]
    /\ UNCHANGED <<dict, tokSize, phase, reading>>

Next ==
    \/ \E f \in Files : CacheOpen(f)
    \/ \E f \in Files : \E pos \in 0 .. Length[f] - 1 : \E len \in 1 .. Length[f] - pos : \E perm \in BOOLEAN :
          f = user /\ CacheRead(pos, len, perm)
    \/ NextPage \/ EndRead \/ ClosePass1
    \/ MakeDict \/ SetDict \/ StartModule \/ EndModule
    \/ StartLibraries \/ BurnLibs \/ SetSegments \/ WalkModules \/ CleanLinkStruct \/ Restart
    \/ \E i \in DOMAIN CachedFiles : DumpObjCache(i) \/ CleanCachedHandles(i)
    \/ \E i \in DOMAIN ObjLibFiles : DiscardDicts(i)

Spec == Init /\ [][Next]_vars
-----------------------------------------------------------------------------
(* Properties.                                                             *)

TypeOK ==
    /\ \A f \in Files :
          /\ file[f].handle \in BOOLEAN /\ file[f].inUse \in BOOLEAN
          /\ file[f].kind \in {"unset", "full", "page"} /\ file[f].cache \in {"none", "memory", "freed"}
          /\ file[f].currpos \in Nat /\ file[f].pos \in 0 .. Length[f]
          /\ file[f].page \in [Pages(f) -> Nat \cup {Null}]
    /\ dict \in [Libs -> {Null, "entry", "cached"}]
    /\ tokSize \in Nat
    /\ phase \in {"objects", "libraries", "burnt", "pass2", "clean", "wild"}
    /\ user \in Files \cup {Null} /\ stage \in {"open", "typed", "module", "done"}
    /\ currMod \in Files \cup {Null} /\ left \subseteq Objects
    /\ \A k \in kept : k[1] \in Files /\ k[2] \in Pages(k[1])

\* Every read returns what the file holds there, although pages come and go and
\* a seek is left out where the file is thought to be; for a module always, for
\* a search unless its own file loses pages while they are read (CacheRead).
ReadsRight ==
    [][EndRead /\ (currMod = user \/ ~read.robbed) =>
           Result(read) = [i \in 1 .. read.len |-> read.pos + i - 1]]_vars

\* While a module is read, the pages it has pointers into (the record being
\* processed, COMDAT data that is not copied) stay (DumpObjCache, wcomdef.c:532).
KeptStays ==
    \A k \in kept : file[k[1]].cache = "memory" /\ file[k[1]].page[k[2]] # Null

\* Where a read would leave out the seek, the handle is there: also after a
\* dictionary was read, and after the handle was closed and opened again.
PositionKnown ==
    \A f \in Files : file[f].handle =>
        \A p \in Pages(f) : file[f].currpos = p * PageSize => file[f].pos = p * PageSize

\* No page is forgotten with its table, and a link leaves no handle, page or
\* table behind, whenever it is abandoned (FreeObjCache, FreeFiles).
NothingLeft ==
    /\ \A f \in Files : file[f].cache = "none" => file[f].page = NoPages(f)
    /\ phase = "clean" => \A f \in Files : ~file[f].handle /\ file[f].cache = "none"

\* Nothing looks at a table of pages after it was freed: cache is "used when
\* object file cached in mem" (h/objstruc.h:118).
TablesLive == phase # "wild"
=============================================================================
