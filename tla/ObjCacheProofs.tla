--------------------------- MODULE ObjCacheProofs ---------------------------
(***************************************************************************)
(* Theorems about ObjCache, for any list of files, any sizes of pages and  *)
(* files, any options: reads return what the files hold, pointers that a   *)
(* module keeps into pages stay good until the module has been read, and a *)
(* link leaves nothing behind.                                             *)
(***************************************************************************)
EXTENDS ObjCache, Integers, TLAPS

FileType(f) ==
    [handle : BOOLEAN, inUse : BOOLEAN, kind : {"unset", "full", "page"}, currpos : Nat, pos : 0 .. Length[f],
     cache : {"none", "memory", "freed"}, page : [Pages(f) -> Nat \cup {Null}]]

\* Where a read would leave out the seek, the handle is there.
Positioned(f, r) ==
    r.handle => \A p \in Pages(f) : r.currpos = p * PageSize => r.pos = p * PageSize

\* A page that is there holds its own part of the file.
Placed(f, page) == \A p \in Pages(f) : page[p] # Null => page[p] = p * PageSize

\* A file that is cached is cached in one way, and a full cache is whole.
FileOK(f, r) ==
    /\ r \in FileType(f)
    /\ Positioned(f, r) /\ Placed(f, r.page)
    /\ r.cache # "none" => r.kind # "unset"
    /\ r.cache = "none" => r.page = NoPages(f)
    /\ r.kind = "full" /\ r.cache = "memory" => \A p \in Pages(f) : r.page[p] # Null

ReadType == [pos : Nat, len : Nat \ {0}, perm : BOOLEAN, robbed : BOOLEAN, next : Nat]

Closed(r) == ~r.handle /\ r.cache = "none"

\* Files that are neither read nor searched are never opened.
FilesOK ==
    /\ DOMAIN file = Files /\ \A f \in Files : FileOK(f, file[f])
    /\ phase \in {"objects", "libraries", "burnt"} => \A f \in Files : file[f].cache # "freed"
    /\ \A f \in Files : f \notin Objects \cup Libs \/ phase = "clean" => Closed(file[f])

UserOK ==
    /\ user \in Objects \cup Libs \cup {Null}
    /\ user # Null => /\ phase \in {"objects", "libraries"}
                      /\ file[user].handle /\ file[user].inUse /\ file[user].cache = "memory"
    /\ user # Null /\ phase = "libraries" => user \in Libs

\* The pages a read has passed are still there, unless it is a search that was
\* robbed of them.
Trusted == currMod = user \/ ~read.robbed
ReadOK ==
    /\ read \in ReadType \cup {Null}
    /\ read # Null => user # Null /\ read.pos + read.len <= Length[user]
    /\ read # Null /\ Trusted =>
          \A p \in Pages(user) : First(read) <= p /\ p < read.next => file[user].page[p] # Null

\* Only the module being read keeps pointers, and CurrMod is that module.
KeptOK ==
    /\ user # Null /\ stage = "module" => currMod = user
    /\ \A k \in kept : /\ user # Null /\ stage = "module"
                       /\ k[1] = user /\ k[2] \in Pages(user) /\ file[user].page[k[2]] # Null

\* The variables no other part speaks of
RestOK ==
    /\ dict \in [Libs -> {Null, "entry", "cached"}] /\ tokSize \in Nat
    /\ phase \in {"objects", "libraries", "burnt", "pass2", "clean", "wild"}
    /\ stage \in {"open", "typed", "module", "done"}
    /\ currMod \in Files \cup {Null} /\ left \subseteq Objects

IInv == FilesOK /\ UserOK /\ ReadOK /\ KeptOK /\ RestOK
-----------------------------------------------------------------------------
(* Pages.                                                                  *)

LEMMA DivRange ==
    ASSUME NEW a \in Nat, NEW n \in Nat \ {0}
    PROVE  a \div n \in Nat /\ (a \div n) * n <= a /\ a < (a \div n) * n + n
<1>1. a = n * (a \div n) + (a % n) /\ a % n \in 0 .. n - 1 /\ a \div n \in Int
  OBVIOUS
<1>2. a \div n \in Nat
  OBVIOUS
<1> QED BY <1>1, <1>2

LEMMA DivMod ==
    ASSUME NEW a \in Nat, NEW n \in Nat \ {0}
    PROVE  (a \div n) * n + (a % n) = a
<1>1. a = n * (a \div n) + (a % n) /\ a % n \in 0 .. n - 1 /\ a \div n \in Int
  OBVIOUS
<1>2. n * (a \div n) = (a \div n) * n
  BY <1>1
<1> QED BY <1>1, <1>2

\* The page of a cell of a file is one of its pages.
LEMMA PageOfCell ==
    ASSUME NEW f \in Files, NEW q \in Nat, q < Length[f]
    PROVE  q \div PageSize \in Pages(f)
<1> DEFINE a == q \div PageSize
           b == (Length[f] + PageSize - 1) \div PageSize
<1>1. PageSize \in Nat \ {0} /\ Length[f] \in Nat \ {0}
  BY ObjCacheAssumption
<1>2. Length[f] + PageSize - 1 \in Nat
  BY <1>1
<1>3. a \in Nat /\ a * PageSize <= q
  BY <1>1, DivRange
<1>4. b \in Nat /\ Length[f] + PageSize - 1 < b * PageSize + PageSize
  BY <1>1, <1>2, DivRange
<1>5. ~(b <= a)
  <2> SUFFICES ASSUME b <= a PROVE FALSE
    OBVIOUS
  <2>1. b * PageSize <= a * PageSize
    <3>1. a - b \in Nat
      BY <1>3, <1>4
    <3>2. (a - b) * PageSize \in Nat
      BY <3>1, <1>1
    <3>3. (a - b) * PageSize = a * PageSize - b * PageSize
      BY <1>1, <1>3, <1>4
    <3>4. a * PageSize \in Nat /\ b * PageSize \in Nat
      BY <1>1, <1>3, <1>4
    <3> HIDE DEF a, b
    <3> QED BY <3>2, <3>3, <3>4
  <2>2. a * PageSize \in Nat /\ b * PageSize \in Nat
    BY <1>1, <1>3, <1>4
  <2> HIDE DEF a, b
  <2> QED BY <2>1, <2>2, <1>1, <1>3, <1>4
<1>6. a \in 0 .. b - 1
  BY <1>3, <1>4, <1>5
<1> QED BY <1>6 DEF Pages, NumCacheBlocks

\* The pages of a file have no gap.
LEMMA PageBelow ==
    ASSUME NEW f \in Files, NEW q \in Pages(f), NEW p \in Nat, p <= q
    PROVE  p \in Pages(f)
<1> DEFINE b == NumCacheBlocks(f)
<1>1. PageSize \in Nat \ {0} /\ Length[f] \in Nat \ {0}
  BY ObjCacheAssumption
<1>2. Length[f] + PageSize - 1 \in Nat
  BY <1>1
<1>3. b \in Nat
  BY <1>1, <1>2, DivRange DEF NumCacheBlocks
<1>4. Pages(f) = 0 .. b - 1
  BY DEF Pages
<1> HIDE DEF b
<1> QED BY <1>3, <1>4
\* A page begins inside the file.
LEMMA PageInside ==
    ASSUME NEW f \in Files, NEW p \in Pages(f)
    PROVE  p \in Nat /\ p * PageSize \in Nat /\ p * PageSize < Length[f]
<1> DEFINE b == NumCacheBlocks(f)
           x == p * PageSize
           y == b * PageSize
<1>1. PageSize \in Nat \ {0} /\ Length[f] \in Nat \ {0}
  BY ObjCacheAssumption
<1>2. Length[f] + PageSize - 1 \in Nat
  BY <1>1
<1>3. b \in Nat /\ y <= Length[f] + PageSize - 1 /\ y \in Nat
  BY <1>1, <1>2, DivRange DEF NumCacheBlocks
<1> HIDE DEF b
<1>4. p \in Nat /\ b - p - 1 \in Nat
  BY <1>3 DEF Pages, b
<1>5. x \in Nat /\ (b - p - 1) * PageSize \in Nat
  BY <1>1, <1>4
<1>6. (b - p - 1) * PageSize = y - x - PageSize
  BY <1>1, <1>3, <1>4
<1> HIDE DEF x, y
<1>7. x < Length[f]
  BY <1>1, <1>3, <1>5, <1>6
<1> QED BY <1>4, <1>5, <1>7 DEF x

LEMMA FirstPage == ASSUME NEW f \in Files PROVE 0 \in Pages(f)
<1>1. Length[f] \in Nat \ {0} /\ PageSize \in Nat \ {0}
  BY ObjCacheAssumption
<1>2. 0 \div PageSize \in Pages(f)
  BY <1>1, PageOfCell
<1>3. 0 \div PageSize = 0
  <2> DEFINE d == 0 \div PageSize
  <2>1. d \in Nat /\ d * PageSize <= 0
    BY <1>1, DivRange
  <2> HIDE DEF d
  <2>2. ~(d >= 1)
    <3> SUFFICES ASSUME d >= 1 PROVE FALSE
      OBVIOUS
    <3>1. d - 1 \in Nat /\ (d - 1) * PageSize \in Nat
      BY <2>1, <1>1
    <3>2. (d - 1) * PageSize = d * PageSize - PageSize /\ d * PageSize \in Int
      BY <2>1, <1>1
    <3> QED BY <3>1, <3>2, <2>1, <1>1
  <2>3. d = 0
    BY <2>1, <2>2
  <2> QED BY <2>3 DEF d
<1> QED BY <1>2, <1>3
-----------------------------------------------------------------------------
(* Files.                                                                  *)

LEMMA SmallerNat == ASSUME NEW a \in Nat, NEW b \in Nat PROVE Smaller(a, b) \in 0 .. b
BY DEF Smaller

LEMMA AllocOK == ASSUME NEW f \in Files PROVE FileOK(f, AllocEntry(f)) /\ Closed(AllocEntry(f))
BY ObjCacheAssumption DEF FileOK, FileType, Positioned, Placed, Closed, AllocEntry, NoPages

\* CacheOpen leaves the file open and a cache in memory.
LEMMA OpenOK ==
    ASSUME NEW f \in Files, FileOK(f, file[f]), file[f].cache # "freed"
    PROVE  /\ FileOK(f, OpenedFile(f)) /\ OpenedFile(f).cache = "memory"
           /\ OpenedFile(f).handle /\ OpenedFile(f).inUse
<1> DEFINE r == DoObjOpen(file[f])
           s == [r EXCEPT !.inUse = TRUE, !.kind = IF @ = "unset" THEN KindOf(f) ELSE @]
<1>0. Length[f] \in Nat /\ PageSize \in Nat
  BY ObjCacheAssumption
<1>1. /\ r \in FileType(f) /\ r.cache = file[f].cache /\ r.kind = file[f].kind /\ r.page = file[f].page
      /\ r.handle /\ Positioned(f, r)
  <2>1. CASE file[f].handle
    BY <2>1 DEF FileOK, FileType, DoObjOpen
  <2>2. CASE ~file[f].handle
    <3>1. r = [file[f] EXCEPT !.handle = TRUE, !.currpos = 0, !.pos = 0]
      BY <2>2 DEF DoObjOpen
    <3> HIDE DEF r
    <3>2. 0 \in 0 .. Length[f] /\ 0 \in Nat
      BY <1>0
    <3>3. /\ r \in FileType(f) /\ r.cache = file[f].cache /\ r.kind = file[f].kind /\ r.page = file[f].page
          /\ r.handle /\ r.currpos = 0 /\ r.pos = 0
      BY <3>1, <3>2 DEF FileOK, FileType
    <3> QED BY <3>3 DEF Positioned
  <2> QED BY <2>1, <2>2
<1>2. KindOf(f) \in {"full", "page"}
  BY DEF KindOf
<1>3. /\ s \in FileType(f) /\ s.kind \in {"full", "page"} /\ s.cache = r.cache /\ s.page = r.page
      /\ (r.kind # "unset" => s.kind = r.kind) /\ s.handle /\ s.inUse /\ Positioned(f, s)
  <2> HIDE DEF r
  <2> QED BY <1>1, <1>2 DEF FileType, Positioned
<1>4. OpenedFile(f) = IF s.cache = "none" THEN MakeCache(f, s) ELSE s
  BY DEF OpenedFile
<1>5. CASE s.cache # "none"
  <2>1. OpenedFile(f) = s
    BY <1>4, <1>5
  <2>2. s.cache = "memory"
    BY <1>1, <1>3, <1>5 DEF FileType
  <2>3. r.kind # "unset" /\ Placed(f, s.page)
    BY <1>1, <1>3, <1>5 DEF FileOK
  <2>4. s.kind = "full" => \A p \in Pages(f) : s.page[p] # Null
    BY <1>1, <1>3, <2>2, <2>3 DEF FileOK
  <2> HIDE DEF s
  <2> QED BY <1>3, <2>1, <2>2, <2>3, <2>4 DEF FileOK
<1>6. CASE s.cache = "none"
  <2>1. OpenedFile(f) = MakeCache(f, s)
    BY <1>4, <1>6
  <2>5. Placed(f, s.page)
    BY <1>1, <1>3 DEF FileOK
  <2> HIDE DEF s
  <2>2. CASE s.kind = "page"
    <3> DEFINE t == MakeCache(f, s)
    <3>1. t = [s EXCEPT !.cache = "memory"]
      BY <2>2 DEF MakeCache
    <3> HIDE DEF t
    <3> QED BY <1>3, <2>1, <2>2, <2>5, <3>1 DEF FileOK, FileType, Positioned, t
  <2>3. CASE s.kind = "full"
    <3> DEFINE start == IF s.currpos # 0 THEN 0 ELSE s.pos
               stop == Smaller(start + Length[f], Length[f])
               new == [p \in Pages(f) |-> start + p * PageSize]
               t == MakeCache(f, s)
    <3>1. start = 0
      <4>1. s.currpos = 0 * PageSize => s.pos = 0 * PageSize
        BY <1>3, FirstPage DEF Positioned
      <4> QED BY <4>1, <1>0
    <3>2. t = [s EXCEPT !.cache = "memory", !.currpos = Length[f], !.pos = stop, !.page = new]
      BY <2>3 DEF MakeCache
    <3> HIDE DEF start, t
    <3>3. \A p \in Pages(f) : new[p] = p * PageSize /\ new[p] \in Nat /\ new[p] # Null
      <4> TAKE p \in Pages(f)
      <4>1. p * PageSize \in Nat
        BY PageInside
      <4>2. start + p * PageSize = p * PageSize
        BY <3>1, <4>1
      <4> QED BY <4>1, <4>2, ObjCacheAssumption
    <3>4. new \in [Pages(f) -> Nat \cup {Null}] /\ Placed(f, new)
      BY <3>3 DEF Placed
    <3>5. stop \in 0 .. Length[f]
      <4>1. start + Length[f] \in Nat
        BY <1>0, <3>1
      <4> QED BY <1>0, <4>1, SmallerNat
    <3> HIDE DEF stop, new
    <3>6. /\ t \in FileType(f) /\ t.cache = "memory" /\ t.page = new /\ t.kind = "full"
          /\ t.handle /\ t.inUse /\ t.currpos = Length[f]
      BY <1>0, <1>3, <2>3, <3>2, <3>4, <3>5 DEF FileType
    <3> HIDE DEF t
    <3>7. Positioned(f, t)
      <4>1. \A p \in Pages(f) : p * PageSize \in Nat /\ p * PageSize < Length[f]
        BY PageInside
      <4> QED BY <1>0, <3>6, <4>1 DEF Positioned
    <3>8. FileOK(f, t)
      BY <3>3, <3>4, <3>6, <3>7 DEF FileOK
    <3> QED BY <2>1, <3>6, <3>8 DEF t
  <2> QED BY <1>3, <2>2, <2>3
<1> QED BY <1>5, <1>6

LEMMA DumpOK ==
    ASSUME NEW f \in Files, NEW r, FileOK(f, r), r.kind = "page" \/ r.cache = "none", NEW nuke \in BOOLEAN
    PROVE  /\ FileOK(f, DumpFileCache(f, r, nuke)) /\ DumpFileCache(f, r, nuke).cache = r.cache
           /\ DumpFileCache(f, r, nuke).kind = r.kind /\ DumpFileCache(f, r, nuke).handle = r.handle
           /\ nuke => DumpFileCache(f, r, nuke).page = NoPages(f)
<1> DEFINE new == [p \in Pages(f) |-> IF ~nuke /\ p = r.currpos \div PageSize THEN r.page[p] ELSE Null]
<1>1. /\ new \in [Pages(f) -> Nat \cup {Null}] /\ Placed(f, new)
      /\ nuke => new = NoPages(f)
  BY DEF FileOK, FileType, Placed, NoPages
<1>2. DumpFileCache(f, r, nuke) = IF r.cache = "none" THEN r ELSE [r EXCEPT !.page = new]
  BY DEF DumpFileCache
<1> HIDE DEF new
<1>3. CASE r.cache = "none"
  BY <1>2, <1>3 DEF FileOK
<1>4. CASE r.cache # "none"
  <2> DEFINE d == DumpFileCache(f, r, nuke)
  <2>1. d = [r EXCEPT !.page = new]
    BY <1>2, <1>4
  <2> HIDE DEF d
  <2>2. /\ d \in FileType(f) /\ d.cache = r.cache /\ d.kind = r.kind /\ d.page = new /\ d.handle = r.handle
        /\ d.currpos = r.currpos /\ d.pos = r.pos
    BY <1>1, <2>1 DEF FileOK, FileType
  <2>3. Positioned(f, d)
    BY <2>2 DEF FileOK, Positioned
  <2> QED BY <1>1, <1>4, <2>2, <2>3 DEF FileOK, d
<1> QED BY <1>3, <1>4

LEMMA FreeOK ==
    ASSUME NEW f \in Files, NEW r, FileOK(f, r)
    PROVE  /\ FileOK(f, FreeObjCache(f, r)) /\ FreeObjCache(f, r).cache = "none"
           /\ FreeObjCache(f, r).handle = r.handle
<1>0. NoPages(f) \in [Pages(f) -> Nat \cup {Null}] /\ Placed(f, NoPages(f))
  BY DEF NoPages, Placed
<1> DEFINE t == FreeObjCache(f, r)
<1>1. CASE r.kind = "full"
  <2>1. t = [r EXCEPT !.page = NoPages(f), !.cache = "none"]
    BY <1>1 DEF FreeObjCache, FileOK, FileType
  <2> HIDE DEF t
  <2>2. /\ t \in FileType(f) /\ t.cache = "none" /\ t.page = NoPages(f) /\ t.handle = r.handle
        /\ t.currpos = r.currpos /\ t.pos = r.pos
    BY <1>0, <2>1 DEF FileOK, FileType
  <2> QED BY <1>0, <2>2 DEF FileOK, Positioned, t
<1>2. CASE r.kind # "full"
  <2> DEFINE d == DumpFileCache(f, r, TRUE)
  <2>1. r.kind = "page" \/ r.cache = "none"
    BY <1>2 DEF FileOK, FileType
  <2>2. FileOK(f, d) /\ d.page = NoPages(f) /\ d.handle = r.handle
    BY <2>1, DumpOK
  <2>3. t = [d EXCEPT !.cache = "none"]
    BY <1>2 DEF FreeObjCache
  <2> HIDE DEF d, t
  <2>4. /\ t \in FileType(f) /\ t.cache = "none" /\ t.page = NoPages(f) /\ t.handle = r.handle
        /\ t.currpos = d.currpos /\ t.pos = d.pos
    BY <2>2, <2>3 DEF FileOK, FileType
  <2> QED BY <1>0, <2>2, <2>4 DEF FileOK, Positioned, t
<1> QED BY <1>1, <1>2

LEMMA CloseOK ==
    ASSUME NEW f \in Files, NEW r, FileOK(f, r), NEW pass \in {1, 3}
    PROVE  /\ FileOK(f, CacheClose(f, r, pass)) /\ CacheClose(f, r, pass).cache \in {"none", r.cache}
           /\ pass = 3 \/ Closed(r) => Closed(CacheClose(f, r, pass))
<1> DEFINE s == [r EXCEPT !.inUse = FALSE]
<1>1. FileOK(f, s) /\ s.cache = r.cache /\ s.kind = r.kind /\ s.handle = r.handle
  BY DEF FileOK, FileType, Positioned
<1>2. /\ FileOK(f, FreeObjCache(f, s)) /\ FreeObjCache(f, s).cache = "none"
      /\ FreeObjCache(f, s).handle = r.handle
  <2> HIDE DEF s
  <2> QED BY <1>1, FreeOK
<1>3. CASE pass = 3
  <2> DEFINE d == FreeObjCache(f, s)
             t == CacheClose(f, r, pass)
  <2>1. t = [d EXCEPT !.handle = FALSE]
    BY <1>3 DEF CacheClose
  <2> HIDE DEF d, t
  <2>2. /\ t \in FileType(f) /\ t.cache = "none" /\ t.page = d.page /\ t.handle = FALSE
    BY <1>2, <2>1 DEF FileOK, FileType, d
  <2>3. FileOK(f, t)
    BY <1>2, <2>2 DEF FileOK, Positioned, d
  <2> QED BY <2>2, <2>3 DEF Closed, t
<1>4. CASE pass = 1 /\ r.kind = "full"
  <2>1. CacheClose(f, r, pass) \in {s, FreeObjCache(f, s)}
    BY <1>4 DEF CacheClose
  <2> HIDE DEF s
  <2> QED BY <1>1, <1>2, <1>4, <2>1 DEF Closed
<1>5. CASE pass = 1 /\ r.kind # "full"
  <2> DEFINE nuke == f \notin IsLibrary
  <2>1. CacheClose(f, r, pass) = DumpFileCache(f, s, nuke)
    BY <1>5 DEF CacheClose
  <2>2. s.kind = "page" \/ s.cache = "none"
    BY <1>1, <1>5 DEF FileOK, FileType
  <2>3. nuke \in BOOLEAN
    OBVIOUS
  <2> HIDE DEF s, nuke
  <2>4. /\ FileOK(f, CacheClose(f, r, pass)) /\ CacheClose(f, r, pass).cache = r.cache
        /\ CacheClose(f, r, pass).handle = r.handle
    BY <1>1, <2>1, <2>2, <2>3, DumpOK
  <2> QED BY <1>5, <2>4 DEF Closed
<1> QED BY <1>3, <1>4, <1>5

LEMMA ReadPageOK ==
    ASSUME NEW f \in Files, NEW r, FileOK(f, r), r.handle, r.cache = "memory", NEW p \in Pages(f)
    PROVE  /\ FileOK(f, ReadPage(f, r, p)) /\ ReadPage(f, r, p).cache = r.cache
           /\ ReadPage(f, r, p).handle = r.handle /\ ReadPage(f, r, p).inUse = r.inUse
           /\ ReadPage(f, r, p).page[p] # Null
           /\ \A q \in Pages(f) : r.page[q] # Null => ReadPage(f, r, p).page[q] # Null
<1> DEFINE newpos == p * PageSize
           start == IF r.currpos # newpos THEN newpos ELSE r.pos
           next == newpos + PageSize
           stop == Smaller(start + PageSize, Length[f])
           new == [r.page EXCEPT ![p] = start]
           t == ReadPage(f, r, p)
<1>1. newpos \in Nat /\ PageSize \in Nat /\ Length[f] \in Nat
  BY ObjCacheAssumption, PageInside
<1>2. start = newpos
  BY DEF FileOK, Positioned
<1>3. t = [r EXCEPT !.page = new, !.currpos = next, !.pos = stop]
  BY DEF ReadPage
<1> HIDE DEF start, t
<1>4. next \in Nat /\ start + PageSize = next /\ start # Null
  BY <1>1, <1>2, ObjCacheAssumption
<1>5. stop \in 0 .. Length[f]
  BY <1>1, <1>4, SmallerNat
<1>6. \A q \in Pages(f) : next = q * PageSize => stop = q * PageSize
  <2> TAKE q \in Pages(f)
  <2>1. q * PageSize \in Nat /\ q * PageSize < Length[f]
    BY PageInside
  <2> HIDE DEF next
  <2> QED BY <1>1, <1>4, <2>1 DEF Smaller
<1>7. r.page \in [Pages(f) -> Nat \cup {Null}]
  BY DEF FileOK, FileType
<1>8. /\ new \in [Pages(f) -> Nat \cup {Null}] /\ new[p] # Null
      /\ \A q \in Pages(f) : r.page[q] # Null => new[q] # Null
  BY <1>1, <1>2, <1>4, <1>7
<1>9. Placed(f, new)
  BY <1>2, <1>7 DEF FileOK, Placed
<1> HIDE DEF next, stop, new
<1>10. /\ t \in FileType(f) /\ t.cache = r.cache /\ t.kind = r.kind /\ t.page = new
       /\ t.handle = r.handle /\ t.inUse = r.inUse /\ t.currpos = next /\ t.pos = stop
  BY <1>3, <1>4, <1>5, <1>8 DEF FileOK, FileType
<1>11. Positioned(f, t)
  BY <1>6, <1>10 DEF Positioned
<1>12. FileOK(f, t)
  BY <1>8, <1>9, <1>10, <1>11 DEF FileOK
<1> QED BY <1>8, <1>10, <1>12 DEF t
-----------------------------------------------------------------------------
(* Steps.                                                                  *)

LEMMA InitInv == Init => IInv
<1> SUFFICES ASSUME Init PROVE IInv
  OBVIOUS
<1>1. \A f \in Files : FileOK(f, AllocEntry(f)) /\ Closed(AllocEntry(f))
  BY AllocOK
<1>2. FilesOK
  BY <1>1 DEF Init, FilesOK, Closed
<1>3. RestOK
  BY ObjCacheAssumption DEF Init, RestOK
<1> QED BY <1>2, <1>3 DEF Init, IInv, UserOK, ReadOK, KeptOK

\* One file changes, and is not freed.
LEMMA UpdateOK ==
    ASSUME FilesOK, NEW f \in Files, NEW r, FileOK(f, r), r.cache \in {file[f].cache, "memory", "none"},
           f \notin Objects \cup Libs \/ phase = "clean" => Closed(r),
           file' = [file EXCEPT ![f] = r], phase' = phase
    PROVE  FilesOK'
<1>1. DOMAIN file' = Files /\ \A g \in Files : file'[g] = IF g = f THEN r ELSE file[g]
  BY DEF FilesOK
<1>2. \A g \in Files : FileOK(g, file'[g])
  BY <1>1 DEF FilesOK
<1>3. phase \in {"objects", "libraries", "burnt"} => \A g \in Files : file'[g].cache # "freed"
  BY <1>1 DEF FilesOK
<1>4. \A g \in Files : g \notin Objects \cup Libs \/ phase = "clean" => Closed(file'[g])
  BY <1>1 DEF FilesOK
<1> QED BY <1>1, <1>2, <1>3, <1>4 DEF FilesOK

\* The file in use is one of the link's.
LEMMA UserKnown == ASSUME IInv, user # Null PROVE user \in Files /\ user \in Objects \cup Libs /\ phase # "clean"
BY ObjCacheAssumption DEF IInv, UserOK

\* While nothing is read nobody keeps a pointer.
LEMMA NoneKept == ASSUME KeptOK, user = Null PROVE kept = {}
BY DEF KeptOK

LEMMA CacheOpenInv == ASSUME IInv, NEW f \in Files, CacheOpen(f) PROVE IInv'
<1>1. phase \in {"objects", "libraries"} /\ user = Null /\ read = Null
  BY DEF CacheOpen
<1>2. /\ FileOK(f, OpenedFile(f)) /\ OpenedFile(f).cache = "memory"
      /\ OpenedFile(f).handle /\ OpenedFile(f).inUse
  BY <1>1, OpenOK DEF IInv, FilesOK
<1>3. file' = [file EXCEPT ![f] = OpenedFile(f)] /\ phase' = phase
  BY DEF CacheOpen
<1>8. f \in Objects \cup Libs /\ left' \subseteq Objects
  BY DEF CacheOpen, IInv, RestOK
<1>4. FilesOK'
  BY <1>1, <1>2, <1>3, <1>8, UpdateOK DEF IInv
<1>5. file'[f] = OpenedFile(f)
  BY <1>3 DEF IInv, FilesOK
<1>6. UserOK'
  BY <1>1, <1>2, <1>3, <1>5, <1>8 DEF UserOK, CacheOpen
<1>7. ReadOK' /\ KeptOK'
  <2>1. kept' = {} /\ read' = Null /\ stage' = "open"
    BY <1>1, NoneKept DEF IInv, CacheOpen
  <2> QED BY <2>1 DEF ReadOK, KeptOK
<1>9. RestOK'
  BY <1>3, <1>8 DEF CacheOpen, IInv, RestOK
<1> QED BY <1>4, <1>6, <1>7, <1>9 DEF IInv

LEMMA ClosePass1Inv == ASSUME IInv, ClosePass1 PROVE IInv'
<1> DEFINE r == CacheClose(user, file[user], 1)
<1>1. user \in Files /\ FileOK(user, file[user]) /\ user \in Objects \cup Libs /\ phase # "clean"
  BY UserKnown DEF ClosePass1, IInv, FilesOK
<1>2. FileOK(user, r) /\ r.cache \in {"none", file[user].cache}
  BY <1>1, CloseOK
<1>3. file' = [file EXCEPT ![user] = r] /\ phase' = phase
  BY DEF ClosePass1
<1>4. FilesOK'
  <2> HIDE DEF r
  <2> QED BY <1>1, <1>2, <1>3, UpdateOK DEF IInv
<1>5. kept = {}
  BY DEF ClosePass1, IInv, KeptOK, UserOK
<1>6. UserOK' /\ ReadOK' /\ KeptOK'
  BY <1>5 DEF ClosePass1, UserOK, ReadOK, KeptOK
<1>7. RestOK'
  BY DEF ClosePass1, IInv, RestOK
<1> QED BY <1>4, <1>6, <1>7 DEF IInv

LEMMA CacheReadInv ==
    ASSUME IInv, user \in Files, NEW pos \in 0 .. Length[user] - 1, NEW len \in 1 .. Length[user] - pos,
           NEW perm \in BOOLEAN, CacheRead(pos, len, perm)
    PROVE  IInv'
<1> DEFINE last == pos + len - 1
           next == (IF file[user].kind = "full" THEN last ELSE pos) \div PageSize
<1>1. Length[user] \in Nat /\ PageSize \in Nat \ {0}
  BY ObjCacheAssumption
<1>2. pos \in Nat /\ len \in Nat \ {0} /\ last \in Nat
  BY <1>1
<1>3. next \in Nat
  BY <1>1, <1>2, DivRange
<1>4. read' = [pos |-> pos, len |-> len, perm |-> perm, robbed |-> FALSE, next |-> next]
  BY DEF CacheRead
<1>5. /\ UNCHANGED <<file, phase, user, stage, currMod, kept>>
      /\ user # Null /\ pos + len <= Length[user]
  BY DEF CacheRead
<1>6. read' \in ReadType
  <2> HIDE DEF next
  <2> QED BY <1>2, <1>3, <1>4 DEF ReadType
<1>7. \A p \in Pages(user) : First(read') <= p /\ p < read'.next => file[user].page[p] # Null
  <2>1. CASE file[user].kind = "full"
    <3>1. FileOK(user, file[user]) /\ file[user].cache = "memory"
      BY <1>5 DEF IInv, FilesOK, UserOK
    <3> QED BY <2>1, <3>1 DEF FileOK
  <2>2. CASE file[user].kind # "full"
    <3>1. next = pos \div PageSize /\ First(read') = pos \div PageSize /\ read'.next = next
      BY <1>4, <2>2 DEF First
    <3>2. \A p \in Pages(user) : p \in Int
      BY DEF Pages
    <3> HIDE DEF next
    <3> QED BY <1>3, <3>1, <3>2
  <2> QED BY <2>1, <2>2
<1>8. ReadOK'
  <2> HIDE DEF next, last
  <2>1. read'.pos = pos /\ read'.len = len
    BY <1>4
  <2>2. (First(read))' = First(read')
    BY DEF First
  <2> QED BY <1>5, <1>6, <1>7, <2>1, <2>2 DEF ReadOK
<1>9. FilesOK' /\ UserOK' /\ KeptOK' /\ RestOK'
  BY <1>5 DEF CacheRead, IInv, FilesOK, UserOK, KeptOK, RestOK
<1> QED BY <1>8, <1>9 DEF IInv

LEMMA NextPageInv == ASSUME IInv, NextPage PROVE IInv'
<1> DEFINE n == read.next
           r == ReadPage(user, file[user], n)
<1>1. /\ read \in ReadType /\ read.pos + read.len <= Length[user] /\ n <= Last(read)
      /\ user # Null /\ user \in Files /\ user \in Objects \cup Libs /\ phase # "clean"
  BY UserKnown DEF NextPage, IInv, ReadOK
<1>2. FileOK(user, file[user]) /\ file[user].handle /\ file[user].inUse /\ file[user].cache = "memory"
  BY <1>1 DEF IInv, FilesOK, UserOK
<1>3. n \in Pages(user)
  <2>1. /\ read.pos \in Nat /\ read.len \in Nat \ {0} /\ n \in Nat /\ Length[user] \in Nat
        /\ read.pos + read.len - 1 \in Nat /\ read.pos + read.len - 1 < Length[user]
    BY <1>1, ObjCacheAssumption DEF ReadType
  <2>2. Last(read) \in Pages(user)
    BY <1>1, <2>1, PageOfCell DEF Last
  <2> QED BY <1>1, <2>1, <2>2, PageBelow
<1>4. /\ read' = [read EXCEPT !.next = n + 1]
      /\ UNCHANGED <<dict, tokSize, phase, user, stage, currMod, left, kept>>
      /\ file' = IF file[user].page[n] # Null THEN file ELSE [file EXCEPT ![user] = r]
  BY DEF NextPage
<1>5. FileOK(user, r) /\ r.cache = file[user].cache /\ r.handle /\ r.inUse /\ r.page[n] # Null
      /\ \A q \in Pages(user) : file[user].page[q] # Null => r.page[q] # Null
  BY <1>1, <1>2, <1>3, ReadPageOK
<1>6. FilesOK'
  <2>1. CASE file[user].page[n] # Null
    BY <1>4, <2>1 DEF IInv, FilesOK
  <2>2. CASE file[user].page[n] = Null
    <3> HIDE DEF r
    <3> QED BY <1>1, <1>4, <1>5, <2>2, UpdateOK DEF IInv
  <2> QED BY <2>1, <2>2
<1>7. /\ file'[user].page[n] # Null /\ file'[user].cache = "memory" /\ file'[user].handle /\ file'[user].inUse
      /\ \A q \in Pages(user) : file[user].page[q] # Null => file'[user].page[q] # Null
  <2> HIDE DEF r
  <2> QED BY <1>1, <1>2, <1>4, <1>5 DEF IInv, FilesOK
<1>8. UserOK' /\ KeptOK'
  BY <1>4, <1>7 DEF IInv, UserOK, KeptOK
<1>9. ReadOK'
  <2>1. read' \in ReadType /\ read'.pos = read.pos /\ read'.len = read.len /\ read'.next = n + 1
        /\ read'.robbed = read.robbed
    BY <1>1, <1>4 DEF ReadType
  <2>2. ASSUME Trusted, NEW p \in Pages(user), First(read)' <= p, p < n + 1
        PROVE  file'[user].page[p] # Null
    <3>1. First(read)' = First(read)
      BY <2>1 DEF First
    <3>2. p \in Nat /\ n \in Nat
      BY <1>1 DEF Pages, ReadType
    <3>3. p = n \/ p < n
      BY <2>2, <3>2
    <3>4. CASE p < n
      <4>1. file[user].page[p] # Null
        BY <2>2, <3>1, <3>4 DEF IInv, ReadOK, NextPage
      <4> QED BY <4>1, <1>7
    <3> QED BY <1>7, <3>3, <3>4
  <2>3. user' = user /\ stage' = stage /\ user # Null
    BY <1>4 DEF IInv, ReadOK, NextPage
  <2>4. read' # Null => user' # Null /\ read'.pos + read'.len <= Length[user']
    BY <1>1, <2>1, <2>3
  <2>6. Trusted' <=> Trusted
    BY <1>4, <2>1 DEF Trusted
  <2>5. read' # Null /\ Trusted' =>
            \A p \in Pages(user') : First(read)' <= p /\ p < read'.next => file'[user'].page[p] # Null
    BY <2>1, <2>2, <2>3, <2>6
  <2> QED BY <2>1, <2>4, <2>5 DEF ReadOK, First
<1>10. RestOK'
  BY <1>4 DEF IInv, RestOK
<1> QED BY <1>6, <1>8, <1>9, <1>10 DEF IInv

\* A read that was not robbed ends with all its pages in place.
LEMMA ReadIn ==
    ASSUME IInv, read # Null, Trusted, read.next > Last(read)
    PROVE  /\ First(read) \in Pages(user) /\ Last(read) \in Pages(user)
           /\ \A p \in First(read) .. Last(read) : p \in Pages(user) /\ file[user].page[p] # Null
<1>1. /\ read \in ReadType /\ user \in Files /\ user # Null
      /\ read.pos + read.len <= Length[user] /\ read.next > Last(read)
  BY UserKnown DEF IInv, ReadOK
<1>2. /\ read.pos \in Nat /\ read.len \in Nat \ {0} /\ read.next \in Nat /\ Length[user] \in Nat
      /\ read.pos + read.len - 1 \in Nat /\ read.pos + read.len - 1 < Length[user] /\ read.pos < Length[user]
  BY <1>1, ObjCacheAssumption DEF ReadType
<1>3. First(read) \in Pages(user) /\ Last(read) \in Pages(user)
  BY <1>1, <1>2, PageOfCell DEF First, Last
<1>4. First(read) \in Nat /\ Last(read) \in Nat
  BY <1>3 DEF Pages
<1>5. ASSUME NEW p \in First(read) .. Last(read)
      PROVE  p \in Pages(user) /\ file[user].page[p] # Null
  <2>1. p \in Nat /\ First(read) <= p /\ p <= Last(read) /\ p < read.next
    BY <1>1, <1>2, <1>4
  <2>2. p \in Pages(user)
    BY <1>1, <1>3, <2>1, PageBelow
  <2> QED BY <1>1, <2>1, <2>2 DEF IInv, ReadOK
<1> QED BY <1>3, <1>5

LEMMA EndReadInv == ASSUME IInv, EndRead PROVE IInv'
<1>1. /\ read \in ReadType /\ user \in Files /\ user # Null /\ read # Null
      /\ read.pos + read.len <= Length[user] /\ read.next > Last(read)
  BY UserKnown DEF EndRead, IInv, ReadOK
<1>2. UNCHANGED <<file, phase, user, currMod>> /\ read' = Null
  BY DEF EndRead
<1>3. stage' = "module" <=> stage = "module"
  BY DEF EndRead
<1>5. ASSUME stage = "module", NEW p \in Pointed(read)
      PROVE  p \in Pages(user) /\ file[user].page[p] # Null
  <2>1. Trusted
    BY <1>1, <1>5 DEF IInv, KeptOK, Trusted
  <2>2. p \in First(read) .. Last(read)
    BY DEF Pointed
  <2> QED BY <1>1, <2>1, <2>2, ReadIn
<1>6. FilesOK' /\ UserOK' /\ ReadOK'
  BY <1>2 DEF IInv, FilesOK, UserOK, ReadOK
<1>7. KeptOK'
  <2>1. ASSUME NEW k \in kept'
        PROVE  stage = "module" /\ k[1] = user /\ k[2] \in Pages(user) /\ file[user].page[k[2]] # Null
    <3>1. CASE k \in kept
      BY <3>1 DEF IInv, KeptOK
    <3>2. CASE k \notin kept
      <4>1. stage = "module" /\ k \in {<<user, p>> : p \in Pointed(read)}
        BY <2>1, <3>2 DEF EndRead
      <4>2. PICK p \in Pointed(read) : k = <<user, p>>
        BY <4>1
      <4> QED BY <1>5, <4>1, <4>2
    <3> QED BY <3>1, <3>2
  <2>2. user # Null /\ stage = "module" => currMod = user
    BY DEF IInv, KeptOK
  <2> QED BY <1>1, <1>2, <1>3, <2>1, <2>2 DEF KeptOK
<1>8. RestOK'
  <2>1. tokSize' \in Nat
    <3>1. read.len \in Nat \ {0} /\ SectorSize \in Nat \ {0} /\ read.len + SectorSize - 1 \in Nat
      BY <1>1, ObjCacheAssumption DEF ReadType
    <3> DEFINE sectors == (read.len + SectorSize - 1) \div SectorSize
    <3>2. sectors \in Nat
      BY <3>1, DivRange
    <3> HIDE DEF sectors
    <3>3. sectors * SectorSize \in Nat
      BY <3>1, <3>2
    <3> QED BY <3>3 DEF EndRead, IInv, RestOK, sectors
  <2> QED BY <2>1 DEF EndRead, IInv, RestOK
<1> QED BY <1>6, <1>7, <1>8 DEF IInv

LEMMA SetDictInv == ASSUME IInv, SetDict PROVE IInv'
<1> DEFINE r == file[user]
<1>1. /\ user # Null /\ user \in Files /\ user \in Libs \ ArLibs /\ read = Null /\ stage # "module" /\ phase # "clean"
      /\ phase' = phase /\ user' = user /\ stage' = stage /\ read' = Null /\ currMod' = currMod /\ kept' = kept
  BY UserKnown DEF SetDict, Between, reading, IInv, UserOK
<1>2. /\ DictStart[user] \in Nat /\ DictSize[user] \in Nat /\ Length[user] \in Nat
      /\ DictStart[user] + DictSize[user] <= Length[user]
  BY <1>1, ObjCacheAssumption
<1>3. PICK x \in 0 .. Length[user] : file' = [file EXCEPT ![user].pos = x, ![user].currpos = x]
  <2>1. /\ DictStart[user] + DictSize[user] \in 0 .. Length[user]
        /\ \A n \in 1 .. DictSize[user] : DictStart[user] + n \in 0 .. Length[user]
    BY <1>2
  <2>2. CASE file' = [file EXCEPT ![user].pos = DictStart[user] + DictSize[user],
                                  ![user].currpos = DictStart[user] + DictSize[user]]
    BY <2>1, <2>2
  <2>3. CASE \E n \in 1 .. DictSize[user] :
                file' = [file EXCEPT ![user].pos = DictStart[user] + n, ![user].currpos = DictStart[user] + n]
    BY <2>1, <2>3
  <2> QED BY <2>2, <2>3 DEF SetDict
<1> DEFINE t == [r EXCEPT !.pos = x, !.currpos = x]
<1>4. FileOK(user, r)
  BY <1>1 DEF IInv, FilesOK
<1>5. FileOK(user, t) /\ t.cache = r.cache /\ t.handle = r.handle /\ t.inUse = r.inUse
  <2>1. /\ t \in FileType(user) /\ t.cache = r.cache /\ t.handle = r.handle /\ t.inUse = r.inUse
        /\ t.kind = r.kind /\ t.page = r.page /\ t.pos = x /\ t.currpos = x
    <3>1. x \in Nat
      BY <1>2
    <3> HIDE DEF r
    <3> QED BY <1>4, <3>1 DEF FileOK, FileType
  <2> HIDE DEF t, r
  <2> QED BY <1>4, <2>1 DEF FileOK, Positioned
<1>6. file' = [file EXCEPT ![user] = t]
  BY <1>1, <1>3 DEF IInv, FilesOK
<1>7. /\ FilesOK' /\ file'[user].cache = r.cache /\ file'[user].handle = r.handle
      /\ file'[user].inUse = r.inUse
  <2> HIDE DEF t
  <2> QED BY <1>1, <1>5, <1>6, UpdateOK DEF IInv, FilesOK
<1>8. UserOK'
  BY <1>1, <1>7 DEF IInv, UserOK
<1>9. ReadOK' /\ KeptOK'
  BY <1>1 DEF IInv, ReadOK, KeptOK
<1>10. RestOK'
  BY <1>1 DEF SetDict, reading, IInv, RestOK
<1> QED BY <1>7, <1>8, <1>9, <1>10 DEF IInv

\* Steps of the clients that leave the files alone.
LEMMA ClientInv ==
    ASSUME IInv, MakeDict \/ StartModule \/ EndModule \/ StartLibraries \/ WalkModules \/ UNCHANGED vars
    PROVE  IInv'
<1>0. UNCHANGED <<file, tokSize, user, left, read>>
  BY DEF MakeDict, StartModule, EndModule, StartLibraries, WalkModules, vars, reading
<1>1. FilesOK'
  <2>1. phase' = phase \/ (phase = "objects" /\ phase' = "libraries")
    BY DEF MakeDict, StartModule, EndModule, StartLibraries, WalkModules, vars, reading
  <2> QED BY <1>0, <2>1 DEF IInv, FilesOK
<1>2. UserOK' /\ ReadOK' /\ KeptOK'
  <2>1. CASE MakeDict
    BY <1>0, <2>1 DEF MakeDict, Between, reading, IInv, UserOK, ReadOK, KeptOK
  <2>2. CASE StartModule
    BY <1>0, <2>2 DEF StartModule, Between, IInv, UserOK, ReadOK, KeptOK
  <2>3. CASE EndModule
    BY <1>0, <2>3 DEF EndModule, Between, IInv, UserOK, ReadOK, KeptOK
  <2>4. CASE StartLibraries
    <3>1. user = Null /\ read = Null /\ kept = {}
      BY <2>4, NoneKept DEF StartLibraries, IInv, ReadOK
    <3> QED BY <1>0, <2>4, <3>1 DEF StartLibraries, reading, IInv, UserOK, ReadOK, KeptOK
  <2>5. CASE WalkModules
    <3>1. user = Null /\ read = Null /\ kept = {}
      BY <2>5, NoneKept DEF WalkModules, IInv, UserOK, ReadOK
    <3> QED BY <1>0, <2>5, <3>1 DEF WalkModules, IInv, UserOK, ReadOK, KeptOK
  <2>6. CASE UNCHANGED vars
    BY <1>0, <2>6 DEF vars, reading, IInv, UserOK, ReadOK, KeptOK, Trusted, First
  <2> QED BY <2>1, <2>2, <2>3, <2>4, <2>5, <2>6
<1>3. RestOK'
  <2>1. CASE MakeDict
    BY <2>1 DEF MakeDict, reading, IInv, RestOK
  <2>2. CASE StartModule
    BY <2>2, UserKnown DEF StartModule, Between, IInv, RestOK
  <2>3. CASE EndModule
    BY <2>3 DEF EndModule, IInv, RestOK
  <2>4. CASE StartLibraries
    BY <2>4 DEF StartLibraries, reading, IInv, RestOK
  <2>5. CASE WalkModules
    BY <2>5, ObjCacheAssumption DEF WalkModules, IInv, RestOK
  <2>6. CASE UNCHANGED vars
    BY <2>6 DEF vars, reading, IInv, RestOK
  <2> QED BY <2>1, <2>2, <2>3, <2>4, <2>5, <2>6
<1> QED BY <1>1, <1>2, <1>3 DEF IInv

\* Nothing is under way: only the files matter.
LEMMA IdleInv ==
    ASSUME IInv, FilesOK', RestOK', user' = Null, read' = Null, kept' = {}
    PROVE  IInv'
BY DEF IInv, UserOK, ReadOK, KeptOK

LEMMA BurntOK ==
    ASSUME FilesOK, NEW f \in Files
    PROVE  /\ FileOK(f, BurntFiles[f]) /\ BurntFiles[f].cache \in {"none", file[f].cache}
           /\ f \notin Libs => BurntFiles[f] = file[f]
<1>1. FileOK(f, file[f])
  BY DEF FilesOK
<1>2. FileOK(f, FreeObjCache(f, file[f])) /\ FreeObjCache(f, file[f]).cache = "none"
  BY <1>1, FreeOK
<1>3. BurntFiles[f] \in {file[f], FreeObjCache(f, file[f])} /\ (f \notin Libs => BurntFiles[f] = file[f])
  BY DEF BurntFiles
<1> QED BY <1>1, <1>2, <1>3

LEMMA BurnLibsInv == ASSUME IInv, BurnLibs PROVE IInv'
<1>1. user = Null /\ phase = "libraries" /\ phase' = "burnt" /\ file' = BurntFiles /\ user' = user /\ read' = read /\ kept' = kept
  BY DEF BurnLibs, reading
<1>2. DOMAIN BurntFiles = Files
  BY DEF BurntFiles
<1>3. FilesOK'
  <2>1. \A f \in Files : /\ FileOK(f, file'[f]) /\ file'[f].cache # "freed"
                         /\ f \notin Libs => file'[f] = file[f]
    BY <1>1, BurntOK DEF IInv, FilesOK
  <2> QED BY <1>1, <1>2, <2>1 DEF IInv, FilesOK
<1>4. read = Null /\ kept = {}
  BY <1>1, NoneKept DEF IInv, ReadOK
<1>5. RestOK'
  BY <1>1 DEF BurnLibs, reading, IInv, RestOK
<1> QED BY <1>1, <1>3, <1>4, <1>5, IdleInv

LEMMA SetSegmentsInv == ASSUME IInv, SetSegments PROVE IInv'
<1>1. user = Null
  BY DEF SetSegments, IInv, UserOK
<1>2. phase' = "pass2" /\ user' = user /\ read' = read /\ kept' = kept
  BY DEF SetSegments, reading
<1>3. FilesOK'
  <2>1. DOMAIN file' = Files
    BY DEF SetSegments
  <2>2. ASSUME NEW f \in Files
        PROVE  FileOK(f, file'[f]) /\ (f \notin Objects \cup Libs => Closed(file'[f]))
    <3>1. FileOK(f, file[f]) /\ (f \notin Objects \cup Libs => Closed(file[f]))
      BY DEF IInv, FilesOK
    <3>2. CASE file[f].kind = "page" /\ file[f].cache = "memory" /\ file'[f] = [file[f] EXCEPT !.cache = "freed"]
      <4> DEFINE t == file'[f]
      <4>1. /\ t \in FileType(f) /\ t.cache = "freed" /\ t.kind = "page" /\ t.page = file[f].page
            /\ t.handle = file[f].handle /\ t.pos = file[f].pos /\ t.currpos = file[f].currpos
        BY <3>1, <3>2 DEF FileOK, FileType
      <4> HIDE DEF t
      <4>2. FileOK(f, t)
        BY <3>1, <4>1 DEF FileOK, Positioned
      <4> QED BY <3>1, <3>2, <4>2 DEF t, Closed
    <3>3. CASE file'[f] = file[f]
      BY <3>1, <3>3
    <3> QED BY <3>2, <3>3 DEF SetSegments
  <2> QED BY <1>2, <2>1, <2>2 DEF FilesOK
<1>4. read = Null /\ kept = {}
  BY <1>1, NoneKept DEF IInv, ReadOK
<1>5. RestOK'
  BY DEF SetSegments, reading, IInv, RestOK
<1> QED BY <1>1, <1>2, <1>3, <1>4, <1>5, IdleInv

LEMMA CleanLinkStructInv == ASSUME IInv, CleanLinkStruct PROVE IInv'
<1>1. user' = Null /\ read' = Null /\ kept' = {} /\ phase' \in {"wild", "clean"} /\ DOMAIN file' = Files
  BY DEF CleanLinkStruct
<1>2. ASSUME NEW f \in Files PROVE FileOK(f, file'[f]) /\ Closed(file'[f])
  <2>1. FileOK(f, file[f]) /\ (f \notin Objects \cup Libs => Closed(file[f]))
    BY DEF IInv, FilesOK
  <2>2. FileOK(f, BurntFiles[f])
    BY BurntOK DEF IInv
  <2>3. FileOK(f, CacheClose(f, BurntFiles[f], 3)) /\ Closed(CacheClose(f, BurntFiles[f], 3))
    BY <2>2, CloseOK
  <2>4. file'[f] = IF f \in Objects \cup Libs THEN CacheClose(f, BurntFiles[f], 3) ELSE file[f]
    BY DEF CleanLinkStruct
  <2> QED BY <2>1, <2>3, <2>4
<1>3. FilesOK'
  BY <1>1, <1>2 DEF FilesOK
<1>4. RestOK'
  BY <1>1 DEF CleanLinkStruct, IInv, RestOK
<1> QED BY <1>1, <1>3, <1>4, IdleInv

LEMMA RestartInv == ASSUME IInv, Restart PROVE IInv'
<1>1. user = Null
  BY DEF Restart, IInv, UserOK
<1>2. read = Null /\ kept = {}
  BY <1>1, NoneKept DEF IInv, ReadOK
<1>3. FilesOK'
  <2>1. file' = [f \in Files |-> AllocEntry(f)] /\ phase' = "objects"
    BY DEF Restart
  <2>2. \A f \in Files : FileOK(f, AllocEntry(f)) /\ Closed(AllocEntry(f))
    BY AllocOK
  <2> QED BY <2>1, <2>2 DEF FilesOK, Closed
<1>4. RestOK'
  BY DEF Restart, IInv, RestOK
<1> QED BY <1>1, <1>2, <1>3, <1>4, IdleInv DEF Restart

\* Pages go from files that the current module is not read from.
LEMMA DumpObjCacheInv == ASSUME IInv, NEW i \in DOMAIN CachedFiles, DumpObjCache(i) PROVE IInv'
<1> DEFINE f == CachedFiles[i]
           r == DumpFileCache(f, file[f], TRUE)
<1>1. f \in Files /\ file[f].kind = "page" /\ file[f].cache # "none" /\ currMod # f
  BY DEF DumpObjCache, Drops, Droppable, Files
<1>2. FileOK(f, file[f])
  BY <1>1 DEF IInv, FilesOK
<1>3. UNCHANGED <<user, stage, currMod, kept>> /\ phase # "clean"
  BY DEF DumpObjCache, MayAllocate
<1>6. RestOK'
  BY DEF DumpObjCache, IInv, RestOK
<1>7. f \in Objects \cup Libs
  BY <1>1 DEF IInv, FilesOK, Closed
<1>4. CASE Freed(file[f])
  <2>1. phase' = "wild" /\ UNCHANGED <<file, read>> /\ file[f].cache = "freed"
    BY <1>4 DEF DumpObjCache, Freed
  <2>2. user = Null
    BY <1>1, <2>1 DEF IInv, FilesOK, UserOK
  <2>3. read = Null /\ kept = {}
    BY <2>2, NoneKept DEF IInv, ReadOK
  <2>4. FilesOK'
    BY <1>3, <2>1 DEF IInv, FilesOK
  <2> QED BY <1>3, <1>6, <2>1, <2>2, <2>3, <2>4, IdleInv
<1>5. CASE ~Freed(file[f])
  <2>1. /\ file' = [file EXCEPT ![f] = r] /\ phase' = phase
        /\ read' = IF read # Null /\ f = user THEN [read EXCEPT !.robbed = TRUE] ELSE read
    BY <1>5 DEF DumpObjCache
  <2>2. FileOK(f, r) /\ r.cache = file[f].cache /\ r.handle = file[f].handle /\ r.inUse = file[f].inUse
    <3>1. FileOK(f, r) /\ r.cache = file[f].cache /\ r.handle = file[f].handle
      BY <1>1, <1>2, DumpOK
    <3>2. r.inUse = file[f].inUse
      BY <1>2 DEF DumpFileCache, FileOK, FileType
    <3> QED BY <3>1, <3>2
  <2> HIDE DEF r
  <2>3. FilesOK'
    BY <1>1, <1>3, <1>7, <2>1, <2>2, UpdateOK DEF IInv
  <2>4. \A g \in Files : /\ file'[g].cache = file[g].cache /\ file'[g].handle = file[g].handle
                         /\ file'[g].inUse = file[g].inUse /\ (g # f => file'[g] = file[g])
    BY <1>1, <2>1, <2>2 DEF IInv, FilesOK
  <2>5. UserOK'
    BY <1>3, <2>1, <2>4, ObjCacheAssumption DEF IInv, UserOK
  <2>6. user \in Files /\ currMod = user => file'[user] = file[user]
    BY <1>1, <2>4
  <2>7. KeptOK'
    BY <1>3, <2>6, UserKnown DEF IInv, KeptOK
  <2>8. read # Null => /\ read' \in ReadType /\ read'.pos = read.pos /\ read'.len = read.len
                       /\ read'.next = read.next /\ read'.robbed = (read.robbed \/ f = user)
    BY <2>1 DEF IInv, ReadOK, ReadType
  <2>9. ReadOK'
    <3>1. CASE read = Null
      BY <2>1, <3>1 DEF ReadOK
    <3>2. CASE read # Null
      <4>1. user # Null /\ user \in Files /\ user' = user /\ stage' = stage
        BY <1>3, <3>2, UserKnown DEF IInv, ReadOK
      <4>2. read'.pos + read'.len <= Length[user]
        BY <2>8, <3>2 DEF IInv, ReadOK
      <4>3. First(read)' = First(read)
        BY <2>8, <3>2 DEF First
      <4>4. Trusted' =>
                \A p \in Pages(user) : First(read) <= p /\ p < read.next => file'[user].page[p] # Null
        <5>1. Trusted' => Trusted /\ (currMod = user \/ f # user)
          BY <1>3, <2>8, <3>2 DEF Trusted
        <5>2. Trusted' => file'[user] = file[user]
          BY <2>4, <2>6, <4>1, <5>1
        <5> QED BY <3>2, <5>1, <5>2 DEF IInv, ReadOK
      <4> QED BY <2>8, <3>2, <4>1, <4>2, <4>3, <4>4 DEF ReadOK, First
    <3> QED BY <3>1, <3>2
  <2> QED BY <1>6, <2>3, <2>5, <2>7, <2>9 DEF IInv
<1> QED BY <1>4, <1>5

LEMMA DiscardDictsInv == ASSUME IInv, NEW i \in DOMAIN ObjLibFiles, DiscardDicts(i) PROVE IInv'
<1>1. UNCHANGED <<file, tokSize, phase, user, stage, currMod, left, read, kept>>
  BY DEF DiscardDicts, reading
<1>2. RestOK'
  BY <1>1 DEF DiscardDicts, IInv, RestOK
<1>3. FilesOK' /\ UserOK' /\ KeptOK'
  BY <1>1 DEF IInv, FilesOK, UserOK, KeptOK
<1>4. ReadOK'
  BY <1>1 DEF IInv, ReadOK, Trusted, First
<1> QED BY <1>2, <1>3, <1>4 DEF IInv

LEMMA CleanCachedHandlesInv == ASSUME IInv, NEW i \in DOMAIN CachedFiles, CleanCachedHandles(i) PROVE IInv'
<1> DEFINE f == CachedFiles[i]
           r == [file[f] EXCEPT !.handle = FALSE]
<1>1. f \in Files /\ file[f].handle /\ ~file[f].inUse /\ phase # "clean"
  BY DEF CleanCachedHandles, MayAllocate, Files
<1>2. FileOK(f, file[f]) /\ f \in Objects \cup Libs
  BY <1>1 DEF IInv, FilesOK, Closed
<1>3. FileOK(f, r) /\ r.cache = file[f].cache /\ r.page = file[f].page
  BY <1>2 DEF FileOK, FileType, Positioned
<1>4. /\ file' = [file EXCEPT ![f] = r] /\ phase' = phase
      /\ UNCHANGED <<dict, tokSize, user, stage, currMod, left, read, kept>>
  BY DEF CleanCachedHandles, reading
<1> HIDE DEF r
<1>5. FilesOK'
  BY <1>1, <1>2, <1>3, <1>4, UpdateOK DEF IInv
<1>6. user # Null => user \in Files /\ file'[user] = file[user]
  BY <1>1, <1>4, UserKnown DEF IInv, FilesOK, UserOK
<1>7. UserOK' /\ KeptOK'
  BY <1>4, <1>6 DEF IInv, UserOK, KeptOK
<1>8. ReadOK'
  BY <1>4, <1>6 DEF IInv, ReadOK, First, Trusted
<1>9. RestOK'
  BY <1>4 DEF IInv, RestOK
<1> QED BY <1>5, <1>7, <1>8, <1>9 DEF IInv

LEMMA NextInv == ASSUME IInv, [Next]_vars PROVE IInv'
<1>1. ASSUME NEW f \in Files, CacheOpen(f) PROVE IInv'
  BY <1>1, CacheOpenInv
<1>2. ASSUME NEW f \in Files, NEW pos \in 0 .. Length[f] - 1, NEW len \in 1 .. Length[f] - pos,
             NEW perm \in BOOLEAN, f = user, CacheRead(pos, len, perm)
      PROVE  IInv'
  BY <1>2, CacheReadInv
<1>3. ASSUME NEW i \in DOMAIN CachedFiles, DumpObjCache(i) \/ CleanCachedHandles(i) PROVE IInv'
  BY <1>3, DumpObjCacheInv, CleanCachedHandlesInv
<1>4. ASSUME NEW i \in DOMAIN ObjLibFiles, DiscardDicts(i) PROVE IInv'
  BY <1>4, DiscardDictsInv
<1>5. CASE NextPage \/ EndRead \/ ClosePass1
  BY <1>5, NextPageInv, EndReadInv, ClosePass1Inv
<1>6. CASE MakeDict \/ StartModule \/ EndModule \/ StartLibraries \/ WalkModules \/ UNCHANGED vars
  BY <1>6, ClientInv
<1>7. CASE SetDict \/ BurnLibs \/ SetSegments \/ CleanLinkStruct \/ Restart
  BY <1>7, SetDictInv, BurnLibsInv, SetSegmentsInv, CleanLinkStructInv, RestartInv
<1> QED BY <1>1, <1>2, <1>3, <1>4, <1>5, <1>6, <1>7 DEF Next

\* A pointer that the module being read keeps into a page or a full cache is
\* good until the module has been read, whatever allocations take in between
\* (CacheRead, DumpObjCache, FreeObjInfo).
THEOREM KeptStaysAlways == Spec => []KeptStays
<1>1. IInv => KeptStays
  <2> SUFFICES ASSUME IInv, NEW k \in kept
               PROVE  file[k[1]].cache = "memory" /\ file[k[1]].page[k[2]] # Null
    BY DEF KeptStays
  <2> QED BY DEF IInv, KeptOK, UserOK
<1> QED BY <1>1, InitInv, NextInv, PTL DEF Spec

\* Every variable of the cache keeps its type; in particular no handle is ever
\* behind the end of its file and nobody keeps a page that is none (CacheRead).
THEOREM CacheTyped == Spec => []TypeOK
<1>1. IInv => TypeOK
  <2> SUFFICES ASSUME IInv PROVE TypeOK
    OBVIOUS
  <2>1. \A f \in Files :
          /\ file[f].handle \in BOOLEAN /\ file[f].inUse \in BOOLEAN
          /\ file[f].kind \in {"unset", "full", "page"} /\ file[f].cache \in {"none", "memory", "freed"}
          /\ file[f].currpos \in Nat /\ file[f].pos \in 0 .. Length[f]
          /\ file[f].page \in [Pages(f) -> Nat \cup {Null}]
    BY DEF IInv, FilesOK, FileOK, FileType
  <2>2. user \in Files \cup {Null}
    BY UserKnown
  <2>3. \A k \in kept : k[1] \in Files /\ k[2] \in Pages(k[1])
    BY UserKnown DEF IInv, KeptOK
  <2> QED BY <2>1, <2>2, <2>3 DEF TypeOK, IInv, RestOK
<1> QED BY <1>1, InitInv, NextInv, PTL DEF Spec

\* A seek is left out only where the handle is: after pages, whole files and
\* dictionaries were read through it, and after it was closed and opened again
\* (CacheRead, CacheOpen, SetDict, DoObjOpen).
THEOREM SeeksRight == Spec => []PositionKnown
<1>1. IInv => PositionKnown
  BY DEF IInv, FilesOK, FileOK, Positioned, PositionKnown
<1> QED BY <1>1, InitInv, NextInv, PTL DEF Spec

\* A table that is freed has no pages, and whenever a link is abandoned it leaves
\* no handle, page or table (FreeObjCache, FreeFiles).
THEOREM LinkLeavesNothing == Spec => []NothingLeft
<1>1. IInv => NothingLeft
  BY DEF IInv, FilesOK, FileOK, Closed, NothingLeft
<1> QED BY <1>1, InitInv, NextInv, PTL DEF Spec
-----------------------------------------------------------------------------
(* What a read returns.                                                    *)

\* A cell of a page that is there is the cell of the file.
LEMMA CellRight ==
    ASSUME NEW f \in Files, FileOK(f, file[f]), NEW q \in Nat, q < Length[f],
           file[f].page[q \div PageSize] # Null
    PROVE  Cell(f, q) = q
<1>1. PageSize \in Nat \ {0}
  BY ObjCacheAssumption
<1> DEFINE p == q \div PageSize
<1>2. p \in Pages(f)
  BY PageOfCell
<1>3. file[f].page[p] = p * PageSize
  BY <1>2 DEF FileOK, Placed
<1>4. p * PageSize + (q % PageSize) = q
  BY <1>1, DivMod
<1>5. Cell(f, q) = file[f].page[p] + (q % PageSize)
  BY DEF Cell
<1> HIDE DEF p
<1> QED BY <1>3, <1>4, <1>5

LEMMA DivMono ==
    ASSUME NEW n \in Nat \ {0}, NEW a \in Nat, NEW b \in Nat, a <= b
    PROVE  a \div n <= b \div n
<1> DEFINE x == a \div n
           y == b \div n
<1>1. /\ x \in Nat /\ x * n <= a /\ a < x * n + n
      /\ y \in Nat /\ y * n <= b /\ b < y * n + n
  BY DivRange
<1> HIDE DEF x, y
<1>2. ~(y + 1 <= x)
  <2> SUFFICES ASSUME y + 1 <= x PROVE FALSE
    OBVIOUS
  <2>1. x - y - 1 \in Nat /\ (x - y - 1) * n \in Nat
    BY <1>1
  <2>2. (x - y - 1) * n = x * n - y * n - n /\ x * n \in Nat /\ y * n \in Nat
    BY <1>1
  <2> QED BY <1>1, <2>1, <2>2
<1>3. x <= y
  BY <1>1, <1>2
<1> QED BY <1>3 DEF x, y

ReadRight ==
    EndRead /\ (currMod = user \/ ~read.robbed) =>
        Result(read) = [i \in 1 .. read.len |-> read.pos + i - 1]

LEMMA EndReadRight == ASSUME IInv PROVE ReadRight
<1> SUFFICES ASSUME EndRead, Trusted PROVE Result(read) = [i \in 1 .. read.len |-> read.pos + i - 1]
  BY DEF ReadRight, Trusted
<1>1. /\ read \in ReadType /\ user \in Files /\ user # Null /\ read # Null
      /\ read.pos + read.len <= Length[user] /\ read.next > Last(read)
  BY UserKnown DEF EndRead, IInv, ReadOK
<1>2. /\ read.pos \in Nat /\ read.len \in Nat \ {0} /\ Length[user] \in Nat /\ PageSize \in Nat \ {0}
  BY <1>1, ObjCacheAssumption DEF ReadType
<1>3. FileOK(user, file[user])
  BY <1>1 DEF IInv, FilesOK
<1>4. ASSUME NEW i \in 1 .. read.len PROVE Cell(user, read.pos + i - 1) = read.pos + i - 1
  <2> DEFINE q == read.pos + i - 1
             last == read.pos + read.len - 1
  <2>1. /\ q \in Nat /\ last \in Nat /\ read.pos <= q /\ q <= last /\ q < Length[user]
    BY <1>1, <1>2
  <2> HIDE DEF q
  <2>2. /\ First(read) \in Nat /\ Last(read) \in Nat /\ q \div PageSize \in Nat
        /\ First(read) <= q \div PageSize /\ q \div PageSize <= Last(read)
    BY <1>2, <2>1, DivMono, DivRange DEF First, Last
  <2>3. file[user].page[q \div PageSize] # Null
    BY <1>1, <2>2, ReadIn
  <2> QED BY <1>1, <1>3, <2>1, <2>3, CellRight DEF q
<1> QED BY <1>4 DEF Result

\* A read returns what the file holds, for a module always and for a search
\* unless its own file lost pages in the middle of it, whatever was dropped,
\* closed, opened and read through the same handle before (CacheRead).
THEOREM ReadsReturnTheFile == Spec => ReadsRight
<1>1. IInv => ReadRight
  BY EndReadRight
<1>2. IInv /\ [Next]_vars => [ReadRight]_vars
  BY <1>1
<1>3. ReadsRight <=> [][ReadRight]_vars
  BY DEF ReadsRight, ReadRight
<1> QED BY <1>2, <1>3, InitInv, NextInv, PTL DEF Spec
=============================================================================
