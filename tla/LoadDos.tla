------------------------------- MODULE LoadDos -------------------------------
(***************************************************************************)
(* The writer of DOS executables (c/loaddos.c with WriteDOSGroup and       *)
(* WriteSegData of c/loadfile.c): groups in address order, sections of     *)
(* overlays that share output files and addresses, the relocations of each *)
(* section behind it, padding and the header; and the writer of .COM       *)
(* files, which leaves out what lies before the start address.             *)
(* A file is written through the buffer of BuffFile.                       *)
(***************************************************************************)
EXTENDS BuffFile, SequencesExt

CONSTANTS Files,
          Layouts,     \* the layouts the first pass may have come to
          Para,        \* a paragraph
          HdrSize,     \* the header: sizeof( dos_exe_header ) + MZHDRADD
          EasSize      \* where relocations start: HdrSize, or more with KNOWEAS

\* A layout has its kind, exe or com; the sections with their file, address,
\* size and number of relocations; the groups with their section, address and
\* segments, each a pair of offset and length; and the start address.
VARIABLES lay,
          todo,        \* the groups still to write, in address order
          file,        \* the output files
          fileLoc,     \* outfilelist.file_loc
          sectLoc,     \* section.u.file_loc
          oldchop,
          phase        \* "root", "groups", "tail", "done"

vars == <<lay, todo, file, fileLoc, sectLoc, oldchop, phase>>

Sects == DOMAIN lay.sects
Groups == DOMAIN lay.groups
MakePara(n) == ((n + Para - 1) \div Para) * Para

\* OrderGroups: any order in which no group precedes one of a lower address.
Sorted(s) == \A i, j \in DOMAIN s : i < j => lay.groups[s[i]].addr <= lay.groups[s[j]].addr

Init ==
    /\ lay \in Layouts
    /\ todo \in SetToSeqs(Groups) /\ Sorted(todo)
    /\ file = [f \in Files |-> OpenBuffFile(InitBuffFile)]
    /\ fileLoc = [f \in Files |-> 0]
    /\ sectLoc = [s \in Sects |-> 0]
    /\ oldchop = 0 /\ phase = IF lay.kind = "exe" THEN "root" ELSE "com"
-------------------------------------------------------------------------------
(* The cells of the groups, of the relocations and of the header.          *)

SegCells(g, seg) == [i \in 1 .. seg[2] |-> <<"data", g, seg[1] + i - 1>>]
RelocCells(s) == [i \in 1 .. lay.sects[s].relocs |-> <<"reloc", s, i>>]
HdrCells == [i \in 1 .. HdrSize |-> <<"header", "root", i>>]

FileOf(g) == lay.sects[lay.groups[g].sect].file
RootFile == lay.sects["root"].file
\* The address of a section: that of Root is the address of the first group.
SectAddr(s) == IF s = "root" THEN lay.groups[lay.first].addr ELSE lay.sects[s].addr
-------------------------------------------------------------------------------
(* FiniDOSLoadFile up to the groups.                                       *)

\* WriteDOSRootRelocs, behind the space left for the header.
RootRelocs(f) == NullAlign(WriteLoad(SeekLoad(f, EasSize), RelocCells("root")), Para)
HeaderSize == MakePara(EasSize + lay.sects["root"].relocs)

\* AssignFileLocs, for the sections of one file in the order of the areas.
Ahead(s) == {t \in Sects \ {"root"} : /\ lay.sects[t].file = lay.sects[s].file
                                      /\ lay.sects[t].num < lay.sects[s].num}
SpaceOf(s) == MakePara(lay.sects[s].size) + MakePara(lay.sects[s].relocs)
AssignFileLocs ==
    [s \in Sects |->
        IF s = "root" THEN HeaderSize
        ELSE (IF lay.sects[s].file = RootFile THEN HeaderSize + lay.sects["root"].size ELSE 0)
             + FoldLeft(LAMBDA n, t : n + SpaceOf(t), 0, SetToSeq(Ahead(s)))]

WriteDOSRoot ==
    /\ phase = "root" /\ phase' = "groups"
    /\ file' = [file EXCEPT ![RootFile] = RootRelocs(@)]
    /\ sectLoc' = AssignFileLocs
    /\ fileLoc' = [fileLoc EXCEPT ![RootFile] = HeaderSize]
    /\ UNCHANGED <<lay, todo, oldchop>>
-------------------------------------------------------------------------------
(* WriteDOSGroup and WriteDOSSectRelocs.                                   *)

\* WriteSegData for every segment of g, from position start.
WriteSegs(f, g, start, repos) ==
    FoldLeft(LAMBDA h, seg :
                WriteLoad(IF repos THEN SeekLoad(h, start + seg[1])
                          ELSE PadLoad(h, start + seg[1] - PosLoad(h)), SegCells(g, seg)),
             f, lay.groups[g].segs)

Size(g) == LET segs == lay.groups[g].segs
           IN  IF segs = << >> THEN 0 ELSE segs[Len(segs)][1] + segs[Len(segs)][2]
Loc(g) == lay.groups[g].addr - SectAddr(lay.groups[g].sect) + sectLoc[lay.groups[g].sect]
Repos(g) == Size(g) # 0 /\ Loc(g) < fileLoc[FileOf(g)]

AtLeast(n, m) == IF n > m THEN n ELSE m

\* Mutant: what lies before a group is skipped, not padded.
WriteDOSGroupSkips(f, at, g) ==
    LET h   == IF Size(g) # 0 THEN SeekLoad(f, Loc(g)) ELSE f
        out == WriteSegs(h, g, PosLoad(h), Repos(g))
    IN  IF Size(g) = 0 THEN [f |-> f, at |-> at]
        ELSE [f |-> out, at |-> AtLeast(at, Loc(g) + PosLoad(out) - PosLoad(h))]

\* The file after the group, and its file_loc.
WriteDOSGroup(f, at, g) ==
    LET h   == IF Repos(g) THEN SeekLoad(f, Loc(g)) ELSE PadLoad(f, Loc(g) - at)
        out == WriteSegs(h, g, PosLoad(h), Repos(g))
    IN  IF Size(g) = 0 THEN [f |-> f, at |-> at]
        ELSE [f |-> out, at |-> AtLeast(at, Loc(g) + PosLoad(out) - PosLoad(h))]

\* Mutant: relocations are always put at the end of the file.
SectRelocsAppended(f, s, at, repos) ==
    LET loc == sectLoc[s] + MakePara(lay.sects[s].size)
        g   == IF at > loc THEN f ELSE PadLoad(f, loc - at)
    IN  IF lay.sects[s].relocs = 0 THEN [f |-> f, at |-> at]
        ELSE [f |-> WriteLoad(g, RelocCells(s)), at |-> AtLeast(at, loc + lay.sects[s].relocs)]

\* The relocations of s, given file f whose file_loc is at.
SectRelocs(f, s, at, repos) ==
    LET loc == sectLoc[s] + MakePara(lay.sects[s].size)
        g   == IF at > loc THEN SeekLoad(f, loc)
               ELSE PadLoad(IF repos THEN SeekLoad(f, at) ELSE f, loc - at)
    IN  IF lay.sects[s].relocs = 0 THEN [f |-> f, at |-> at]
        ELSE [f |-> WriteLoad(g, RelocCells(s)), at |-> AtLeast(at, loc + lay.sects[s].relocs)]

\* Mutant: the writer does not go back to the end of the file.
ResumeNever(f, at, repos) == f

Resume(f, at, repos) == IF repos THEN SeekLoad(f, at) ELSE f

\* One turn of the loop of WriteDOSData.
WriteGroup ==
    /\ phase = "groups" /\ todo # << >>
    /\ LET g == Head(todo)
           s == lay.groups[g].sect
           last == Tail(todo) = << >> \/ lay.groups[Head(Tail(todo))].sect # s
           written == WriteDOSGroup(file[FileOf(g)], fileLoc[FileOf(g)], g)
           out == IF last /\ s # "root" THEN SectRelocs(written.f, s, written.at, Repos(g))
                  ELSE written
       IN  /\ file' = [file EXCEPT ![FileOf(g)] = Resume(out.f, out.at, Repos(g))]
           /\ fileLoc' = [fileLoc EXCEPT ![FileOf(g)] = out.at]
    /\ todo' = Tail(todo)
    /\ UNCHANGED <<lay, sectLoc, oldchop, phase>>

PadOvl(f, at) == PadLoad(f, MakePara(at) - at)

\* The rest of FiniDOSLoadFile: PadOvlFiles, the header, and CloseOutFiles.
WriteTail ==
    /\ phase = "groups" /\ todo = << >> /\ phase' = "done"
    /\ LET padded == [f \in Files |-> IF Sects # {"root"} THEN PadOvl(file[f], fileLoc[f])
                                      ELSE file[f]]
           whole == [padded EXCEPT ![RootFile] = WriteLoad(SeekLoad(@, 0), HdrCells)]
       IN  file' = [f \in Files |-> CloseBuffFile(whole[f])]
    /\ UNCHANGED <<lay, todo, fileLoc, sectLoc, oldchop>>
-------------------------------------------------------------------------------
(* WriteCOMFile.                                                           *)

Chop(g) == LET d == lay.groups[g].addr - lay.start IN IF d > 0 THEN 0 ELSE d

\* WriteSegData of loaddos.c: out.n is COMAmountWritten.
ComSeg(out, g, seg, chop) ==
    LET newpos == chop + seg[1]
        pad    == newpos - out.n
        skip   == IF pad > 0 THEN 0 ELSE -pad
        f      == IF pad > 0 THEN PadLoad(out.f, pad) ELSE out.f
    IN  IF newpos + seg[2] <= 0 THEN out
        ELSE [f |-> WriteLoad(f, SubSeq(SegCells(g, seg), skip + 1, seg[2])),
              n |-> newpos + seg[2]]

ComDiff(loc) == loc - fileLoc[RootFile] + oldchop

WriteCOMGroup ==
    /\ phase = "com" /\ todo # << >>
    /\ LET g == Head(todo)
           chop == Chop(g)
           loc == Loc(g)
           diff == ComDiff(loc)
           f == IF diff > 0 THEN PadLoad(file[RootFile], diff)
                ELSE IF diff < 0 THEN SeekLoad(file[RootFile], loc) ELSE file[RootFile]
           out == FoldLeft(LAMBDA o, seg : ComSeg(o, g, seg, chop), [f |-> f, n |-> 0],
                           lay.groups[g].segs)
           at == AtLeast(fileLoc[RootFile], loc + out.n)
       IN  IF Size(g) + chop > 0
           THEN /\ file' = [file EXCEPT ![RootFile] = IF diff < 0 THEN SeekLoad(out.f, at) ELSE out.f]
                /\ fileLoc' = [fileLoc EXCEPT ![RootFile] = at]
                /\ oldchop' = oldchop + chop
           ELSE UNCHANGED <<file, fileLoc, oldchop>>
    /\ todo' = Tail(todo)
    /\ UNCHANGED <<lay, sectLoc, phase>>

CloseCOMFile ==
    /\ phase = "com" /\ todo = << >> /\ phase' = "done"
    /\ file' = [f \in Files |-> CloseBuffFile(file[f])]
    /\ UNCHANGED <<lay, todo, fileLoc, sectLoc, oldchop>>

Next ==
    \/ WriteDOSRoot \/ WriteGroup \/ WriteTail \/ WriteCOMGroup \/ CloseCOMFile
    \/ phase = "done" /\ UNCHANGED vars

Spec == Init /\ [][Next]_vars
-------------------------------------------------------------------------------
(* Properties.                                                             *)

\* The cells s are in the file d from position at on.
Holds(d, at, s) == /\ at >= 0 /\ Len(d) >= at + Len(s)
                   /\ SubSeq(d, at + 1, at + Len(s)) = s

\* Where a group and the relocations of a section belong in their file.  A .COM
\* file is the image of memory from the start address on.
DataLoc(g) == IF lay.kind = "exe" THEN Loc(g) ELSE lay.groups[g].addr - lay.start
RelocLoc(s) == IF s = "root" THEN EasSize ELSE sectLoc[s] + MakePara(lay.sects[s].size)

\* Every byte of every group is where its section and its address put it,
\* whatever was written after it (WriteDOSGroup, WriteDOSSectRelocs, WriteCOMGroup);
\* a .COM file leaves out what lies before the start address.
GroupsInPlace ==
    phase = "done" => \A g \in Groups : \A k \in DOMAIN lay.groups[g].segs :
        LET seg == lay.groups[g].segs[k]
            at  == DataLoc(g) + seg[1]
            cut == IF lay.kind = "com" /\ at < 0 THEN -at ELSE 0
        IN  cut < seg[2] => Holds(file[FileOf(g)].disk, at + cut,
                                  SubSeq(SegCells(g, seg), cut + 1, seg[2]))

\* The relocations of Root follow the header, those of a section follow it.
RelocsInPlace ==
    phase = "done" /\ lay.kind = "exe" =>
        /\ Holds(file[RootFile].disk, 0, HdrCells)
        /\ \A s \in Sects : lay.sects[s].relocs # 0 /\ (\E g \in Groups : lay.groups[g].sect = s) =>
             Holds(file[lay.sects[s].file].disk, RelocLoc(s), RelocCells(s))

\* Where the cell c belongs: its file, and its position there.
Place(c) ==
    CASE c[1] = "header" -> <<RootFile, c[3] - 1>>
      [] c[1] = "reloc" -> <<lay.sects[c[2]].file, RelocLoc(c[2]) + c[3] - 1>>
      [] c[1] = "data" -> <<FileOf(c[2]), DataLoc(c[2]) + c[3]>>

\* A file holds nothing twice and nothing astray: whatever is not a byte of the
\* header, of a group or of the relocations in its own place is padding.  So no
\* gap (of alignment, between sections, behind the header with KNOWEAS) shows what
\* an earlier block left in the buffer (NullBuffFunc), and nothing is written past
\* its place; PadOvlFiles ends every file with a complete paragraph.
PaddingClean ==
    phase = "done" => \A f \in Files :
        /\ Sects # {"root"} => Len(file[f].disk) % Para = 0
        /\ \A i \in DOMAIN file[f].disk :
             file[f].disk[i] \in {FillChar, Zero} \/ Place(file[f].disk[i]) = <<f, i - 1>>
===============================================================================
