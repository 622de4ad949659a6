------------------------------- MODULE MCOutput -------------------------------
(***************************************************************************)
(* The output of a link, for TLC: a DOS executable or .COM file by         *)
(* LoadDos, any sequence of requests on two files by LoadFile, or the      *)
(* relocations of any format by Reloc.  part says which of them runs; the  *)
(* others stay where they began.                                           *)
(***************************************************************************)
EXTENDS Reloc, BuffFile, MCDosLayouts

CONSTANTS Data, MaxLen

VARIABLES part, bFile, bMaxPos, bCurr, bPhase, bError, bDeleted, bRequest,
          dLay, dTodo, dFile, dFileLoc, dSectLoc, dOldchop, dPhase
bufVars == <<bFile, bMaxPos, bCurr, bPhase, bError, bDeleted, bRequest>>
dosVars == <<dLay, dTodo, dFile, dFileLoc, dSectLoc, dOldchop, dPhase>>

\* A link of one file of two blocks (the other stays empty), and one of two files.
Links == {[exe |-> 4, ovl |-> 0], [exe |-> 2, ovl |-> 1]}

Buffer == INSTANCE LoadFile WITH
    BlockSize <- 2, Files <- DosFiles, Origins <- {1}, Lengths <- Links, MayFail <- TRUE,
    file <- bFile, maxPos <- bMaxPos, curr <- bCurr, phase <- bPhase, linkError <- bError,
    deleted <- bDeleted, request <- bRequest

DosExe == INSTANCE LoadDos WITH
    Files <- DosFiles, Layouts <- DosLayouts, Para <- 2, HdrSize <- 3, EasSize <- 4,
    lay <- dLay, todo <- dTodo, file <- dFile, fileLoc <- dFileLoc, sectLoc <- dSectLoc,
    oldchop <- dOldchop, phase <- dPhase

\* A group of three pages and two uninitialised ones, in an index table of three
\* parts; blocks of three cells; a flat OS/2 link has relocations of two sizes.
Pages == <<[size |-> 3, total |-> 5]>>
RelocSizes(f) == IF f = "flat" THEN {1, 2} ELSE IF f = "pe" THEN {1} ELSE {2}
RelocBound(f) == IF f = "flat" THEN 2 ELSE 3

OutInit ==
    /\ part \in {"dos", "buffer", "relocs"}
    /\ Init /\ (part # "relocs" => fmt = "dos")
    /\ DosExe!Init /\ (part # "dos" => dLay = ComFile(0, 3, 1, << >>))
    /\ Buffer!Init /\ (part # "buffer" => bMaxPos = [exe |-> 2, ovl |-> 1] /\ bCurr = "exe")

Dos(A) == part = "dos" /\ A /\ UNCHANGED <<part, bufVars, vars>>
Buf(A) == part = "buffer" /\ A /\ UNCHANGED <<part, dosVars, vars>>
Rel(A) == part = "relocs" /\ A /\ UNCHANGED <<part, dosVars, bufVars>>

OutNext ==
    \/ Dos(DosExe!WriteDOSRoot) \/ Dos(DosExe!WriteGroup) \/ Dos(DosExe!WriteTail) \/ Dos(DosExe!WriteCOMGroup)
    \/ Dos(DosExe!CloseCOMFile) \/ Dos(dPhase = "done" /\ UNCHANGED dosVars)
    \/ Buf(Buffer!OpenOutFiles) \/ Buf(Buffer!Switch) \/ Buf(Buffer!SetOrigin)
    \/ \E n \in 1 .. MaxLen : \E s \in [1 .. n -> Data] : Buf(Buffer!Write(s))
    \/ \E n \in 0 .. MaxLen : Buf(Buffer!Pad(n))
    \/ \E n \in 1 .. MaxLen : Buf(Buffer!Align(n))
    \/ \E offset \in 0 .. 4 : Buf(offset <= bMaxPos[bCurr] /\ Buffer!Seek(offset))
    \/ \E offset \in 0 .. MaxLen : Buf(Buffer!SeekEnd(offset))
    \/ Buf(Buffer!Error) \/ Buf(Buffer!CheckErr) \/ Buf(Buffer!FiniLoadFile) \/ Buf(Buffer!FreeOutFiles)
    \/ Buf(bPhase = "done" /\ UNCHANGED bufVars)
    \/ \E l \in Targets, n \in FmtSizes(fmt) : Rel(WriteReloc(l, n))
    \/ Rel(OS2PagedRelocInit) \/ Rel(AllocRelocInfo) \/ Rel(SwapOutRelocs)
    \/ Rel(FatalError) \/ Rel(StartLoad) \/ Rel(WriteRecord) \/ Rel(Finish)
    \/ Rel(FreeRelocInfo) \/ Rel(phase = "done" /\ UNCHANGED vars)

OutSpec == OutInit /\ [][OutNext]_<<part, vars, bufVars, dosVars>>

\* The types of LoadFile and Reloc, and the properties of LoadFile and LoadDos.
BothTypeOK == Buffer!TypeOK /\ TypeOK
ImplementsFile == Buffer!ImplementsFile
GroupsInPlace == DosExe!GroupsInPlace
RelocsInPlace == DosExe!RelocsInPlace
PaddingClean == DosExe!PaddingClean
===============================================================================
