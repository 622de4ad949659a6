------------------------------- MODULE LoadFile -------------------------------
(***************************************************************************)
(* The output files of one link (c/loadfile.c over c/posixio.c): opened    *)
(* together, written by the writer of the format through CurrSect, closed, *)
(* and deleted if an error was reported.  A write may fail (an error is    *)
(* reported and the linker goes on) or fall short (a fatal error: the link *)
(* is abandoned, and CleanSubSystems still closes the files).              *)
(***************************************************************************)
EXTENDS BuffFile

CONSTANTS Files,
          Data,       \* the cells a format writes
          Origins,    \* the sizes of stub a format may skip
          Lengths,    \* bound: how long the files of a link get
          MaxLen,     \* bound: the longest write, and seek past the end
          MayFail     \* may the disk be full

VARIABLES file,       \* the files
          maxPos,     \* how long each of them gets
          curr,       \* CurrSect->outfile
          phase,      \* "load", "write", "closed", "cleanup" or "done"
          linkError,  \* LINK_ERROR
          deleted,    \* the files QDelete removed
          request     \* the last request a writer made

vars == <<file, maxPos, curr, phase, linkError, deleted, request>>

Init ==
    /\ file = [f \in Files |-> InitBuffFile]
    /\ maxPos \in Lengths /\ curr \in Files
    /\ phase = "load" /\ linkError = FALSE
    /\ deleted = {} /\ request = [op |-> "none"]

\* FiniLoadFile: OpenOutFiles.  A file that cannot be opened is fatal.
OpenOutFiles ==
    /\ phase = "load" /\ ~linkError
    /\ \/ /\ file' = [f \in Files |-> OpenBuffFile(file[f])] /\ phase' = "write"
          /\ UNCHANGED linkError
       \/ /\ MayFail /\ linkError' = TRUE /\ phase' = "cleanup"
          /\ \E opened \in SUBSET Files \ {Files} :
                file' = [f \in Files |-> IF f \in opened THEN OpenBuffFile(file[f]) ELSE file[f]]
    /\ UNCHANGED <<maxPos, curr, deleted, request>>

Writing == phase = "write" /\ ~linkError

\* CurrSect is set to a section of another file.
Switch ==
    /\ Writing
    /\ curr' \in Files \ {curr}
    /\ UNCHANGED <<maxPos, file, phase, linkError, deleted, request>>

\* DOS16M and its like set the origin once, right behind the stub they copied.
SetOrigin ==
    /\ Writing /\ file[curr].origin = 0 /\ Buffered(file[curr])
    /\ Position(file[curr]) \in Origins
    /\ file' = [file EXCEPT ![curr] = SetOriginLoad(@, Position(@))]
    /\ UNCHANGED <<maxPos, curr, phase, linkError, deleted, request>>
-------------------------------------------------------------------------------
(* Requests, and the ways their writes fail.  After an error has been      *)
(* reported the linker goes on writing; those requests are left out, since *)
(* the link keeps no file whatever they do.                                *)

\* The cells that reach QWrite when f gets s: whole blocks, or s itself.
Pending(f, s) ==
    IF ~Buffered(f) THEN s
    ELSE LET w == SubSeq(f.buffer, 1, ModPos(f)) \o s
         IN  SubSeq(w, 1, (Len(w) \div BlockSize) * BlockSize)
Chunk(f, s) == IF Buffered(f) THEN BlockSize ELSE Len(s)

\* QWrite returns -1 for chunk k: an error is reported and the chunks after it
\* are written where it should have been.
Losing(f, s, k) ==
    LET p == Pending(f, s) IN
    [QWrite(f, SubSeq(p, 1, (k - 1) * Chunk(f, s)) \o SubSeq(p, k * Chunk(f, s) + 1, Len(p)))
       EXCEPT !.bufpos = IF Buffered(f) THEN f.bufpos + Len(s) ELSE f.bufpos,
              !.buffer = IF Buffered(f)
                         THEN AfterBlocks(f, SubSeq(f.buffer, 1, ModPos(f)) \o s) ELSE << >>]

\* QWrite writes n cells of the next chunk after k - 1: fatal.
Short(f, s, k, n) ==
    [QWrite(f, SubSeq(Pending(f, s), 1, (k - 1) * Chunk(f, s) + n))
       EXCEPT !.bufpos = IF Buffered(f) THEN f.bufpos + Len(s) ELSE f.bufpos]

\* The outcomes of a request that puts the cells s into the current file and
\* leaves it as whole if every write succeeds.
Outcome(s, whole) ==
    \/ /\ file' = [file EXCEPT ![curr] = whole]
       /\ UNCHANGED <<linkError, phase>>
    \/ /\ MayFail /\ linkError' = TRUE
       /\ \E k \in 1 .. MaxLen :
             /\ k * Chunk(file[curr], s) <= Len(Pending(file[curr], s)) /\ s # << >>
             /\ \/ file' = [file EXCEPT ![curr] = Losing(@, s, k)] /\ UNCHANGED phase
                \/ /\ \E n \in 0 .. Chunk(file[curr], s) - 1 :
                         file' = [file EXCEPT ![curr] = Short(@, s, k, n)]
                   /\ phase' = "cleanup"

Put(op, s, whole) ==
    /\ Writing /\ Position(file[curr]) + Len(s) <= maxPos[curr]
    /\ Outcome(s, whole)
    /\ request' = op
    /\ UNCHANGED <<maxPos, curr, deleted>>

Write(s) == Put([op |-> "write", file |-> curr, cells |-> s], s, WriteLoad(file[curr], s))

PadCells(n) == [i \in 1 .. n |-> IF Buffered(file[curr]) THEN FillChar ELSE Zero]
Pad(n) == Put([op |-> "pad", file |-> curr, size |-> n], PadCells(n), PadLoad(file[curr], n))

\* NullAlign pads from the position it asks for first.
Align(n) == Pad(AlignPad(PosLoad(file[curr]), n))

Seek(offset) ==
    LET f == file[curr] to == offset + f.origin IN
    /\ Writing /\ to <= maxPos[curr]
    /\ IF Buffered(f) /\ to >= f.bufpos
       THEN Outcome(Skipped(f, to - f.bufpos), SeekLoad(f, offset))
       ELSE Outcome(<< >>, SeekLoad(f, offset))
    /\ request' = [op |-> "seek", file |-> curr, to |-> to]
    /\ UNCHANGED <<maxPos, curr, deleted>>

SeekEnd(offset) ==
    LET f == file[curr] IN
    /\ Writing /\ Len(Image(f)) + offset <= maxPos[curr]
    /\ file' = [file EXCEPT ![curr] = SeekEndLoad(f, offset)]
    /\ request' = [op |-> "seekend", file |-> curr, to |-> offset]
    /\ UNCHANGED <<maxPos, curr, phase, linkError, deleted>>
-------------------------------------------------------------------------------
(* The end of the link.                                                    *)

\* LnkMsg( ERR ) or LnkMsg( FTL ) from the rest of the linker.
Error ==
    /\ MayFail /\ phase \in {"load", "write", "closed"}
    /\ linkError' = TRUE /\ phase' \in {phase, "cleanup"}
    /\ UNCHANGED <<maxPos, file, curr, deleted, request>>

\* CloseOutFiles: the last block of each open file may fail to be written too.
Closed(f, lost) ==
    IF ~f.open THEN f
    ELSE IF lost THEN [f EXCEPT !.open = FALSE, !.buffer = << >>] ELSE CloseBuffFile(f)

CloseOutFiles ==
    \E lost \in SUBSET Files :
       /\ \A f \in lost : MayFail /\ file[f].open /\ Buffered(file[f]) /\ ModPos(file[f]) # 0
       /\ file' = [f \in Files |-> Closed(file[f], f \in lost)]
       /\ linkError' = (linkError \/ lost # {})

\* FiniLoadFile: the files are closed.
FiniLoadFile ==
    /\ phase = "write" /\ CloseOutFiles /\ phase' = "closed"
    /\ UNCHANGED <<maxPos, curr, deleted, request>>

\* CleanSubSystems: FreeOutFiles closes what is still open, then deletes.
FreeOutFiles ==
    /\ phase \in {"closed", "cleanup"}
    /\ CloseOutFiles /\ phase' = "done"
    /\ deleted' = IF linkError' THEN Files ELSE {}
    /\ UNCHANGED <<maxPos, curr, request>>

\* An error before the files are opened abandons the link in CheckErr.
CheckErr ==
    /\ phase = "load" /\ linkError /\ phase' = "cleanup"
    /\ UNCHANGED <<maxPos, file, curr, linkError, deleted, request>>

Next ==
    \/ OpenOutFiles \/ Switch \/ SetOrigin
    \/ \E n \in 1 .. MaxLen : \E s \in [1 .. n -> Data] : Write(s)
    \/ \E n \in 0 .. MaxLen : Pad(n)
    \/ \E n \in 1 .. MaxLen : Align(n)
    \/ \E offset \in 0 .. maxPos[curr] : Seek(offset)
    \/ \E offset \in 0 .. MaxLen : SeekEnd(offset)
    \/ Error \/ CheckErr \/ FiniLoadFile \/ FreeOutFiles
    \/ phase = "done" /\ UNCHANGED vars

Spec == Init /\ [][Next]_vars
-------------------------------------------------------------------------------
(* Properties.                                                             *)

Cells == Data \cup {FillChar, Zero}
FileType == [open : BOOLEAN, disk : Seq(Cells), fpos : Nat, buffer : Seq(Cells),
             bufpos : Nat, origin : Nat]

\* Every variable keeps its type, a buffer is whole or gone, and unless
\* a write failed no caller is told a position before the origin.
TypeOK ==
    /\ file \in [Files -> FileType] /\ curr \in Files
    /\ \A f \in Files : Len(file[f].buffer) \in {0, BlockSize}
    /\ ~linkError => \A f \in Files : PosLoad(file[f]) >= 0
    /\ phase \in {"load", "write", "closed", "cleanup", "done"}
    /\ linkError \in BOOLEAN /\ deleted \in SUBSET Files

\* The files do what their writers ask: the buffer, its loss at the first seek
\* back, and a failing disk cannot be seen in a file the link keeps.
Store == INSTANCE SeekFile WITH
    Padding <- {FillChar, Zero},
    image <- [f \in Files |-> Image(file[f])],
    at <- [f \in Files |-> Position(file[f])],
    status <- [f \in Files |-> IF f \in deleted THEN "deleted"
                               ELSE IF phase = "done" THEN "kept"
                               ELSE IF phase = "load" THEN "absent" ELSE "open"],
    failed <- linkError
ImplementsFile == Store!Spec
===============================================================================
