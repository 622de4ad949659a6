------------------------------- MODULE BuffFile -------------------------------
(***************************************************************************)
(* The buffered output file of c/loadfile.c: a block buffer in front of a  *)
(* file the operating system keeps.  A file is a record:                   *)
(*    open    its handle is not NIL_HANDLE                                 *)
(*    disk    what has reached the file                                    *)
(*    fpos    the position of the handle                                   *)
(*    buffer  the block buffer, << >> once it has been given up            *)
(*    bufpos  the position in the file the buffered writer has reached     *)
(*    origin  where offset 0 of the caller is                              *)
(* Every operation is a function from a file to a file, so that a writer   *)
(* of a format is a composition of them.  Cells are abstract values.       *)
(***************************************************************************)
EXTENDS Integers, Sequences

CONSTANTS BlockSize,   \* BUFF_BLOCK_SIZE
          FillChar,    \* FmtData.FillChar, OPTION FILLCHAR
          Zero         \* a byte of zeros

ASSUME BlockSizeAssumption == BlockSize \in Nat \ {0}
-------------------------------------------------------------------------------
(* The operating system's file.                                            *)

\* s laid over d from position at on; a hole reads as zeros.
Overlay(d, at, s) ==
    IF s = << >> THEN d
    ELSE [i \in 1 .. (IF Len(d) > at + Len(s) THEN Len(d) ELSE at + Len(s)) |->
            IF at < i /\ i <= at + Len(s) THEN s[i - at]
            ELSE IF i <= Len(d) THEN d[i] ELSE Zero]

QWrite(f, s) == [f EXCEPT !.disk = Overlay(f.disk, f.fpos, s), !.fpos = f.fpos + Len(s)]
QSeek(f, p) == [f EXCEPT !.fpos = p]
-------------------------------------------------------------------------------
(* The buffer.                                                             *)

InitBuffFile == [open |-> FALSE, disk |-> << >>, fpos |-> 0, buffer |-> << >>,
                 bufpos |-> 0, origin |-> 0]

\* LAlloc clears the block it returns.
OpenBuffFile(f) == [f EXCEPT !.open = TRUE, !.disk = << >>, !.fpos = 0,
                             !.buffer = [j \in 1 .. BlockSize |-> Zero]]

Buffered(f) == f.buffer # << >>
ModPos(f) == f.bufpos % BlockSize

\* What the caller has written so far, where the next byte goes, and that
\* position as the caller counts.
Image(f) == IF Buffered(f) THEN f.disk \o SubSeq(f.buffer, 1, ModPos(f)) ELSE f.disk
Position(f) == IF Buffered(f) THEN f.bufpos ELSE f.fpos
PosLoad(f) == Position(f) - f.origin

\* The buffer after the cells s have run through it: its last, incomplete block
\* over what the block before left behind.
AfterBlocks(f, s) ==
    LET n == Len(s) \div BlockSize IN
    [j \in 1 .. BlockSize |->
        IF j <= Len(s) % BlockSize THEN s[n * BlockSize + j]
        ELSE IF n = 0 THEN f.buffer[j] ELSE s[(n - 1) * BlockSize + j]]

WriteBuffer(f, new) ==
    LET s == SubSeq(f.buffer, 1, ModPos(f)) \o new
        n == Len(s) \div BlockSize
    IN  [QWrite(f, SubSeq(s, 1, n * BlockSize)) EXCEPT
           !.bufpos = f.bufpos + Len(new), !.buffer = AfterBlocks(f, s)]

FlushBuffFile(f) ==
    [QWrite(f, SubSeq(f.buffer, 1, ModPos(f))) EXCEPT !.buffer = << >>]

CloseBuffFile(f) ==
    [(IF Buffered(f) THEN FlushBuffFile(f) ELSE f) EXCEPT !.open = FALSE]

WriteLoad(f, s) == IF Buffered(f) THEN WriteBuffer(f, s) ELSE QWrite(f, s)

\* SetToZero fills with FillChar, WriteNulls with zeros.
PadLoad(f, size) ==
    IF Buffered(f) THEN WriteBuffer(f, [i \in 1 .. size |-> FillChar])
    ELSE QWrite(f, [i \in 1 .. size |-> Zero])

\* NullBuffFunc copies nothing: the cells skipped are what the buffer holds there.
Skipped(f, size) == [i \in 1 .. size |-> f.buffer[((f.bufpos + i - 1) % BlockSize) + 1]]

\* Mutant: a seek backwards does not give the buffer up.
SeekLoadInBuffer(f, offset) ==
    LET to == offset + f.origin
    IN  IF Buffered(f) /\ to < f.bufpos THEN [f EXCEPT !.bufpos = to]
        ELSE IF Buffered(f) THEN WriteBuffer(f, Skipped(f, to - f.bufpos)) ELSE QSeek(f, to)

\* Mutant: the offset is taken from the start of the file.
SeekLoadFromStart(f, offset) ==
    LET g == IF Buffered(f) /\ offset < f.bufpos THEN FlushBuffFile(f) ELSE f
    IN  IF Buffered(g) THEN WriteBuffer(g, Skipped(g, offset - g.bufpos)) ELSE QSeek(g, offset)

SeekLoad(f, offset) ==
    LET to == offset + f.origin
        g  == IF Buffered(f) /\ to < f.bufpos THEN FlushBuffFile(f) ELSE f
    IN  IF Buffered(g) THEN WriteBuffer(g, Skipped(g, to - g.bufpos)) ELSE QSeek(g, to)

SeekEndLoad(f, offset) ==
    LET g == IF Buffered(f) /\ offset > 0 THEN FlushBuffFile(f) ELSE f
    IN  IF Buffered(g) THEN g ELSE QSeek(g, Len(g.disk) + offset)

SetOriginLoad(f, origin) == [f EXCEPT !.origin = origin]

\* NullAlign: pad to a multiple of align, counted from the origin.
AlignPad(p, align) == (align - (p % align)) % align
NullAlign(f, align) == PadLoad(f, AlignPad(PosLoad(f), align))
===============================================================================
