------------------------------- MODULE Lidata -------------------------------
(****************************************************************************)
(* Data records of OMF objects and the fixups that follow them              *)
(* (c/objomf.c, c/wcomdef.c, c/omfreloc.c).                                 *)
(*                                                                          *)
(* A LIDATA record is data with repetitions: a sequence of blocks, each a   *)
(* repeat count, a number of blocks and those blocks, or 0, a length and    *)
(* data. A fixup names a byte of the record as it stands in the file, and   *)
(* must be stored for every copy of that byte in the segment. Records are   *)
(* sequences of numbers, one for each field or byte; the data is zeros. A   *)
(* cell of the store is the byte it is a copy of, <<record, position>>.     *)
(****************************************************************************)
EXTENDS Naturals, Sequences, FiniteSets, SequencesExt

CONSTANTS Iterated,   \* the LIDATA records there are
          MaxPlain,   \* bound: bytes of a LEDATA or COMDAT record
          MaxRecords, MaxFixups  \* bounds: records, and fixups of one record

VARIABLES data,      \* what segments contain, one after the other: a sequence of bytes
          record,    \* the last data record: [cells, iterated]
          lidata,    \* start_lidata .. end_lidata: the last LIDATA record
          number,    \* how many records there were
          base,      \* CurrRec.seg and obj_offset: where data of the current segment starts
          isLidata,  \* FMT_IS_LIDATA
          ignore,    \* FMT_IGNORE_FIXUPP
          fixups,    \* what StoreFixup was called with, in order: [at, of]
          asked      \* the bytes FIXUPP records named, unless their data is not used

vars == <<data, record, lidata, number, base, isLidata, ignore, fixups, asked>>

Init ==
  /\ data = << >> /\ record = [cells |-> << >>, iterated |-> FALSE] /\ lidata = << >> /\ number = 0 /\ base = 0
  /\ isLidata = FALSE /\ ignore = TRUE
  /\ fixups = << >> /\ asked = {}

-----------------------------------------------------------------------------
(* A walk over a LIDATA record: where it is, how far the output is, and the *)
(* copies it has come upon. Both the expansion and the fixups walk that way. *)

Times(n, Step(_), s) == FoldLeft(LAMBDA t, i : Step(t), s, [i \in 1..n |-> i])

Data(r, s, iterate) ==
  LET len == r[s.curr]
  IN  [curr |-> s.curr + 1 + len,
       dest |-> s.dest + iterate * len,
       copies |-> s.copies \o [i \in 1..iterate |->
                    [dest |-> s.dest + (i - 1) * len, curr |-> s.curr + 1, len |-> len]]]

RECURSIVE ProcIDBlock(_, _, _)
ProcIDBlock(r, s, iterate) ==
  LET count == r[s.curr]
      anchor == s.curr + 1
      Block(t) == ProcIDBlock(r, [t EXCEPT !.curr = @ + 1], r[t.curr])
  IN  IF iterate = 0 THEN [s EXCEPT !.curr = Len(r) + 1]
      ELSE IF count = 0 THEN Data(r, [s EXCEPT !.curr = anchor], iterate)
      ELSE Times(iterate, LAMBDA t : Times(count, Block, [t EXCEPT !.curr = anchor]), s)

\* All blocks of the record, with the output at dest (DoLIData, StoreLidataFixup).
RECURSIVE Blocks(_, _)
Blocks(r, s) ==
  IF s.curr > Len(r) THEN s
  ELSE Blocks(r, ProcIDBlock(r, [s EXCEPT !.curr = @ + 1], r[s.curr]))
Walk(r, dest) == Blocks(r, [curr |-> 1, dest |-> dest, copies |-> << >>]).copies

DoLIData(r) ==
  FlattenSeq([i \in DOMAIN Walk(r, 0) |->
    LET c == Walk(r, 0)[i] IN [j \in 1..c.len |-> <<number + 1, c.curr + j - 1>>]])

-----------------------------------------------------------------------------
(* Data records *)

More == number < MaxRecords
Plain(n) == [cells |-> [i \in 1..n |-> 0], iterated |-> FALSE]
SetCurrSeg(r) == /\ record' = r /\ number' = number + 1 /\ base' = Len(data)

Ledata(n) ==
  /\ More /\ SetCurrSeg(Plain(n))
  /\ data' = data \o [i \in 1..n |-> <<number + 1, i>>]
  /\ isLidata' = FALSE /\ ignore' = FALSE
  /\ UNCHANGED <<lidata, fixups, asked>>

\* GetObject: data of a segment that is dead or absolute goes, with its fixups.
DeadData ==
  /\ More /\ ~ignore
  /\ ignore' = TRUE /\ number' = number + 1
  /\ UNCHANGED <<data, record, lidata, base, isLidata, fixups, asked>>

LidataRecord(r) ==
  /\ More /\ SetCurrSeg([cells |-> r, iterated |-> TRUE]) /\ lidata' = r
  /\ data' = data \o DoLIData(r)
  /\ isLidata' = TRUE /\ ignore' = FALSE
  /\ UNCHANGED <<fixups, asked>>

(* A COMDAT is data of a segment of its own; one that has been seen in       *)
(* another module is ignored, and keeps the flag of the record before it.   *)
\* Mutant: as before Open Watcom 1.9, the flag of a LIDATA record stays.
ComdatKeepsFlag(n, redefined) ==
  /\ More /\ SetCurrSeg(Plain(n))
  /\ data' = IF redefined THEN data ELSE data \o [i \in 1..n |-> <<number + 1, i>>]
  /\ ignore' = redefined
  /\ UNCHANGED <<lidata, isLidata, fixups, asked>>
Comdat(n, redefined) ==
  /\ More /\ SetCurrSeg(Plain(n))
  /\ data' = IF redefined THEN data ELSE data \o [i \in 1..n |-> <<number + 1, i>>]
  /\ ignore' = redefined
  /\ isLidata' = IF redefined THEN isLidata ELSE FALSE
  /\ UNCHANGED <<lidata, fixups, asked>>

-----------------------------------------------------------------------------
(* Fixups *)

StoreLidataFixup(place) ==
  [i \in DOMAIN Walk(lidata, place) |->
     LET c == Walk(lidata, place)[i] IN base + c.dest - (c.curr - 1)]

\* The bytes of the record that are data.
Bytes ==
  IF ~record.iterated THEN DOMAIN record.cells
  ELSE UNION {c.curr .. c.curr + c.len - 1 : c \in Range(Walk(record.cells, 0))}

(* DoRelocs: a fixup of the byte at the position p of the record.            *)
DoRelocs(p) ==
  /\ Cardinality({f \in asked : f[1] = number}) < MaxFixups
  /\ LET places == IF isLidata THEN StoreLidataFixup(p - 1) ELSE <<base + p - 1>>
         f == <<number, p>>
     IN  /\ f \notin asked
         /\ IF ignore THEN UNCHANGED <<fixups, asked>>
            ELSE /\ asked' = asked \cup {f}
                 /\ fixups' = fixups \o [i \in DOMAIN places |-> [at |-> places[i], of |-> f]]
  /\ UNCHANGED <<data, record, lidata, number, base, isLidata, ignore>>

Next ==
  \/ \E n \in 1..MaxPlain : Ledata(n)
  \/ \E r \in Iterated : LidataRecord(r)
  \/ \E n \in 1..MaxPlain, redefined \in BOOLEAN : Comdat(n, redefined)
  \/ DeadData
  \/ \E p \in Bytes : DoRelocs(p)

Spec == Init /\ [][Next]_vars

-----------------------------------------------------------------------------
\* Data and fixups are about bytes of records.
TypeOK ==
  /\ data \in Seq((1..MaxRecords) \X (Nat \ {0})) /\ record.cells \in Seq(Nat) /\ lidata \in Seq(Nat)
  /\ number \in 0..MaxRecords /\ base \in 0..Len(data)
  /\ isLidata \in BOOLEAN /\ ignore \in BOOLEAN
  /\ \A i \in DOMAIN fixups : fixups[i].of \in asked

(* A fixup is applied to every copy of the byte it was written for, once,    *)
(* and to nothing else, whatever records and fixups come before it           *)
(* (DoRelocs).                                                               *)
FixupsFollow ==
  /\ \A i \in DOMAIN fixups : /\ fixups[i].at + 1 \in DOMAIN data
                              /\ data[fixups[i].at + 1] = fixups[i].of
  /\ \A f \in asked : \A a \in DOMAIN data :
       data[a] = f => Cardinality({i \in DOMAIN fixups : fixups[i] = [at |-> a - 1, of |-> f]}) = 1
=============================================================================
