----------------------------- MODULE RelocStore -----------------------------
(***************************************************************************)
(* What c/reloc.c promises the writers of load files, without blocks,      *)
(* memory or spill file: relocations are put into lists, and each list is  *)
(* later written out, in one record or in several short ones, once, whole  *)
(* and with its size announced correctly.  Reloc implements this.          *)
(***************************************************************************)
EXTENDS Naturals, SequencesExt

CONSTANTS Sizes(_),           \* the sizes of the relocations of a format
          Limit(_),           \* what its records must stay below, 0 for no limit
          Announced(_, _, _)  \* the size a record of a list announces for n cells

VARIABLES fmt,            \* the format of the load file
          stored,         \* the cells <<relocation, part>> put into each list
          written,        \* the records in the load file
          writing,        \* the load file is being written
          failed          \* an error was reported: the link keeps no file

vars == <<fmt, stored, written, writing, failed>>
Lists == DOMAIN stored

Init ==
    /\ \A l \in Lists : stored[l] = {}
    /\ written = << >> /\ writing = FALSE /\ failed = FALSE

\* WriteReloc, FloatReloc, QNXLinearReloc: a relocation of n cells, which is in
\* no list yet, joins list l.
Put(l, n) ==
    /\ ~writing /\ UNCHANGED <<fmt, written, writing, failed>>
    /\ \A k \in Lists \ {l} : stored'[k] = stored[k]
    /\ \E id \in {c[1] : c \in stored'[l]} :
          /\ stored'[l] = stored[l] \cup {<<id, part>> : part \in 1 .. n}
          /\ \A k \in Lists : \A c \in stored[k] : c[1] # id

Start == ~writing /\ writing' = TRUE /\ UNCHANGED <<fmt, stored, written, failed>>

\* The cells of l that are in the file already.
Done(l) == UNION {{r.cells[i] : i \in DOMAIN r.cells} :
                     r \in {written[k] : k \in {j \in DOMAIN written : written[j].list = l}}}

\* s is a sequence of whole relocations, none of them twice.
Whole(s) ==
    /\ \A i, j \in DOMAIN s : s[i] = s[j] => i = j
    /\ \A i \in DOMAIN s : s[i][2] > 1 => i > 1 /\ s[i - 1] = <<s[i][1], s[i][2] - 1>>

\* A record takes some relocations of l that were not written, all of them if
\* records have no limit.
Record(l, r) ==
    LET cells == {r.cells[i] : i \in DOMAIN r.cells} IN
    /\ writing /\ r.list = l
    /\ Whole(r.cells) /\ cells # {} /\ cells \subseteq stored[l] \ Done(l)
    /\ \A c \in cells, d \in stored[l] : d[1] = c[1] => d \in cells
    /\ r.size = Announced(fmt, l, Len(r.cells))
    /\ IF Limit(fmt) = 0 THEN cells = stored[l] ELSE r.size < Limit(fmt)
    /\ written' = Append(written, r)
    /\ UNCHANGED <<fmt, stored, writing, failed>>

\* The file is complete when every list is in it.
Finish ==
    /\ writing /\ \A l \in Lists : Done(l) = stored[l]
    /\ writing' = FALSE /\ stored' = [l \in Lists |-> {}]
    /\ UNCHANGED <<fmt, written, failed>>

Next ==
    \/ failed' /\ UNCHANGED fmt
    \/ /\ ~failed'
       /\ \/ \E l \in Lists, n \in Sizes(fmt) : Put(l, n)
          \/ Start \/ Finish
          \/ Len(written') > Len(written) /\ \E l \in Lists : Record(l, Last(written'))

Spec == Init /\ [][Next]_vars
=============================================================================
