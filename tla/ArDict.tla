-------------------------------- MODULE ArDict --------------------------------
(***************************************************************************)
(* The symbol dictionary of an AR archive (c/libr.c).  The first one of an *)
(* archive is in no order and gives the place of the module of each symbol; *)
(* the second one, which only some librarians write, is sorted by strcmp   *)
(* and gives the number of the module.  CheckLibraryType sorts what it has *)
(* read if the search needs another order: qsort makes a table of 16-bit   *)
(* indices, and a loop then moves the names and the numbers along the      *)
(* cycles of that permutation, marking in the table what is in place.      *)
(*                                                                         *)
(* Tables are numbered from 0 as in the code, modules from 1.  StrKey and  *)
(* StrIKey stand for strcmp and stricmp: they order names as these do.     *)
(* Both dictionaries are taken to list the same number of symbols, as      *)
(* ReadARDict does when it uses the name table of the first again.         *)
(***************************************************************************)
EXTENDS Naturals, FiniteSets, Functions

CONSTANTS Names,
          StrKey(_), StrIKey(_),
          IndexLimit,     \* the values an unsigned_16 can have
          MaxEntries      \* bound: symbols in an archive, at most IndexLimit

VARIABLES numdicts,       \* 1, or 2 when there is a sorted dictionary as well
          caseFlag,       \* CASE_FLAG
          listed,         \* the symbols of the archive: [name, module], as they are in the file
          fnametab,       \* the names ...
          offsettab,      \* ... and filepostab or offsettab: their modules
          indexTab,       \* index_tab
          ix, ixSave, saved,
          pc,             \* where CheckLibraryType is
          result          \* what the last search of ARSearchExtLib found

tabs == <<fnametab, offsettab, indexTab, ix, ixSave, saved>>
file == <<numdicts, caseFlag, listed>>
vars == <<file, tabs, pc, result>>

Entries == DOMAIN fnametab
Key(n) == IF caseFlag THEN StrKey(n) ELSE StrIKey(n)
Same(a, b) == Key(a) = Key(b)

\* A librarian writes a symbol for each of its modules, sorted by strcmp if the
\* dictionary is the second one.  A name may be there more than once.
Init ==
    /\ numdicts \in {1, 2} /\ caseFlag \in BOOLEAN
    /\ \E n \in 0 .. MaxEntries : \E f \in [0 .. n - 1 -> Names] :
          /\ numdicts = 2 => \A i, j \in 0 .. n - 1 : i < j => StrKey(f[i]) <= StrKey(f[j])
          /\ listed = {[name |-> f[i], module |-> i + 1] : i \in 0 .. n - 1}
          /\ fnametab = f /\ offsettab = [i \in 0 .. n - 1 |-> i + 1]
    /\ indexTab = << >> /\ ix = 0 /\ ixSave = 0 /\ saved = [module |-> 0]
    /\ pc = "read" /\ result = << >>

\* Mutant: an archive with one dictionary is taken to be sorted.
SortNeededNoCase == ~caseFlag /\ Entries # {}
SortNeeded == (~caseFlag \/ numdicts = 1) /\ Entries # {}

\* qsort: any order of the indices in which the names do not go down.
Sort ==
    /\ pc = "read"
    /\ IF SortNeeded
       THEN /\ \E s \in Bijection(Entries, Entries) :
                  /\ \A i, j \in Entries : i < j => Key(fnametab[s[i]]) <= Key(fnametab[s[j]])
                  /\ indexTab' = [i \in Entries |-> s[i] % IndexLimit]
            /\ pc' = "scan"
       ELSE pc' = "ready" /\ UNCHANGED indexTab
    /\ UNCHANGED <<file, fnametab, offsettab, ix, ixSave, saved, result>>

\* The outer loop: an entry that has been corrected, or one that is set aside.
Scan ==
    /\ pc = "scan"
    /\ ixSave' = ix
    /\ IF ix \notin Entries THEN pc' = "ready" /\ UNCHANGED <<ix, saved>>
       ELSE IF indexTab[ix] = ix THEN ix' = ix + 1 /\ UNCHANGED <<pc, saved>>
       ELSE /\ saved' = [name |-> fnametab[ix], module |-> offsettab[ix]]
            /\ pc' = "cycle" /\ UNCHANGED ix
    /\ UNCHANGED <<file, fnametab, offsettab, indexTab, result>>

\* The scan goes on behind the entry where the cycle began.
GoOn(last) == ixSave + 1

\* The inner loop: the entry that belongs here comes from further on in the
\* cycle, or at its end from where it was set aside.
Correct ==
    /\ pc = "cycle"
    /\ indexTab' = [indexTab EXCEPT ![ix] = ix]
    /\ LET next == indexTab[ix] IN
       IF next = ixSave
       THEN /\ fnametab' = [fnametab EXCEPT ![ix] = saved.name]
            /\ offsettab' = [offsettab EXCEPT ![ix] = saved.module]
            /\ ix' = GoOn(ix) /\ pc' = "scan"
       ELSE /\ fnametab' = [fnametab EXCEPT ![ix] = fnametab[next]]
            /\ offsettab' = [offsettab EXCEPT ![ix] = offsettab[next]]
            /\ ix' = next /\ UNCHANGED pc
    /\ UNCHANGED <<file, ixSave, saved, result>>

\* bsearch finds an equal name, if the names do not go down; otherwise it may
\* find one or miss all of them.
Ordered == \A i, j \in Entries : i < j => Key(fnametab[i]) <= Key(fnametab[j])
Equal(n) == {i \in Entries : Same(fnametab[i], n)}

ARSearchExtLib(n) ==
    /\ pc = "ready" /\ result = << >>
    /\ \/ \E i \in Equal(n) : result' = [name |-> n, module |-> offsettab[i]]
       \/ (Equal(n) = {} \/ ~Ordered) /\ result' = [name |-> n, module |-> 0]
    /\ UNCHANGED <<file, tabs, pc>>

Next == Sort \/ Scan \/ Correct \/ \E n \in Names : ARSearchExtLib(n)
Spec == Init /\ [][Next]_vars
-------------------------------------------------------------------------------
(* Properties.                                                             *)

TypeOK ==
    /\ pc \in {"read", "scan", "cycle", "ready"}
    /\ fnametab \in [Entries -> Names] /\ offsettab \in [Entries -> 1 .. MaxEntries]
    /\ pc = "cycle" => ix \in Entries /\ ixSave \in Entries

\* A symbol is found if the archive lists it, with a module the archive lists it
\* for, and only then - whatever the order of the archive and whether case
\* counts: the loop of CheckLibraryType moves each module number with its name
\* and leaves the names in the order the search needs.
ArFinds ==
    LET asked == {e \in listed : Same(e.name, result.name)} IN
    result # << >> => IF asked = {} THEN result.module = 0
                        ELSE result.module \in {e.module : e \in asked}
===============================================================================
