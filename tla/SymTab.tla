------------------------------- MODULE SymTab -------------------------------
(****************************************************************************)
(* The global symbol table (c/lsymtab.c) and what an object file may do to  *)
(* one symbol of it (c/objpass1.c).                                         *)
(*                                                                          *)
(* A table is a record: "order" is the list that starts at HeadSym, every   *)
(* symbol in the order of its creation, and "tab" gives the symbol of each  *)
(* name; a name that is not in the list has a Fresh symbol. The hash chains *)
(* only speed the search up and are left out, as are static symbols, which  *)
(* the search for libraries never sees, the options ELIMINATE and           *)
(* INCREMENTAL, exports, and symbols that live in a COMDAT segment.         *)
(****************************************************************************)
EXTENDS Naturals, Sequences

CONSTANTS Names,        \* the names of symbols
          Nil,          \* no symbol
          Clip(_, _)    \* Clip(r, t): what is read from r when only as many
                        \* characters are taken of it as the name t has

ASSUME NilAssumption == Nil \notin Names
ASSUME ClipAssumption == /\ \A r, t \in Names : Clip(r, t) \in Names
                         /\ \A n \in Names : Clip(n, n) = n

(* The type of a symbol, the low four bits of sym_info. The references are *)
(* symbols that have a default: IS_SYM_A_REF, IS_SYM_WEAK_REF,              *)
(* IS_SYM_VF_REF.                                                           *)
VFRefs   == {"vf", "pure"}
WeakRefs == VFRefs \cup {"weak", "linkweak"}
Refs     == WeakRefs \cup {"lazy"}
Types    == Refs \cup {"regular", "alias", "imported", "communal"}

Symbol == [type : Types, alias : Names \cup {Nil}, def : Names \cup {Nil}, conds : SUBSET Names,
           defined : BOOLEAN, placed : BOOLEAN, checked : BOOLEAN, old : BOOLEAN, marked : BOOLEAN]

Fresh == [type |-> "regular", alias |-> Nil, def |-> Nil, conds |-> {},
          defined |-> FALSE, placed |-> FALSE, checked |-> FALSE, old |-> FALSE, marked |-> FALSE]

NoSymbols == [order |-> <<>>, tab |-> [n \in Names |-> Fresh]]

Known(st) == {st.order[i] : i \in 1..Len(st.order)}
\* Mutant: the search for the name fails.
AddSymAgain(st, n) == [st EXCEPT !.order = Append(@, n)]
AddSym(st, n) == IF n \in Known(st) THEN st ELSE [st EXCEPT !.order = Append(@, n)]
Update(st, n, s) == [st EXCEPT !.tab[n] = s]

-----------------------------------------------------------------------------
(* Looking a symbol up *)

(* UnaliasSym follows the names the aliases hold, over the symbols of the   *)
(* Trail, until it is at a symbol that is no alias or has come back to the  *)
(* symbol it set out from. It goes on for ever when it never gets there.     *)
IsAlias(s) == s.type = "alias"
Trail(tab, n) ==
  {m \in Names : \A S \in SUBSET Names :
     n \in S /\ (\A a \in S : IsAlias(tab[a]) => tab[a].alias \in S) => m \in S}
Stops(tab, n) == {m \in Trail(tab, n) : ~IsAlias(tab[m])}
ComesBack(tab, n) == \E m \in Trail(tab, n) : IsAlias(tab[m]) /\ tab[m].alias = n

Ends(tab, n) == Stops(tab, n) # {} \/ ComesBack(tab, n)
\* Mutant: one alias is followed, not the aliases it leads to.
UnaliasSymOnce(tab, n) == IF IsAlias(tab[n]) THEN tab[n].alias ELSE n
UnaliasSym(tab, n) == IF Stops(tab, n) # {} THEN CHOOSE m \in Names : m \in Stops(tab, n) ELSE n

(* SymOp( ST_CREATE ) makes the name asked for, or the one the aliases end at. *)
SymOp(st, n) == AddSym(AddSym(st, n), UnaliasSym(st.tab, n))

-----------------------------------------------------------------------------
(* Aliases *)

SetSymAlias(st, n, t) ==
  Update(st, n, [st.tab[n] EXCEPT !.type = "alias", !.alias = t, !.defined = TRUE])

(* MakeSymAlias( n, t ): the alias gets the name of the symbol t resolves   *)
(* to, cut to the length of t itself. If n already is an alias its text is *)
(* freed before t is looked up: "stale" is what is read there then.         *)
Freed(tab, n, stale) == [tab EXCEPT ![n].alias = stale]
AliasTarget(tab, n, t, stale) ==
  UnaliasSym(IF tab[n].type = "alias" THEN Freed(tab, n, stale) ELSE tab, t)

\* Mutant: the target is only named, not made.
MakeSymAliasUnseen(st, n, t, stale) ==
  IF n = t THEN st
  ELSE IF st.tab[n].defined /\ st.tab[n].type # "alias" THEN AddSym(st, n)
  ELSE SetSymAlias(AddSym(st, n), n, Clip(AliasTarget(st.tab, n, t, stale), t))
MakeSymAlias(st, n, t, stale) ==
  IF n = t THEN st
  ELSE IF st.tab[n].defined /\ st.tab[n].type # "alias" THEN AddSym(st, n)
  ELSE LET targ == AliasTarget(st.tab, n, t, stale)
           new  == AddSym(AddSym(AddSym(st, n), t), targ)
       IN  SetSymAlias(new, n, Clip(targ, t))

(* WeldSyms: all references to n refer to its default from now on. *)
WeldSyms(st, n) == IF st.tab[n].def = Nil THEN st ELSE SetSymAlias(st, n, st.tab[n].def)

-----------------------------------------------------------------------------
(* Definitions *)

(* DefineSymbol: a symbol that has an address keeps it, and the definition  *)
(* is reported; any other is redefined, an alias, an import, a communal      *)
(* symbol or a reference with a default included.                            *)
DefineSymbol(st, n) ==
  LET s == st.tab[n]
  IN  Update(AddSym(st, n), n,
             IF s.placed THEN [s EXCEPT !.defined = TRUE]
             ELSE [s EXCEPT !.type = "regular", !.alias = Nil, !.conds = {},
                            !.defined = TRUE, !.placed = TRUE, !.marked = FALSE])

(* MakeCommunalSym: only what is undefined or imported becomes communal. *)
\* Mutant: a symbol that is defined becomes communal too.
MakeCommunalSymAlways(st, n) ==
  Update(st, n, [st.tab[n] EXCEPT !.type = "communal", !.conds = {}, !.defined = TRUE])
MakeCommunalSym(st, n) ==
  LET s == st.tab[n]
  IN  IF s.defined /\ s.type # "imported" THEN st
      ELSE Update(st, n, [s EXCEPT !.type = "communal", !.conds = {}, !.defined = TRUE])

(* HandleImport *)
HandleImport(st, n) ==
  IF st.tab[n].defined THEN st
  ELSE Update(st, n, [st.tab[n] EXCEPT !.type = "imported", !.conds = {}, !.defined = TRUE])

-----------------------------------------------------------------------------
(* References with a default *)

HasPlace(s) == s.defined \/ s.type \in {"imported", "communal"}

(* DefineLazyExtdef: a reference keeps the default it has, and a symbol an  *)
(* earlier module asked for by a plain reference does not get one.          *)
\* Mutant: a plain reference of an earlier module becomes a weak one.
DefineLazyExtdefAnyAge(st, n, def, isweak) ==
  LET s == st.tab[n]
  IN  IF HasPlace(s) \/ s.type \in Refs \ {"linkweak"} THEN st
      ELSE Update(st, n, [s EXCEPT !.type = IF isweak THEN "weak" ELSE "lazy", !.def = def])
DefineLazyExtdef(st, n, def, isweak) ==
  LET s == st.tab[n]
  IN  IF \/ HasPlace(s)
         \/ s.type \in Refs \ {"linkweak"}
         \/ s.old /\ s.type # "linkweak"
      THEN st
      ELSE Update(st, n, [s EXCEPT !.type = IF isweak THEN "weak" ELSE "lazy", !.def = def])

(* CheckVFList, ConvertVFSym: a virtual function table is wanted once one  *)
(* of its conditional symbols is defined or referenced.                     *)
\* Mutant: the default, in front of the conditional symbols, counts as one of them.
ConditionalDefault(st, n) ==
  \/ st.tab[n].marked
  \/ \E c \in st.tab[n].conds \cup ({st.tab[n].def} \ {Nil}) : st.tab[c].defined \/ st.tab[c].marked
Conditional(st, n) ==
  \/ st.tab[n].marked
  \/ \E c \in st.tab[n].conds : st.tab[c].defined \/ st.tab[c].marked
ConvertVFSym(s) ==
  [s EXCEPT !.type = IF s.type = "pure" THEN "lazy" ELSE "regular", !.conds = {}, !.checked = FALSE]
CheckVFList(st, n) == IF Conditional(st, n) THEN Update(st, n, ConvertVFSym(st.tab[n])) ELSE st

(* GetVFList with one conditional symbol: made as a weak reference of the   *)
(* linker's own when nobody knows it yet.                                   *)
MakeWeakExtdef(st, n, def) ==
  Update(AddSym(st, n), n, [st.tab[n] EXCEPT !.type = "linkweak", !.def = def])
GetVFList(st, c, def) == IF c \in Known(st) THEN st ELSE MakeWeakExtdef(st, c, def)
Generated(st, c) == c \notin Known(st) \/ ~st.tab[c].defined \/ st.tab[c].type = "communal"

(* DefineVFTableRecord, DefineVirtualFunction *)
DefineVFTableRecord(st, n, def, c, ispure) ==
  LET s   == st.tab[n]
      new == GetVFList(st, c, def)
  IN  IF HasPlace(s) THEN st
      ELSE IF s.type \in VFRefs
           THEN IF Generated(st, c) THEN new ELSE CheckVFList(new, n)
      ELSE IF ~(s.type \in Refs \/ ~s.old) THEN st
      ELSE IF Generated(st, c)
           THEN Update(new, n, [new.tab[n] EXCEPT !.type = IF ispure THEN "pure" ELSE "vf",
                                                  !.def = def, !.conds = {c}])
      ELSE new

(* ProcVFReference *)
MarkVF(st, n) == IF st.tab[n].defined THEN st ELSE Update(st, n, [st.tab[n] EXCEPT !.marked = TRUE])

-----------------------------------------------------------------------------
(* The whole table at once *)

(* ResolveVFExtdefs *)
Conditionals(st) == {n \in Known(st) : st.tab[n].type \in VFRefs /\ Conditional(st, n)}
ResolveVFExtdefs(st) ==
  [st EXCEPT !.tab = [n \in Names |-> IF n \in Conditionals(st) THEN ConvertVFSym(@[n]) ELSE @[n]]]

(* CollapseLazyExtdefs: the references in C, which some module makes plainly, lose their default. *)
Plainly(s, again) == [s EXCEPT !.type = "regular", !.conds = {}, !.checked = IF again THEN FALSE ELSE @]
CollapseLazyExtdefs(st, C, again) ==
  [st EXCEPT !.tab = [n \in Names |-> IF n \in C THEN Plainly(st.tab[n], again) ELSE st.tab[n]]]

(* SymModEnd: the symbols made since the module began are old from now on. *)
SymModEnd(st, first) ==
  [st EXCEPT !.tab = [n \in Names |->
      IF \E i \in (first + 1)..Len(st.order) : st.order[i] = n THEN [@[n] EXCEPT !.old = TRUE] ELSE @[n]]]

(* ConvertLazyRefs: what nobody defined refers to its default. *)
ConvertLazyRefs(st) ==
  [st EXCEPT !.tab = [n \in Names |->
      IF n \in Known(st) /\ @[n].type \in Refs
      THEN [WeldSyms(st, n).tab[n] EXCEPT !.conds = {}]
      ELSE @[n]]]
=============================================================================
