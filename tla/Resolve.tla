------------------------------- MODULE Resolve ------------------------------
(****************************************************************************)
(* Pass 1: the directives, the object files and the search of libraries.    *)
(*                                                                          *)
(* The command line lists libraries, references and aliases (c/cmdall.c).    *)
(* Then every object file is read, record by record (c/objomf.c). Then      *)
(* ResolveUndefined (c/procfile.c) sweeps over the list of symbols: for an  *)
(* undefined symbol LibFind (c/libsupp.c) reads the module of the first     *)
(* library that has it in its dictionary, which may define and ask for      *)
(* other symbols, of this sweep or of one that is over, and add libraries.  *)
(* A symbol is CHECKED and a library OLD when a sweep need not look for the *)
(* one in the other again; sweeps go on until nothing new can be found.     *)
(*                                                                          *)
(* What a module contains is chosen record by record, what the dictionary   *)
(* of a library lists is chosen before. A library that cannot be opened is *)
(* one with an empty dictionary.                                            *)
(****************************************************************************)
EXTENDS SymTab

CONSTANTS Libs,         \* the libraries there are
          Directives,   \* kinds of directives on the command line
          Records,      \* kinds of records in object modules
          Aliases,      \* pairs <<alias, target>> that are defined somewhere
          MaxDirectives, MaxObjs, MaxRecords   \* bounds: directives, object files, records of one module

ASSUME BoundsAssumption == {MaxDirectives, MaxObjs, MaxRecords} \subseteq Nat
ASSUME AliasesAssumption == Aliases \subseteq Names \X Names
ASSUME LibsAssumption == Nil \notin Libs

VARIABLES syms,      \* the symbol table
          libs,      \* ObjLibFiles: the libraries that are searched, in order, with their priorities
          dict,      \* what the dictionary of each library lists
          seenLibs,  \* libraries with STAT_SEEN_LIB
          oldLibs,   \* libraries with STAT_OLD_LIB
          added,     \* LIBRARIES_ADDED
          searching, \* SEARCHING_LIBRARIES
          phase,     \* what the linker is doing
          mod,       \* CurrMod, the module being read
          pos,       \* position of the sweep in the list of symbols
          left,      \* how many directives or object files may still come
          strong,    \* symbols some module or directive asked for without a default
          virtual,   \* symbols virtual function records named, each with its conditional symbol
          pulled     \* library modules read, by the symbol they were read for

vars == <<syms, libs, dict, seenLibs, oldLibs, added, searching, phase, mod, pos, left, strong, virtual, pulled>>

Max == "directive"      \* LIB_PRIORITY_MAX
Comment == "comment"    \* LIB_PRIORITY_MAX - 1
tab == syms.tab
NoModule == [open |-> FALSE, lib |-> Nil, for |-> Nil, first |-> 0, exts |-> <<>>, pubs |-> {}, left |-> 0]

Init ==
  /\ syms = NoSymbols
  /\ libs = <<>>
  /\ dict \in [Libs -> SUBSET Names]
  /\ seenLibs = {} /\ oldLibs = {}
  /\ added = FALSE /\ searching = FALSE
  /\ phase = "directives"
  /\ mod = NoModule
  /\ pos = 0
  /\ left = MaxDirectives
  /\ strong = {} /\ virtual = {} /\ pulled = {}

-----------------------------------------------------------------------------
(* The list of libraries *)

Listed(ls) == {ls[i].lib : i \in 1..Len(ls)}
First(S, none) == IF S = {} THEN none ELSE CHOOSE i \in S : \A j \in S : i <= j

(* Where the first library of a lower priority is, and what is left without l. *)
Below(ls, prio) == First({i \in 1..Len(ls) : prio = Max /\ ls[i].prio = Comment}, Len(ls) + 1)
Without(ls, l) ==
  LET i == First({j \in 1..Len(ls) : ls[j].lib = l}, Len(ls) + 1)
  IN  SubSeq(ls, 1, i - 1) \o SubSeq(ls, i + 1, Len(ls))

(* AddObjLib: behind everything of the same or a higher priority; a library *)
(* that is there with a lower priority moves up to that place.               *)
\* Mutant: the new library goes to the front.
AddObjLibFirst(ls, l, prio) ==
  IF l \in Listed(ls) THEN ls ELSE <<[lib |-> l, prio |-> prio]>> \o ls
AddObjLib(ls, l, prio) ==
  LET at    == Below(ls, prio)
      above == SubSeq(ls, 1, at - 1)
  IN  IF l \in Listed(above) THEN ls
      ELSE Append(above, [lib |-> l, prio |-> prio]) \o Without(SubSeq(ls, at, Len(ls)), l)

AddLib(l, prio) ==
  /\ libs' = AddObjLib(libs, l, prio)
  /\ added' = (added \/ l \notin Listed(libs))

-----------------------------------------------------------------------------
(* The command line *)

Directive(kind) ==
  /\ phase = "directives" /\ left > 0 /\ kind \in Directives
  /\ left' = left - 1
  /\ UNCHANGED <<dict, seenLibs, oldLibs, searching, phase, mod, pos, virtual, pulled>>

Reference(n) ==
  /\ Directive("reference")
  /\ Ends(tab, n)
  /\ syms' = SymOp(syms, n)
  /\ strong' = strong \cup {UnaliasSym(tab, n)}
  /\ UNCHANGED <<libs, added>>

(* The text of an alias that is replaced is freed before the target is looked up. *)
Replaced(n) == IF tab[n].type = "alias" THEN Names ELSE {tab[n].alias}
AddAlias(n, t, stale) ==
  /\ Directive("alias")
  /\ n # t => Ends(IF tab[n].type = "alias" THEN Freed(tab, n, stale) ELSE tab, t)
  /\ syms' = MakeSymAlias(syms, n, t, stale)
  /\ UNCHANGED <<libs, added, strong>>

Library(l) ==
  /\ Directive("library")
  /\ AddLib(l, Max)
  /\ UNCHANGED <<syms, strong>>

EndDirectives ==
  /\ phase = "directives"
  /\ phase' = "objects" /\ left' = MaxObjs
  /\ UNCHANGED <<syms, libs, dict, seenLibs, oldLibs, added, searching, mod, pos, strong, virtual, pulled>>

-----------------------------------------------------------------------------
(* One module *)

(* SymModStart *)
Module(l, n) == [open |-> TRUE, lib |-> l, for |-> n, first |-> Len(syms.order),
                 exts |-> <<>>, pubs |-> {}, left |-> MaxRecords]

(* The last record of a library module defines what it is read for, if no other did. *)
Owes(n) == mod.lib # Nil /\ mod.for \notin mod.pubs \cup {n}
Record(kind, n) ==
  /\ mod.open /\ kind \in Records
  /\ mod.left > (IF Owes(n) THEN 1 ELSE 0)
  /\ UNCHANGED <<dict, seenLibs, oldLibs, searching, phase, pos, left, strong, pulled>>

Read(exts, pubs) == mod' = [mod EXCEPT !.left = @ - 1, !.exts = exts, !.pubs = pubs]

(* UseSymbols *)
ExtDef(n) ==
  /\ Record("ext", Nil)
  /\ Ends(tab, n)
  /\ syms' = SymOp(syms, n)
  /\ Read(Append(mod.exts, [entry |-> UnaliasSym(tab, n), isweak |-> FALSE]), mod.pubs)
  /\ UNCHANGED <<libs, added, virtual>>

(* ProcPubdef: a library lists every symbol its modules define. *)
PubDef(n) ==
  /\ Record("pub", n)
  /\ mod.lib # Nil => n \in dict[mod.lib]
  /\ syms' = DefineSymbol(syms, n)
  /\ Read(mod.exts, mod.pubs \cup {n})
  /\ UNCHANGED <<libs, added, virtual>>

(* ProcComdef *)
ComDef(n) ==
  /\ Record("com", Nil)
  /\ Ends(tab, n)
  /\ syms' = MakeCommunalSym(SymOp(syms, n), UnaliasSym(tab, n))
  /\ Read(Append(mod.exts, [entry |-> UnaliasSym(tab, n), isweak |-> FALSE]), mod.pubs)
  /\ UNCHANGED <<libs, added, virtual>>

(* ProcImportKeyword *)
ImpDef(n) ==
  /\ Record("imp", Nil)
  /\ Ends(tab, n)
  /\ syms' = HandleImport(SymOp(syms, n), UnaliasSym(tab, n))
  /\ Read(mod.exts, mod.pubs)
  /\ UNCHANGED <<libs, added, virtual>>

(* ProcAlias *)
Alias(n, t) ==
  /\ Record("alias", Nil)
  /\ n # t => Ends(tab, t)
  /\ syms' = IF tab[n].defined THEN syms ELSE MakeSymAlias(syms, n, t, Nil)
  /\ Read(mod.exts, mod.pubs)
  /\ UNCHANGED <<libs, added, virtual>>

(* DoLazyExtdef on two external references of this module *)
Weakened(i) == [mod.exts EXCEPT ![i].isweak = TRUE]
LazyExtdef(kind, i, j) ==
  /\ Record(kind, Nil)
  /\ syms' = DefineLazyExtdef(syms, mod.exts[i].entry, mod.exts[j].entry, kind = "weak")
  /\ Read(Weakened(i), mod.pubs)
  /\ UNCHANGED <<libs, added, virtual>>

(* ProcVFTableRecord *)
VFTable(kind, i, j, c) ==
  /\ Record(kind, Nil)
  /\ Ends(tab, c)
  /\ syms' = DefineVFTableRecord(syms, mod.exts[i].entry, mod.exts[j].entry, UnaliasSym(tab, c), kind = "pure")
  /\ virtual' = virtual \cup {<<mod.exts[i].entry, UnaliasSym(tab, c)>>}
  /\ Read(Weakened(i), mod.pubs)
  /\ UNCHANGED <<libs, added>>

(* ProcVFReference *)
VFReference(i) ==
  /\ Record("vfref", Nil)
  /\ syms' = MarkVF(syms, mod.exts[i].entry)
  /\ Read(mod.exts, mod.pubs)
  /\ UNCHANGED <<libs, added, virtual>>

(* AddCommentLib *)
DefaultLib(l) ==
  /\ Record("lib", Nil)
  /\ AddLib(l, Comment)
  /\ Read(mod.exts, mod.pubs)
  /\ UNCHANGED <<syms, virtual>>

(* The end of ObjPass1. A module of a library defines what it was read for. *)
Plain == {mod.exts[i].entry : i \in {j \in 1..Len(mod.exts) : ~mod.exts[j].isweak}}
EndModule ==
  /\ mod.open
  /\ mod.lib # Nil => mod.for \in mod.pubs
  /\ LET lost == {n \in Plain : tab[n].type \in Refs}
         new  == SymModEnd(CollapseLazyExtdefs(syms, lost, searching), mod.first)
     IN  /\ syms' = IF mod.lib = Nil THEN new
                    ELSE [new EXCEPT !.tab[syms.order[pos]].checked = TRUE]
         /\ added' = (added \/ (searching /\ lost # {}))
  /\ strong' = strong \cup Plain
  /\ mod' = NoModule
  /\ pos' = IF mod.lib = Nil THEN pos ELSE pos + 1
  /\ UNCHANGED <<libs, dict, seenLibs, oldLibs, searching, phase, left, virtual, pulled>>

ReadRecord ==
  \/ \E n \in Names : ExtDef(n) \/ PubDef(n) \/ ComDef(n) \/ ImpDef(n)
  \/ \E p \in Aliases : Alias(p[1], p[2])
  \/ \E i, j \in DOMAIN mod.exts :
       \/ i # j /\ \E kind \in {"lazy", "weak"} : LazyExtdef(kind, i, j)
       \/ i # j /\ \E kind \in {"vf", "pure"}, c \in Names : VFTable(kind, i, j, c)
       \/ i = j /\ VFReference(i)
  \/ \E l \in Libs : DefaultLib(l)

-----------------------------------------------------------------------------
(* Object files, and the search *)

LoadObjFile ==
  /\ phase = "objects" /\ ~mod.open /\ left > 0
  /\ left' = left - 1
  /\ mod' = Module(Nil, Nil)
  /\ UNCHANGED <<syms, libs, dict, seenLibs, oldLibs, added, searching, phase, pos, strong, virtual, pulled>>

(* Without a library there is nothing to search, and nothing is resolved. *)
EndObjects ==
  /\ phase = "objects" /\ ~mod.open
  /\ searching' = added
  /\ syms' = IF added THEN ResolveVFExtdefs(syms) ELSE syms
  /\ phase' = IF added THEN "sweep" ELSE "convert"
  /\ left' = 0
  /\ UNCHANGED <<libs, dict, seenLibs, oldLibs, added, mod, pos, strong, virtual, pulled>>

(* The head of the loop: what the last sweep saw from its beginning is old now. *)
\* Mutant: a library is old in its first sweep.
BeginSweepOld ==
  /\ phase = "sweep" /\ pos = 0
  /\ added' = FALSE
  /\ oldLibs' = Listed(libs)
  /\ seenLibs' = Listed(libs)
  /\ pos' = 1
  /\ UNCHANGED <<syms, libs, dict, searching, phase, mod, left, strong, virtual, pulled>>
\* Mutant: what was added is never forgotten.
BeginSweepKeepsAdded ==
  /\ phase = "sweep" /\ pos = 0
  /\ oldLibs' = oldLibs \cup (Listed(libs) \cap seenLibs)
  /\ seenLibs' = Listed(libs)
  /\ pos' = 1
  /\ UNCHANGED <<syms, libs, dict, added, searching, phase, mod, left, strong, virtual, pulled>>
BeginSweep ==
  /\ phase = "sweep" /\ pos = 0
  /\ added' = FALSE
  /\ oldLibs' = oldLibs \cup (Listed(libs) \cap seenLibs)
  /\ seenLibs' = Listed(libs)
  /\ pos' = 1
  /\ UNCHANGED <<syms, libs, dict, searching, phase, mod, left, strong, virtual, pulled>>

Wanted(n) == ~tab[n].defined /\ tab[n].type \notin WeakRefs

(* LibFind: the first library that may have what was not found before. *)
Finds(n) == {i \in DOMAIN libs : n \in dict[libs[i].lib] /\ ~(tab[n].checked /\ libs[i].lib \in oldLibs)}
LibFind(n) == libs[First(Finds(n), 0)].lib

AtSymbol == phase = "sweep" /\ ~mod.open /\ pos \in 1..Len(syms.order)

(* ProcLibFile *)
LoadLibModule ==
  /\ AtSymbol
  /\ LET n == syms.order[pos]
     IN  /\ Wanted(n) /\ Finds(n) # {}
         /\ mod' = Module(LibFind(n), n)
         /\ pulled' = pulled \cup {<<LibFind(n), n>>}
  /\ UNCHANGED <<syms, libs, dict, seenLibs, oldLibs, added, searching, phase, pos, left, strong, virtual>>

PassSymbol ==
  /\ AtSymbol
  /\ LET n == syms.order[pos]
     IN  /\ ~(Wanted(n) /\ Finds(n) # {})
         /\ syms' = Update(syms, n, [tab[n] EXCEPT !.checked = TRUE])
  /\ pos' = pos + 1
  /\ UNCHANGED <<libs, dict, seenLibs, oldLibs, added, searching, phase, mod, left, strong, virtual, pulled>>

EndSweep ==
  /\ phase = "sweep" /\ ~mod.open /\ pos = Len(syms.order) + 1
  /\ syms' = ResolveVFExtdefs(syms)
  /\ LET again == added \/ Conditionals(syms) # {}
     IN  /\ pos' = 0
         /\ phase' = IF again THEN "sweep" ELSE "convert"
         /\ searching' = again
  /\ UNCHANGED <<libs, dict, seenLibs, oldLibs, added, mod, left, strong, virtual, pulled>>

Convert ==
  /\ phase = "convert"
  /\ syms' = ConvertLazyRefs(syms)
  /\ phase' = "linked"
  /\ UNCHANGED <<libs, dict, seenLibs, oldLibs, added, searching, mod, pos, left, strong, virtual, pulled>>

Linked == phase = "linked" /\ UNCHANGED vars

Next ==
  \/ \E n \in Names : Reference(n)
  \/ \E p \in Aliases : \E stale \in Replaced(p[1]) : AddAlias(p[1], p[2], stale)
  \/ \E l \in Libs : Library(l)
  \/ EndDirectives
  \/ LoadObjFile \/ (mod.open /\ ReadRecord) \/ EndModule \/ EndObjects
  \/ BeginSweep \/ LoadLibModule \/ PassSymbol \/ EndSweep
  \/ Convert \/ Linked

Spec == Init /\ [][Next]_vars /\ WF_vars(Next)

-----------------------------------------------------------------------------
Phases == {"directives", "objects", "sweep", "convert", "linked"}
Modules == [open : BOOLEAN, lib : Libs \cup {Nil}, for : Names \cup {Nil}, first : Nat,
            exts : Seq([entry : Names, isweak : BOOLEAN]), pubs : SUBSET Names, left : 0..MaxRecords]

(* Every variable has its type, a symbol is in the list once, and one that  *)
(* is not in the list is untouched.                                         *)
TypeOK ==
  /\ syms.order \in Seq(Names) /\ tab \in [Names -> Symbol]
  /\ \A i, j \in DOMAIN syms.order : syms.order[i] = syms.order[j] => i = j
  /\ \A n \in Names \ Known(syms) : tab[n] = Fresh
  /\ \A n \in Names :
       /\ tab[n].type = "alias" => tab[n].alias # Nil /\ tab[n].defined
       /\ tab[n].type \in VFRefs => tab[n].conds # {}
       /\ tab[n].type \in Refs => tab[n].def # Nil
  /\ libs \in Seq([lib : Libs, prio : {Max, Comment}])
  /\ dict \in [Libs -> SUBSET Names]
  /\ oldLibs \subseteq seenLibs /\ seenLibs \subseteq Listed(libs)
  /\ {added, searching} \subseteq BOOLEAN
  /\ phase \in Phases /\ left \in Nat
  /\ mod \in Modules
  /\ pos \in 0..(Len(syms.order) + 1)
  /\ strong \subseteq Known(syms) /\ virtual \subseteq Names \X Names
  /\ pulled \subseteq Libs \X Names

Provided(n) == \E l \in Listed(libs) : n \in dict[l]

(* When the search is over, no symbol that is still to be found is undefined *)
(* while a library that is searched has it: CHECKED and OLD never hide a     *)
(* library from a symbol, and a lazy reference only falls back on its        *)
(* default when no library has it (ResolveUndefined, CollapseLazy).           *)
NothingMissed ==
  phase = "convert" => \A n \in Known(syms) : Wanted(n) => ~Provided(n)

(* Without records of virtual functions the search is complete: with them   *)
(* it does miss symbols.                                                     *)
NothingMissedPlain == virtual = {} => NothingMissed

(* What one module asks for without a default never gets one, whatever      *)
(* other modules say of it and in whatever order they are read              *)
(* (DefineLazyExtdef, CollapseLazyExtdefs).                                  *)
StrongStaysStrong == \A n \in strong : tab[n].type \notin Refs

(* The list of libraries has no library twice, and those of LIBRARY         *)
(* directives are in front of default libraries (AddObjLib).                 *)
DirectivesFirst ==
  \A i, j \in DOMAIN libs :
    i < j => /\ libs[i].lib # libs[j].lib
             /\ libs[j].prio = Max => libs[i].prio = Max

(* A library module is read only for a symbol that somebody needs: weak     *)
(* references and the virtual functions of a class nobody uses pull nothing *)
(* in. No module is read twice, nor, while no record of a virtual function  *)
(* came, one of a library when one before it in the list has the symbol     *)
(* (ResolveUndefined, CheckVFList, LibFind).                                 *)
Used(c) == tab[c].defined \/ tab[c].marked
Needed(n) ==
  \/ n \in strong
  \/ tab[n].type = "lazy"
  \/ \E a \in Names : tab[a].alias = n
  \/ \E v \in virtual : v[1] = n /\ (Used(n) \/ Used(v[2]))
Pulls == ~mod.open /\ mod'.open /\ mod'.lib # Nil
PullsWanted ==
  [][Pulls => /\ Needed(mod'.for)
              /\ <<mod'.lib, mod'.for>> \notin pulled
              /\ virtual = {} =>
                   \A i, j \in DOMAIN libs :
                     i < j /\ libs[j].lib = mod'.lib => mod'.for \notin dict[libs[i].lib]]_vars

(* A symbol, once it is defined, stays defined, and once a module has given *)
(* it an address it is never an alias, an import or communal again          *)
(* (DefineSymbol, MakeSymAlias, MakeCommunalSym, HandleImport).              *)
DefinitionsStay ==
  [][\A n \in Names : /\ tab[n].defined => tab'[n].defined
                      /\ tab[n].placed => tab'[n].placed /\ tab'[n].type = tab[n].type]_vars

(* Every symbol can be looked up: following its aliases comes to an end      *)
(* (UnaliasSym).                                                             *)
LookupsEnd == \A n \in Names : Ends(tab, n)

(* An alias is another name of its target, whatever order the directives    *)
(* come in and whatever aliases the target leads to, until one of the two    *)
(* leads to an alias that a module gives an address: the other may hold the  *)
(* name that this alias had led to before (MakeSymAlias, DefineSymbol).       *)
Overtaken(n) == tab[n].placed /\ \E p \in Aliases : p[1] = n
AliasMeansTarget ==
  \A p \in Aliases :
    LET n == UnaliasSym(tab, p[1])
        t == UnaliasSym(tab, p[2])
    IN  tab[p[1]].type = "alias" /\ p[1] # p[2] => n = t \/ Overtaken(n) \/ Overtaken(t)

(* An alias needs no other reference for its target to be looked for: when  *)
(* the search is over the target is defined, or no library has it            *)
(* (MakeSymAlias: "aliases in .obj files can be hauled in from libraries").   *)
TargetsPulled ==
  phase = "convert" =>
    \A n \in Names : tab[n].type = "alias" =>
      LET t == UnaliasSym(tab, n) IN tab[t].defined \/ ~Provided(t)

(* The search comes to an end, and the link with it. *)
LinkEnds == <>(phase = "linked")
=============================================================================
