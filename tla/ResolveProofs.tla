---------------------------- MODULE ResolveProofs ----------------------------
(****************************************************************************)
(* Proofs about Resolve, whatever the names, libraries, records and bounds. *)
(*                                                                          *)
(* Every operator of SymTab is shown to Keep the table: it extends the list *)
(* and lets every symbol Stay what it is in the respects that matter. Then  *)
(* every action Keeps it: nothing takes a definition away (SymbolsStay) and *)
(* no module makes a plain reference of another one weak (PlainStaysPlain). *)
(*                                                                          *)
(* The list of libraries is Sorted, by a lemma about AddObjLib               *)
(* (LibrariesInOrder). Inv adds to the types what makes a sweep complete,    *)
(* Search: where a symbol that is still wanted cannot be, given its CHECKED  *)
(* flag, the OLD flags of the libraries and the position of the sweep. From  *)
(* it follow TableWellFormed and SearchComplete, and with Asking, which      *)
(* gives every symbol that is wanted its reason, PulledForAReason.           *)
(*                                                                          *)
(* The last part is about aliases: the trail a lookup follows (Resolved,     *)
(* Rerouted), what a step does to aliases (StepTame), and from it what they   *)
(* pull in (TargetsLookedFor) and what they mean (AliasesMeanTargets).        *)
(****************************************************************************)
EXTENDS Resolve, TLAPS, WellFoundedInduction

(* A symbol that has an address is defined and regular, and one that is not *)
(* in the list is untouched. *)
SymOK(s) ==
  /\ s \in Symbol
  /\ s.placed => s.defined /\ s.type = "regular"
  /\ s.type = "alias" => s.alias # Nil /\ s.defined
  /\ s.type \in VFRefs => s.conds # {}
  /\ s.type \in Refs => s.def # Nil

Table == [order : Seq(Names), tab : [Names -> Symbol]]
Good(st) ==
  /\ st \in Table
  /\ \A i, j \in DOMAIN st.order : st.order[i] = st.order[j] => i = j
  /\ \A n \in Names : SymOK(st.tab[n]) /\ (n \notin Known(st) => st.tab[n] = Fresh)

(* What no operation may do to a symbol *)
Stays(s, t) ==
  /\ s.old => t.old
  /\ s.old /\ s.type \notin Refs => t.type \notin Refs
  /\ s.defined => t.defined
  /\ s.placed => t.placed /\ t.type = s.type

Prefix(p, q) == Len(p) <= Len(q) /\ \A i \in 1..Len(p) : q[i] = p[i]

Keeps(st, new) ==
  /\ Good(new)
  /\ Prefix(st.order, new.order)
  /\ \A n \in Names : Stays(st.tab[n], new.tab[n])

-----------------------------------------------------------------------------
(* The operators of SymTab *)

LEMMA KeepsItself == ASSUME NEW st, Good(st) PROVE Keeps(st, st)
BY DEF Keeps, Good, Prefix, Stays, Table

LEMMA KeepsOn ==
  ASSUME NEW st, NEW mid, NEW new, Good(st), Keeps(st, mid), Keeps(mid, new)
  PROVE  Keeps(st, new)
<1>1. Good(new) BY DEF Keeps
<1>2. Prefix(st.order, new.order)
  <2>1. st.order \in Seq(Names) /\ mid.order \in Seq(Names) /\ new.order \in Seq(Names)
    BY DEF Keeps, Good, Table
  <2>2. Prefix(st.order, mid.order) /\ Prefix(mid.order, new.order) BY DEF Keeps
  <2> QED BY <2>1, <2>2 DEF Prefix
<1>3. ASSUME NEW n \in Names PROVE Stays(st.tab[n], new.tab[n])
  BY DEF Keeps, Stays
<1> QED BY <1>1, <1>2, <1>3 DEF Keeps

LEMMA KnownGrows ==
  ASSUME NEW st, NEW new, Good(st), Keeps(st, new)
  PROVE  Known(st) \subseteq Known(new)
BY DEF Keeps, Good, Table, Known, Prefix

(* All symbols at once *)
LEMMA KeepsTab ==
  ASSUME NEW st, Good(st), NEW f \in [Names -> Symbol],
         \A n \in Names : SymOK(f[n]) /\ Stays(st.tab[n], f[n]) /\ (n \in Known(st) \/ f[n] = st.tab[n])
  PROVE  Keeps(st, [st EXCEPT !.tab = f])
<1> DEFINE new == [st EXCEPT !.tab = f]
<1>1. new \in Table /\ new.order = st.order /\ new.tab = f BY DEF Good, Table
<1>2. Known(new) = Known(st) BY <1>1 DEF Known
<1>3. Good(new) BY <1>1, <1>2 DEF Good
<1>4. Prefix(st.order, new.order) BY <1>1 DEF Prefix, Good, Table
<1> QED BY <1>1, <1>3, <1>4 DEF Keeps

(* One symbol *)
LEMMA KeepsUpdate ==
  ASSUME NEW st, Good(st), NEW n \in Known(st), n \in Names, NEW s, SymOK(s), Stays(st.tab[n], s)
  PROVE  Keeps(st, Update(st, n, s))
<1> DEFINE f == [st.tab EXCEPT ![n] = s]
<1>1. f \in [Names -> Symbol] BY DEF Good, Table, SymOK
<1>2. ASSUME NEW m \in Names
      PROVE  SymOK(f[m]) /\ Stays(st.tab[m], f[m]) /\ (m \in Known(st) \/ f[m] = st.tab[m])
  <2>1. CASE m = n BY <2>1 DEF Good, Table
  <2>2. CASE m # n
    <3>1. f[m] = st.tab[m] BY <2>2 DEF Good, Table
    <3>2. SymOK(st.tab[m]) /\ Stays(st.tab[m], st.tab[m]) BY DEF Good, Stays
    <3> QED BY <3>1, <3>2
  <2> QED BY <2>1, <2>2
<1>3. Update(st, n, s) = [st EXCEPT !.tab = f] BY DEF Update, Good, Table
<1> HIDE DEF f
<1> QED BY <1>1, <1>2, <1>3, KeepsTab

LEMMA KeepsAddSym ==
  ASSUME NEW st, Good(st), NEW n \in Names
  PROVE  /\ Keeps(st, AddSym(st, n))
         /\ AddSym(st, n).tab = st.tab
         /\ n \in Known(AddSym(st, n))
<1>1. CASE n \in Known(st) BY <1>1, KeepsItself DEF AddSym
<1>2. CASE n \notin Known(st)
  <2> DEFINE new == [st EXCEPT !.order = Append(@, n)]
  <2>1. st.order \in Seq(Names) /\ Len(st.order) \in Nat BY DEF Good, Table
  <2>2. new \in Table /\ new.tab = st.tab /\ new.order = Append(st.order, n)
    <3>1. Append(st.order, n) \in Seq(Names) BY <2>1
    <3>2. st \in Table BY DEF Good
    <3> QED BY <3>1, <3>2 DEF Table
  <2>3. /\ Len(new.order) = Len(st.order) + 1 /\ new.order[Len(st.order) + 1] = n
        /\ \A i \in 1..Len(st.order) : new.order[i] = st.order[i]
    BY <2>1, <2>2
  <2>4. Known(st) \subseteq Known(new) /\ n \in Known(new)
    BY <2>1, <2>3 DEF Known
  <2>5. Good(new)
    <3>1. ASSUME NEW i \in DOMAIN new.order, NEW j \in DOMAIN new.order, new.order[i] = new.order[j] PROVE i = j
      <4>1. \A k \in 1..Len(st.order) : new.order[k] # n BY <1>2, <2>3 DEF Known
      <4>2. i \in 1..Len(st.order) <=> j \in 1..Len(st.order) BY <2>1, <2>2, <2>3, <3>1, <4>1
      <4>3. CASE i \in 1..Len(st.order) BY <2>1, <2>3, <3>1, <4>2, <4>3 DEF Good
      <4>4. CASE i \notin 1..Len(st.order)
        <5>1. i = Len(st.order) + 1 /\ j = Len(st.order) + 1 BY <2>1, <2>2, <4>2, <4>4
        <5> QED BY <5>1
      <4> QED BY <4>3, <4>4
    <3> QED BY <2>2, <2>4, <3>1 DEF Good
  <2>6. Prefix(st.order, new.order) BY <2>1, <2>3 DEF Prefix
  <2>7. AddSym(st, n) = new BY <1>2 DEF AddSym
  <2>8. \A m \in Names : Stays(st.tab[m], new.tab[m]) BY <2>2 DEF Stays
  <2> HIDE DEF new
  <2> QED BY <2>2, <2>4, <2>5, <2>6, <2>7, <2>8 DEF Keeps
<1> QED BY <1>1, <1>2

LEMMA UnaliasName == ASSUME NEW st, NEW n \in Names PROVE UnaliasSym(st.tab, n) \in Names
BY DEF UnaliasSym, Stops, Trail

LEMMA KeepsSymOp ==
  ASSUME NEW st, Good(st), NEW n \in Names
  PROVE  /\ Keeps(st, SymOp(st, n)) /\ SymOp(st, n).tab = st.tab
         /\ UnaliasSym(st.tab, n) \in Known(SymOp(st, n))
<1> DEFINE mid == AddSym(st, n)
           m   == UnaliasSym(st.tab, n)
<1>1. Keeps(st, mid) /\ mid.tab = st.tab BY KeepsAddSym
<1>2. Good(mid) BY <1>1 DEF Keeps
<1>3. m \in Names BY UnaliasName
<1>4. SymOp(st, n) = AddSym(mid, m) BY DEF SymOp
<1> HIDE DEF mid, m
<1>5. Keeps(mid, AddSym(mid, m)) /\ AddSym(mid, m).tab = mid.tab /\ m \in Known(AddSym(mid, m))
  BY <1>2, <1>3, KeepsAddSym
<1>6. Keeps(st, AddSym(mid, m)) BY <1>1, <1>5, KeepsOn
<1> QED BY <1>1, <1>4, <1>5, <1>6 DEF m

(* Aliases *)

LEMMA KeepsAlias ==
  ASSUME NEW st, Good(st), NEW n \in Known(st), n \in Names, NEW t \in Names, ~st.tab[n].placed
  PROVE  Keeps(st, SetSymAlias(st, n, t))
<1> DEFINE s == [st.tab[n] EXCEPT !.type = "alias", !.alias = t, !.defined = TRUE]
<1>1. st.tab[n] \in Symbol /\ t # Nil BY NilAssumption DEF Good, SymOK
<1>2. SymOK(s) /\ Stays(st.tab[n], s)
  BY <1>1 DEF SymOK, Stays, Symbol, Types, Refs, WeakRefs, VFRefs
<1>3. SetSymAlias(st, n, t) = Update(st, n, s) BY DEF SetSymAlias
<1> HIDE DEF s
<1> QED BY <1>2, <1>3, KeepsUpdate

LEMMA KeepsMakeSymAlias ==
  ASSUME NEW st, Good(st), NEW n \in Names, NEW t \in Names, NEW stale
  PROVE  Keeps(st, MakeSymAlias(st, n, t, stale))
<1> DEFINE targ == AliasTarget(st.tab, n, t, stale)
           one  == AddSym(st, n)
           two  == AddSym(one, t)
           new  == AddSym(two, targ)
<1>1. targ \in Names /\ Clip(targ, t) \in Names
  <2>1. targ \in Names BY DEF AliasTarget, UnaliasSym, Stops, Trail
  <2> QED BY <2>1, ClipAssumption
<1>2. Keeps(st, one) /\ one.tab = st.tab BY KeepsAddSym
<1> HIDE DEF targ, one
<1>3. Keeps(one, two) /\ two.tab = one.tab /\ Good(one) BY <1>2, KeepsAddSym DEF Keeps
<1> HIDE DEF two
<1>4. Keeps(two, new) /\ new.tab = two.tab /\ Good(two) BY <1>1, <1>3, KeepsAddSym DEF Keeps
<1> HIDE DEF new
<1>5. Keeps(st, new) /\ Good(new) BY <1>2, <1>3, <1>4, KeepsOn DEF Keeps
<1>6. CASE n = t BY <1>6, KeepsItself DEF MakeSymAlias
<1>7. CASE n # t /\ st.tab[n].defined /\ st.tab[n].type # "alias"
  BY <1>2, <1>7 DEF MakeSymAlias, one
<1>8. CASE n # t /\ ~(st.tab[n].defined /\ st.tab[n].type # "alias")
  <2>1. ~new.tab[n].placed
    BY <1>2, <1>3, <1>4, <1>8 DEF Good, SymOK
  <2>4. n \in Known(new)
    <3>1. n \in Known(one) BY KeepsAddSym DEF one
    <3>2. n \in Known(two) BY <3>1, <1>3, KnownGrows
    <3> QED BY <3>2, <1>4, KnownGrows
  <2>2. Keeps(new, SetSymAlias(new, n, Clip(targ, t))) BY <1>1, <1>5, <2>1, <2>4, KeepsAlias
  <2>3. MakeSymAlias(st, n, t, stale) = SetSymAlias(new, n, Clip(targ, t))
    BY <1>8 DEF MakeSymAlias, targ, one, two, new
  <2> QED BY <1>5, <2>2, <2>3, KeepsOn
<1> QED BY <1>6, <1>7, <1>8

(* Definitions *)

LEMMA KeepsDefineSymbol ==
  ASSUME NEW st, Good(st), NEW n \in Names
  PROVE  Keeps(st, DefineSymbol(st, n))
<1> DEFINE s == IF st.tab[n].placed THEN [st.tab[n] EXCEPT !.defined = TRUE]
                ELSE [st.tab[n] EXCEPT !.type = "regular", !.alias = Nil, !.conds = {},
                                       !.defined = TRUE, !.placed = TRUE, !.marked = FALSE]
           mid == AddSym(st, n)
<1>1. Keeps(st, mid) /\ mid.tab = st.tab /\ Good(mid) /\ n \in Known(mid) BY KeepsAddSym DEF Keeps
<1>2. st.tab[n] \in Symbol /\ SymOK(st.tab[n]) BY DEF Good, SymOK
<1>3. SymOK(s) /\ Stays(st.tab[n], s)
  BY <1>2 DEF SymOK, Stays, Symbol, Types, Refs, WeakRefs, VFRefs
<1>4. DefineSymbol(st, n) = Update(mid, n, s) BY DEF DefineSymbol
<1> HIDE DEF s, mid
<1>5. Keeps(mid, Update(mid, n, s)) BY <1>1, <1>3, KeepsUpdate
<1> QED BY <1>1, <1>4, <1>5, KeepsOn

LEMMA KeepsMakeCommunalSym ==
  ASSUME NEW st, Good(st), NEW n \in Known(st), n \in Names
  PROVE  Keeps(st, MakeCommunalSym(st, n))
<1> DEFINE s == [st.tab[n] EXCEPT !.type = "communal", !.conds = {}, !.defined = TRUE]
<1>1. CASE st.tab[n].defined /\ st.tab[n].type # "imported"
  BY <1>1, KeepsItself DEF MakeCommunalSym
<1>2. CASE ~(st.tab[n].defined /\ st.tab[n].type # "imported")
  <2>1. st.tab[n] \in Symbol /\ SymOK(st.tab[n]) BY DEF Good, SymOK
  <2>2. SymOK(s) /\ Stays(st.tab[n], s)
    BY <1>2, <2>1 DEF SymOK, Stays, Symbol, Types, Refs, WeakRefs, VFRefs
  <2>3. MakeCommunalSym(st, n) = Update(st, n, s) BY <1>2 DEF MakeCommunalSym
  <2> HIDE DEF s
  <2> QED BY <2>2, <2>3, KeepsUpdate
<1> QED BY <1>1, <1>2

LEMMA KeepsHandleImport ==
  ASSUME NEW st, Good(st), NEW n \in Known(st), n \in Names
  PROVE  Keeps(st, HandleImport(st, n))
<1> DEFINE s == [st.tab[n] EXCEPT !.type = "imported", !.conds = {}, !.defined = TRUE]
<1>1. CASE st.tab[n].defined BY <1>1, KeepsItself DEF HandleImport
<1>2. CASE ~st.tab[n].defined
  <2>1. st.tab[n] \in Symbol /\ SymOK(st.tab[n]) BY DEF Good, SymOK
  <2>2. SymOK(s) /\ Stays(st.tab[n], s)
    BY <1>2, <2>1 DEF SymOK, Stays, Symbol, Types, Refs, WeakRefs, VFRefs
  <2>3. HandleImport(st, n) = Update(st, n, s) BY <1>2 DEF HandleImport
  <2> HIDE DEF s
  <2> QED BY <2>2, <2>3, KeepsUpdate
<1> QED BY <1>1, <1>2

(* References with a default *)

LEMMA KeepsDefineLazyExtdef ==
  ASSUME NEW st, Good(st), NEW n \in Known(st), n \in Names, NEW def \in Names, NEW isweak \in BOOLEAN
  PROVE  Keeps(st, DefineLazyExtdef(st, n, def, isweak))
<1> DEFINE s == [st.tab[n] EXCEPT !.type = IF isweak THEN "weak" ELSE "lazy", !.def = def]
           given == \/ HasPlace(st.tab[n]) \/ st.tab[n].type \in Refs \ {"linkweak"}
                    \/ st.tab[n].old /\ st.tab[n].type # "linkweak"
<1>1. CASE given BY <1>1, KeepsItself DEF DefineLazyExtdef
<1>2. CASE ~given
  <2>1. st.tab[n] \in Symbol /\ SymOK(st.tab[n]) /\ def # Nil BY NilAssumption DEF Good, SymOK
  <2>2. SymOK(s) /\ Stays(st.tab[n], s)
    BY <1>2, <2>1 DEF HasPlace, SymOK, Stays, Symbol, Types, Refs, WeakRefs, VFRefs
  <2>3. DefineLazyExtdef(st, n, def, isweak) = Update(st, n, s) BY <1>2 DEF DefineLazyExtdef
  <2> HIDE DEF s
  <2> QED BY <2>2, <2>3, KeepsUpdate
<1> QED BY <1>1, <1>2

LEMMA ConvertedStays ==
  ASSUME NEW s, SymOK(s), s.type \in VFRefs
  PROVE  SymOK(ConvertVFSym(s)) /\ Stays(s, ConvertVFSym(s))
BY DEF ConvertVFSym, SymOK, Stays, Symbol, Types, Refs, WeakRefs, VFRefs

LEMMA KeepsCheckVFList ==
  ASSUME NEW st, Good(st), NEW n \in Known(st), n \in Names, st.tab[n].type \in VFRefs
  PROVE  Keeps(st, CheckVFList(st, n))
BY KeepsItself, KeepsUpdate, ConvertedStays DEF CheckVFList, Good

LEMMA KeepsGetVFList ==
  ASSUME NEW st, Good(st), NEW c \in Names, NEW def \in Names
  PROVE  /\ Keeps(st, GetVFList(st, c, def))
         /\ \A n \in Known(st) : GetVFList(st, c, def).tab[n] = st.tab[n]
<1> DEFINE s == [st.tab[c] EXCEPT !.type = "linkweak", !.def = def]
           mid == AddSym(st, c)
<1>1. CASE c \in Known(st) BY <1>1, KeepsItself DEF GetVFList
<1>2. CASE c \notin Known(st)
  <2>1. Keeps(st, mid) /\ mid.tab = st.tab /\ Good(mid) /\ c \in Known(mid) BY KeepsAddSym DEF Keeps
  <2>2. st.tab[c] = Fresh BY <1>2 DEF Good
  <2>3. SymOK(s) /\ Stays(st.tab[c], s)
    <3>1. st.tab[c] \in Symbol /\ def # Nil BY NilAssumption DEF Good, SymOK
    <3>2. ~st.tab[c].old /\ ~st.tab[c].defined /\ ~st.tab[c].placed BY <2>2 DEF Fresh
    <3> QED BY <3>1, <3>2 DEF SymOK, Stays, Symbol, Types, Refs, WeakRefs, VFRefs
  <2>4. GetVFList(st, c, def) = Update(mid, c, s) BY <1>2 DEF GetVFList, MakeWeakExtdef
  <2> HIDE DEF s, mid
  <2>5. Keeps(mid, Update(mid, c, s)) BY <2>1, <2>3, KeepsUpdate
  <2>6. \A n \in Known(st) : Update(mid, c, s).tab[n] = st.tab[n]
    <3>1. ASSUME NEW n \in Known(st) PROVE n \in Names /\ n # c
      BY <1>2 DEF Known, Good, Table
    <3>2. mid.tab \in [Names -> Symbol] /\ mid \in Table BY <2>1 DEF Good, Table
    <3> QED BY <2>1, <3>1, <3>2 DEF Update, Table
  <2> QED BY <2>1, <2>4, <2>5, <2>6, KeepsOn
<1> QED BY <1>1, <1>2

LEMMA KeepsDefineVFTableRecord ==
  ASSUME NEW st, Good(st), NEW n \in Known(st), n \in Names, NEW def \in Names, NEW c \in Names,
         NEW ispure \in BOOLEAN
  PROVE  Keeps(st, DefineVFTableRecord(st, n, def, c, ispure))
<1> DEFINE new == GetVFList(st, c, def)
           s   == [new.tab[n] EXCEPT !.type = IF ispure THEN "pure" ELSE "vf", !.def = def, !.conds = {c}]
           rec == DefineVFTableRecord(st, n, def, c, ispure)
<1>1. Keeps(st, new) /\ Good(new) /\ new.tab[n] = st.tab[n] /\ n \in Known(new)
  BY KeepsGetVFList, KnownGrows DEF Keeps
<1>2. st.tab[n] \in Symbol /\ SymOK(st.tab[n]) /\ def # Nil BY NilAssumption DEF Good, SymOK
<1> HIDE DEF new
<1>3. CASE HasPlace(st.tab[n]) BY <1>3, KeepsItself DEF DefineVFTableRecord
<1>4. CASE ~HasPlace(st.tab[n]) /\ st.tab[n].type \in VFRefs
  <2>1. Keeps(new, CheckVFList(new, n)) BY <1>1, <1>4, KeepsCheckVFList
  <2>2. rec = new \/ rec = CheckVFList(new, n) BY <1>4 DEF DefineVFTableRecord, new
  <2> QED BY <1>1, <2>1, <2>2, KeepsOn
<1>5. CASE ~HasPlace(st.tab[n]) /\ st.tab[n].type \notin VFRefs /\ st.tab[n].type \notin Refs /\ st.tab[n].old
  BY <1>5, KeepsItself DEF DefineVFTableRecord
<1>6. CASE ~HasPlace(st.tab[n]) /\ st.tab[n].type \notin VFRefs /\ (st.tab[n].type \in Refs \/ ~st.tab[n].old)
  <2>1. SymOK(s) /\ Stays(new.tab[n], s)
    BY <1>1, <1>2, <1>6 DEF HasPlace, SymOK, Stays, Symbol, Types, Refs, WeakRefs, VFRefs
  <2>2. rec = new \/ rec = Update(new, n, s) BY <1>6 DEF DefineVFTableRecord, new
  <2> HIDE DEF s
  <2>3. Keeps(new, Update(new, n, s)) BY <1>1, <2>1, KeepsUpdate
  <2> QED BY <1>1, <2>2, <2>3, KeepsOn
<1> QED BY <1>3, <1>4, <1>5, <1>6

LEMMA KeepsMarkVF ==
  ASSUME NEW st, Good(st), NEW n \in Known(st), n \in Names
  PROVE  Keeps(st, MarkVF(st, n))
<1> DEFINE s == [st.tab[n] EXCEPT !.marked = TRUE]
<1>0. SymOK(st.tab[n]) BY DEF Good
<1>1. SymOK(s) /\ Stays(st.tab[n], s) BY <1>0 DEF SymOK, Stays, Symbol
<1>2. MarkVF(st, n) = st \/ MarkVF(st, n) = Update(st, n, s) BY DEF MarkVF
<1> HIDE DEF s
<1> QED BY <1>1, <1>2, KeepsItself, KeepsUpdate

(* The whole table *)

LEMMA KeepsResolveVFExtdefs ==
  ASSUME NEW st, Good(st) PROVE Keeps(st, ResolveVFExtdefs(st))
<1> DEFINE f == [n \in Names |-> IF n \in Conditionals(st) THEN ConvertVFSym(st.tab[n]) ELSE st.tab[n]]
<1>1. ASSUME NEW n \in Names
      PROVE  SymOK(f[n]) /\ Stays(st.tab[n], f[n]) /\ (n \in Known(st) \/ f[n] = st.tab[n])
  BY ConvertedStays DEF Good, Conditionals, Stays
<1>2. f \in [Names -> Symbol] BY <1>1 DEF SymOK
<1>3. ResolveVFExtdefs(st) = [st EXCEPT !.tab = f] BY DEF ResolveVFExtdefs, Good, Table
<1> HIDE DEF f
<1> QED BY <1>1, <1>2, <1>3, KeepsTab

LEMMA KeepsCollapseLazyExtdefs ==
  ASSUME NEW st, Good(st), NEW C, C \subseteq Known(st), NEW srch,
         \A n \in C : st.tab[n].type \in Refs
  PROVE  /\ Keeps(st, CollapseLazyExtdefs(st, C, srch))
         /\ CollapseLazyExtdefs(st, C, srch).order = st.order
         /\ \A n \in C : CollapseLazyExtdefs(st, C, srch).tab[n].type = "regular"
         /\ \A n \in Names \ C : CollapseLazyExtdefs(st, C, srch).tab[n] = st.tab[n]
<1> DEFINE f == [n \in Names |-> IF n \in C THEN Plainly(st.tab[n], srch) ELSE st.tab[n]]
<1>0. Known(st) \subseteq Names BY DEF Known, Good, Table
<1>1. ASSUME NEW n \in Names
      PROVE  SymOK(f[n]) /\ Stays(st.tab[n], f[n]) /\ (n \in Known(st) \/ f[n] = st.tab[n])
  <2>1. SymOK(st.tab[n]) BY DEF Good
  <2>2. CASE n \in C
    <3>1. f[n] = Plainly(st.tab[n], srch) /\ st.tab[n].type \in Refs BY <2>2
    <3> QED BY <2>1, <2>2, <3>1 DEF Plainly, SymOK, Stays, Symbol, Types, Refs, WeakRefs, VFRefs
  <2>3. CASE n \notin C BY <2>1, <2>3 DEF Stays
  <2> QED BY <2>2, <2>3
<1>2. f \in [Names -> Symbol] BY <1>1 DEF SymOK
<1>3. CollapseLazyExtdefs(st, C, srch) = [st EXCEPT !.tab = f] BY DEF CollapseLazyExtdefs
<1>4. \A n \in C : f[n].type = "regular"
  <2> TAKE n \in C
  <2>1. n \in Names /\ st.tab[n] \in Symbol BY <1>0 DEF Good, SymOK
  <2>2. f[n] = Plainly(st.tab[n], srch) BY <2>1
  <2>3. Plainly(st.tab[n], srch).type = "regular" BY <2>1 DEF Plainly, Symbol
  <2> QED BY <2>2, <2>3
<1>5. \A n \in Names \ C : f[n] = st.tab[n] OBVIOUS
<1> HIDE DEF f
<1>6. [st EXCEPT !.tab = f].tab = f /\ [st EXCEPT !.tab = f].order = st.order BY DEF Good, Table
<1> QED BY <1>1, <1>2, <1>3, <1>4, <1>5, <1>6, KeepsTab

LEMMA KeepsConvertLazyRefs ==
  ASSUME NEW st, Good(st) PROVE Keeps(st, ConvertLazyRefs(st))
<1> DEFINE g(n) == [WeldSyms(st, n).tab[n] EXCEPT !.conds = {}]
           f == [n \in Names |-> IF n \in Known(st) /\ st.tab[n].type \in Refs THEN g(n) ELSE st.tab[n]]
<1>1. ASSUME NEW n \in Names
      PROVE  SymOK(f[n]) /\ Stays(st.tab[n], f[n]) /\ (n \in Known(st) \/ f[n] = st.tab[n])
  <2>1. SymOK(st.tab[n]) /\ st.tab[n] \in Symbol BY DEF Good, SymOK
  <2>2. CASE n \in Known(st) /\ st.tab[n].type \in Refs
    <3> DEFINE w == WeldSyms(st, n).tab[n]
    <3>1. ~st.tab[n].placed BY <2>1, <2>2 DEF SymOK, Refs, WeakRefs, VFRefs
    <3>2. SymOK(w) /\ Stays(st.tab[n], w) /\ w.type = "alias"
      <4>1. st.tab[n].def # Nil /\ st.tab[n].def \in Names BY <2>1, <2>2 DEF SymOK, Symbol
      <4>2. w = SetSymAlias(st, n, st.tab[n].def).tab[n] BY <4>1 DEF WeldSyms
      <4>3. Keeps(st, SetSymAlias(st, n, st.tab[n].def)) BY <2>2, <3>1, <4>1, KeepsAlias
      <4>4. SetSymAlias(st, n, st.tab[n].def).tab[n].type = "alias"
        BY <2>1, <4>1 DEF SetSymAlias, Update, Symbol, Good, Table
      <4> QED BY <4>2, <4>3, <4>4 DEF Keeps, Good
    <3>3. f[n] = [w EXCEPT !.conds = {}] BY <2>2
    <3> HIDE DEF w
    <3> QED BY <2>2, <3>2, <3>3 DEF SymOK, Stays, Symbol, Refs, WeakRefs, VFRefs
  <2>3. CASE ~(n \in Known(st) /\ st.tab[n].type \in Refs) BY <2>1, <2>3 DEF Stays
  <2> QED BY <2>2, <2>3
<1>2. f \in [Names -> Symbol] BY <1>1 DEF SymOK
<1>3. ConvertLazyRefs(st) = [st EXCEPT !.tab = f] BY DEF ConvertLazyRefs, Good, Table
<1> HIDE DEF f
<1> QED BY <1>1, <1>2, <1>3, KeepsTab

LEMMA KeepsSymModEnd ==
  ASSUME NEW st, Good(st), NEW first \in Nat
  PROVE  /\ Keeps(st, SymModEnd(st, first))
         /\ SymModEnd(st, first).order = st.order
         /\ \A n \in Names : SymModEnd(st, first).tab[n].type = st.tab[n].type
         /\ \A i \in (first + 1)..Len(st.order) : SymModEnd(st, first).tab[st.order[i]].old
<1> DEFINE new(n) == \E i \in (first + 1)..Len(st.order) : st.order[i] = n
           f == [n \in Names |-> IF new(n) THEN [st.tab[n] EXCEPT !.old = TRUE] ELSE st.tab[n]]
<1>0. st.order \in Seq(Names) /\ Len(st.order) \in Nat BY DEF Good, Table
<1>1. ASSUME NEW n \in Names
      PROVE  /\ SymOK(f[n]) /\ Stays(st.tab[n], f[n]) /\ (n \in Known(st) \/ f[n] = st.tab[n])
             /\ f[n].type = st.tab[n].type /\ (new(n) => f[n].old)
  <2>1. SymOK(st.tab[n]) /\ st.tab[n] \in Symbol BY DEF Good, SymOK
  <2>2. CASE new(n)
    <3>1. n \in Known(st) BY <1>0, <2>2 DEF Known
    <3>2. f[n] = [st.tab[n] EXCEPT !.old = TRUE] BY <2>2
    <3> QED BY <2>1, <3>1, <3>2 DEF SymOK, Stays, Symbol
  <2>3. CASE ~new(n)
    <3>1. f[n] = st.tab[n] BY <2>3
    <3> QED BY <2>1, <2>3, <3>1 DEF Stays
  <2> QED BY <2>2, <2>3
<1>2. f \in [Names -> Symbol] BY <1>1 DEF SymOK
<1>3. SymModEnd(st, first) = [st EXCEPT !.tab = f] BY DEF SymModEnd
<1>4. [st EXCEPT !.tab = f].tab = f /\ [st EXCEPT !.tab = f].order = st.order BY DEF Good, Table
<1>5. ASSUME NEW i \in (first + 1)..Len(st.order) PROVE f[st.order[i]].old
  <2>1. st.order[i] \in Names /\ new(st.order[i]) BY <1>0
  <2> QED BY <1>1, <2>1
<1> HIDE DEF f, new
<1> QED BY <1>1, <1>2, <1>3, <1>4, <1>5, KeepsTab

-----------------------------------------------------------------------------
(* The steps *)

Ext == [entry : Names, isweak : BOOLEAN]
ModOK ==
  /\ mod = [open |-> mod.open, lib |-> mod.lib, for |-> mod.for, first |-> mod.first,
            exts |-> mod.exts, pubs |-> mod.pubs, left |-> mod.left]
  /\ mod.first \in Nat /\ mod.first <= Len(syms.order)
  /\ mod.exts \in Seq(Ext)
  /\ \A i \in 1..Len(mod.exts) : mod.exts[i].entry \in Known(syms)
  /\ mod.lib # Nil => mod.open /\ pos \in 1..Len(syms.order)

LEMMA KnownNames == ASSUME NEW st, Good(st) PROVE Known(st) \subseteq Names
BY DEF Known, Good, Table

(* A module that reads a record keeps its references, and may add a known one. *)
LEMMA ModKeeps ==
  ASSUME Good(syms), ModOK, Keeps(syms, syms'),
         NEW exts \in Seq(Ext), NEW pubs, Read(exts, pubs), pos' = pos,
         \A i \in 1..Len(exts) : exts[i].entry \in Known(syms')
  PROVE  ModOK'
<1>1. mod' = [mod EXCEPT !.left = @ - 1, !.exts = exts, !.pubs = pubs] BY DEF Read
<1>2. /\ mod' = [open |-> mod'.open, lib |-> mod'.lib, for |-> mod'.for, first |-> mod'.first,
                exts |-> mod'.exts, pubs |-> mod'.pubs, left |-> mod'.left]
      /\ mod'.first = mod.first /\ mod'.exts = exts /\ mod'.lib = mod.lib /\ mod'.open = mod.open
  BY <1>1 DEF ModOK
<1>3. Len(syms.order) <= Len(syms'.order) /\ Len(syms.order) \in Nat /\ Len(syms'.order) \in Nat
  BY DEF Keeps, Prefix, Good, Table
<1> QED BY <1>2, <1>3 DEF ModOK

LEMMA ModSame ==
  ASSUME Good(syms), ModOK, Keeps(syms, syms'), mod' = mod, mod.lib = Nil \/ pos' = pos
  PROVE  ModOK'
<1>1. Len(syms.order) <= Len(syms'.order) /\ Len(syms.order) \in Nat /\ Len(syms'.order) \in Nat
  BY DEF Keeps, Prefix, Good, Table
<1>2. Known(syms) \subseteq Known(syms') BY KnownGrows
<1> QED BY <1>1, <1>2 DEF ModOK

LEMMA ModNew ==
  ASSUME Good(syms'), syms'.order = syms.order, NEW l, NEW n,
         \/ mod' = Module(l, n) /\ (l # Nil => pos' \in 1..Len(syms.order))
         \/ mod' = NoModule
  PROVE  ModOK'
<1>1. Len(syms'.order) \in Nat BY DEF Good, Table
<1>2. mod'.first \in Nat /\ mod'.first <= Len(syms'.order) /\ mod'.exts = <<>>
  BY <1>1 DEF Module, NoModule
<1>3. mod' = [open |-> mod'.open, lib |-> mod'.lib, for |-> mod'.for, first |-> mod'.first,
              exts |-> mod'.exts, pubs |-> mod'.pubs, left |-> mod'.left]
  BY DEF Module, NoModule
<1>4. <<>> \in Seq(Ext) /\ Len(<<>>) = 0 OBVIOUS
<1>5. mod'.lib # Nil => mod'.open /\ pos' \in 1..Len(syms'.order) BY DEF Module, NoModule
<1> QED BY <1>2, <1>3, <1>4, <1>5 DEF ModOK

(* Plain references go into the list of the module. *)
LEMMA AppendExt ==
  ASSUME Good(syms), ModOK, Keeps(syms, syms'), NEW m \in Names, m \in Known(syms'),
         NEW exts, exts = Append(mod.exts, [entry |-> m, isweak |-> FALSE])
  PROVE  exts \in Seq(Ext) /\ \A i \in 1..Len(exts) : exts[i].entry \in Known(syms')
<1>1. [entry |-> m, isweak |-> FALSE] \in Ext BY DEF Ext
<1>2. exts \in Seq(Ext) /\ Len(exts) = Len(mod.exts) + 1 BY <1>1 DEF ModOK
<1>3. Known(syms) \subseteq Known(syms') BY KnownGrows
<1>4. ASSUME NEW i \in 1..Len(exts) PROVE exts[i].entry \in Known(syms')
  <2>1. CASE i = Len(mod.exts) + 1 BY <1>2, <2>1 DEF ModOK
  <2>2. CASE i # Len(mod.exts) + 1
    <3>1. i \in 1..Len(mod.exts) /\ exts[i] = mod.exts[i] BY <1>2, <2>2 DEF ModOK
    <3> QED BY <1>3, <3>1 DEF ModOK
  <2> QED BY <2>1, <2>2
<1> QED BY <1>2, <1>4

LEMMA WeakenedExt ==
  ASSUME Good(syms), ModOK, Keeps(syms, syms'), NEW i \in DOMAIN mod.exts
  PROVE  Weakened(i) \in Seq(Ext) /\ \A j \in 1..Len(Weakened(i)) : Weakened(i)[j].entry \in Known(syms')
<1>1. mod.exts \in Seq(Ext) /\ i \in 1..Len(mod.exts) BY DEF ModOK
<1>2. mod.exts[i] \in Ext BY <1>1
<1>3. [mod.exts[i] EXCEPT !.isweak = TRUE] \in Ext BY <1>2 DEF Ext
<1>4. Weakened(i) = [mod.exts EXCEPT ![i] = [mod.exts[i] EXCEPT !.isweak = TRUE]] BY DEF Weakened
<1>5. Weakened(i) \in Seq(Ext) /\ Len(Weakened(i)) = Len(mod.exts) BY <1>1, <1>3, <1>4
<1>6. \A j \in 1..Len(mod.exts) : Weakened(i)[j].entry = mod.exts[j].entry
  BY <1>1, <1>2, <1>4 DEF Ext
<1>7. Known(syms) \subseteq Known(syms') BY KnownGrows
<1> QED BY <1>5, <1>6, <1>7 DEF ModOK

(* An external reference of the module *)
LEMMA EntryKnown ==
  ASSUME Good(syms), ModOK, NEW i \in DOMAIN mod.exts
  PROVE  mod.exts[i].entry \in Known(syms) /\ mod.exts[i].entry \in Names
<1>1. i \in 1..Len(mod.exts) BY DEF ModOK
<1> QED BY <1>1, KnownNames DEF ModOK

(* What the end of a module does, besides keeping the table: everything it *)
(* made is old, and what it asked for plainly is no reference with a default. *)
LEMMA EndModuleKeeps ==
  ASSUME Good(syms), ModOK, EndModule
  PROVE  /\ Keeps(syms, syms') /\ ModOK'
         /\ syms'.order = syms.order
         /\ \A i \in (mod.first + 1)..Len(syms.order) : tab'[syms.order[i]].old
         /\ \A n \in Plain : n \in Known(syms) /\ tab'[n].type \notin Refs
<1> DEFINE lost == {n \in Plain : tab[n].type \in Refs}
           cut  == CollapseLazyExtdefs(syms, lost, searching)
           new  == SymModEnd(cut, mod.first)
           at   == syms.order[pos]
<1>1. Plain \subseteq Known(syms) /\ Plain \subseteq Names
  BY EntryKnown DEF Plain, ModOK
<1>2. /\ Keeps(syms, cut) /\ Good(cut) /\ cut.order = syms.order
      /\ \A n \in lost : cut.tab[n].type = "regular"
      /\ \A n \in Names \ lost : cut.tab[n] = tab[n]
  <2>1. lost \subseteq Known(syms) /\ \A n \in lost : syms.tab[n].type \in Refs BY <1>1 DEF tab
  <2> HIDE DEF lost
  <2>2. /\ Keeps(syms, cut) /\ cut.order = syms.order
        /\ \A n \in lost : cut.tab[n].type = "regular"
        /\ \A n \in Names \ lost : cut.tab[n] = syms.tab[n]
    <3> DEFINE c(C) == CollapseLazyExtdefs(syms, C, searching)
    <3>1. ASSUME NEW C, C \subseteq Known(syms), \A n \in C : syms.tab[n].type \in Refs
          PROVE  /\ Keeps(syms, c(C)) /\ c(C).order = syms.order
                 /\ \A n \in C : c(C).tab[n].type = "regular"
                 /\ \A n \in Names \ C : c(C).tab[n] = syms.tab[n]
      <4> HIDE DEF c
      <4>1. Keeps(syms, c(C)) BY <3>1, KeepsCollapseLazyExtdefs DEF c
      <4> QED BY <4>1, <3>1, KeepsCollapseLazyExtdefs DEF c
    <3> HIDE DEF c
    <3>2. Keeps(syms, c(lost)) BY <2>1, <3>1
    <3> QED BY <2>1, <3>1 DEF c
  <2> HIDE DEF cut
  <2> QED BY <2>2 DEF Keeps, tab
<1>3. \A n \in Plain : cut.tab[n].type \notin Refs
  BY <1>1, <1>2 DEF Refs, WeakRefs, VFRefs
<1>4. mod.first \in Nat BY DEF ModOK
<1> HIDE DEF lost, cut
<1>5. /\ Keeps(cut, new) /\ Good(new) /\ new.order = cut.order
      /\ \A n \in Names : new.tab[n].type = cut.tab[n].type
      /\ \A i \in (mod.first + 1)..Len(cut.order) : new.tab[cut.order[i]].old
  BY <1>2, <1>4, KeepsSymModEnd DEF Keeps
<1>6. syms' = IF mod.lib = Nil THEN new ELSE [new EXCEPT !.tab[at].checked = TRUE]
  BY DEF EndModule, new, cut, lost
<1> HIDE DEF new, at
<1>7. /\ Keeps(new, syms') /\ syms'.order = new.order
      /\ \A n \in Names : syms'.tab[n].type = new.tab[n].type /\ syms'.tab[n].old = new.tab[n].old
  <2>1. CASE mod.lib = Nil BY <1>5, <1>6, <2>1, KeepsItself
  <2>2. CASE mod.lib # Nil
    <3> DEFINE s == [new.tab[at] EXCEPT !.checked = TRUE]
    <3>1. at \in Known(new) /\ at \in Names
      <4>1. at \in Known(syms) BY <2>2 DEF ModOK, Known, at
      <4> QED BY <1>2, <1>5, <4>1, KnownGrows, KnownNames
    <3>2. new.tab[at] \in Symbol /\ SymOK(new.tab[at]) BY <1>5, <3>1 DEF Good, SymOK
    <3>3. SymOK(s) /\ Stays(new.tab[at], s) /\ s.type = new.tab[at].type /\ s.old = new.tab[at].old
      BY <3>2 DEF SymOK, Stays, Symbol
    <3>4. syms' = Update(new, at, s) BY <1>6, <2>2 DEF Update
    <3> HIDE DEF s
    <3>5. Keeps(new, syms') BY <1>5, <3>1, <3>3, <3>4, KeepsUpdate
    <3>6. syms'.order = new.order /\ syms'.tab = [new.tab EXCEPT ![at] = s]
      BY <1>5, <3>4 DEF Update, Good, Table
    <3>7. new.tab \in [Names -> Symbol] BY <1>5 DEF Good, Table
    <3> QED BY <3>3, <3>5, <3>6, <3>7
  <2> QED BY <2>1, <2>2
<1>8. Keeps(syms, syms') /\ syms'.order = syms.order BY <1>2, <1>5, <1>7, KeepsOn
<1>9. ModOK'
  <2>1. mod' = NoModule BY DEF EndModule
  <2> QED BY <1>8, <2>1, ModNew DEF Keeps
<1>10. \A n \in Names : tab'[n].type = cut.tab[n].type BY <1>5, <1>7 DEF tab
<1>11. ASSUME NEW i \in (mod.first + 1)..Len(syms.order) PROVE tab'[syms.order[i]].old
  <2>1. syms.order[i] \in Names BY <1>4 DEF Good, Table
  <2> QED BY <1>2, <1>5, <1>7, <2>1 DEF tab
<1> QED BY <1>1, <1>3, <1>8, <1>9, <1>10, <1>11

-----------------------------------------------------------------------------
(* What a step is as far as the age of the symbols is concerned: a record,  *)
(* the end of a module, a step that makes no symbol, or a directive that    *)
(* makes symbols outside every module. *)
Kind ==
  \/ mod.open /\ mod'.open /\ mod'.first = mod.first /\ strong' = strong
  \/ EndModule
  \/ syms'.order = syms.order /\ strong' = strong /\ (mod' = mod \/ (~mod.open /\ mod'.first = Len(syms.order)))
  \/ Directives \cap {"reference", "alias"} # {}

Fine == Keeps(syms, syms') /\ ModOK' /\ Kind

(* A record whose effect Keeps the table and whose module still names known symbols *)
LEMMA RecordFine ==
  ASSUME Good(syms), ModOK, NEW kind, NEW k, Record(kind, k), Keeps(syms, syms'),
         NEW exts \in Seq(Ext), NEW pubs, Read(exts, pubs),
         \A i \in 1..Len(exts) : exts[i].entry \in Known(syms')
  PROVE  Fine
<1>1. pos' = pos /\ strong' = strong /\ mod.open BY DEF Record
<1>2. ModOK' BY <1>1, ModKeeps
<1>3. mod' = [mod EXCEPT !.left = @ - 1, !.exts = exts, !.pubs = pubs] BY DEF Read
<1>4. mod'.open /\ mod'.first = mod.first BY <1>1, <1>3 DEF ModOK
<1> QED BY <1>1, <1>2, <1>4 DEF Fine, Kind

LEMMA SameExts ==
  ASSUME Good(syms), ModOK, Keeps(syms, syms')
  PROVE  mod.exts \in Seq(Ext) /\ \A i \in 1..Len(mod.exts) : mod.exts[i].entry \in Known(syms')
BY KnownGrows DEF ModOK

LEMMA SymbolRecordFine ==
  ASSUME Good(syms), ModOK, NEW n \in Names, ExtDef(n) \/ PubDef(n) \/ ComDef(n) \/ ImpDef(n)
  PROVE  Fine
<1> DEFINE new == SymOp(syms, n)
           m   == UnaliasSym(tab, n)
           add == Append(mod.exts, [entry |-> m, isweak |-> FALSE])
<1>0. Keeps(syms, new) /\ Good(new) /\ m \in Known(new) /\ m \in Names
  BY KeepsSymOp, UnaliasName DEF Keeps, tab
<1> HIDE DEF new, m
<1>1. CASE ExtDef(n)
  <2>1. Record("ext", Nil) /\ syms' = new /\ Read(add, mod.pubs) BY <1>1 DEF ExtDef, new, m
  <2>2. add \in Seq(Ext) /\ \A i \in 1..Len(add) : add[i].entry \in Known(syms')
    BY <1>0, <2>1, AppendExt
  <2> QED BY <1>0, <2>1, <2>2, RecordFine
<1>2. CASE PubDef(n)
  <2>1. Record("pub", n) /\ syms' = DefineSymbol(syms, n) /\ Read(mod.exts, mod.pubs \cup {n})
    BY <1>2 DEF PubDef
  <2>2. Keeps(syms, syms') BY <2>1, KeepsDefineSymbol
  <2> QED BY <2>1, <2>2, SameExts, RecordFine
<1>3. CASE ComDef(n)
  <2>1. Record("com", Nil) /\ syms' = MakeCommunalSym(new, m) /\ Read(add, mod.pubs)
    BY <1>3 DEF ComDef, new, m
  <2>2. Keeps(new, syms') BY <1>0, <2>1, KeepsMakeCommunalSym
  <2>3. Keeps(syms, syms') /\ m \in Known(syms') BY <1>0, <2>2, KeepsOn, KnownGrows
  <2>4. add \in Seq(Ext) /\ \A i \in 1..Len(add) : add[i].entry \in Known(syms')
    BY <1>0, <2>3, AppendExt
  <2> QED BY <2>1, <2>3, <2>4, RecordFine
<1>4. CASE ImpDef(n)
  <2>1. Record("imp", Nil) /\ syms' = HandleImport(new, m) /\ Read(mod.exts, mod.pubs)
    BY <1>4 DEF ImpDef, new, m
  <2>2. Keeps(new, syms') BY <1>0, <2>1, KeepsHandleImport
  <2>3. Keeps(syms, syms') BY <1>0, <2>2, KeepsOn
  <2> QED BY <2>1, <2>3, SameExts, RecordFine
<1> QED BY <1>1, <1>2, <1>3, <1>4

LEMMA ReadRecordFine == ASSUME Good(syms), ModOK, ReadRecord PROVE Fine
<1>1. ASSUME NEW p \in Aliases, Alias(p[1], p[2]) PROVE Fine
  <2>1. p[1] \in Names /\ p[2] \in Names BY AliasesAssumption
  <2>2. /\ Record("alias", Nil) /\ Read(mod.exts, mod.pubs)
        /\ syms' = IF tab[p[1]].defined THEN syms ELSE MakeSymAlias(syms, p[1], p[2], Nil)
    BY <1>1 DEF Alias
  <2>3. Keeps(syms, MakeSymAlias(syms, p[1], p[2], Nil)) BY <2>1, KeepsMakeSymAlias
  <2>4. Keeps(syms, syms') BY <2>2, <2>3, KeepsItself
  <2> QED BY <2>2, <2>4, SameExts, RecordFine
<1>2. ASSUME NEW i \in DOMAIN mod.exts, NEW j \in DOMAIN mod.exts, NEW kind \in {"lazy", "weak"},
             LazyExtdef(kind, i, j)
      PROVE  Fine
  <2>1. /\ Record(kind, Nil) /\ Read(Weakened(i), mod.pubs)
        /\ syms' = DefineLazyExtdef(syms, mod.exts[i].entry, mod.exts[j].entry, kind = "weak")
    BY <1>2 DEF LazyExtdef
  <2>2. mod.exts[i].entry \in Known(syms) /\ mod.exts[i].entry \in Names /\ mod.exts[j].entry \in Names
    BY EntryKnown
  <2>3. Keeps(syms, syms') BY <2>1, <2>2, KeepsDefineLazyExtdef
  <2> QED BY <2>1, <2>3, WeakenedExt, RecordFine
<1>3. ASSUME NEW i \in DOMAIN mod.exts, NEW j \in DOMAIN mod.exts, NEW kind \in {"vf", "pure"},
             NEW c \in Names, VFTable(kind, i, j, c)
      PROVE  Fine
  <2> DEFINE m == UnaliasSym(tab, c)
  <2>1. /\ Record(kind, Nil) /\ Read(Weakened(i), mod.pubs)
        /\ syms' = DefineVFTableRecord(syms, mod.exts[i].entry, mod.exts[j].entry, m, kind = "pure")
    BY <1>3 DEF VFTable
  <2>2. mod.exts[i].entry \in Known(syms) /\ mod.exts[i].entry \in Names /\ mod.exts[j].entry \in Names
    BY EntryKnown
  <2>3. m \in Names BY UnaliasName DEF tab
  <2> HIDE DEF m
  <2>4. Keeps(syms, syms') BY <2>1, <2>2, <2>3, KeepsDefineVFTableRecord
  <2> QED BY <2>1, <2>4, WeakenedExt, RecordFine
<1>4. ASSUME NEW i \in DOMAIN mod.exts, VFReference(i) PROVE Fine
  <2>1. Record("vfref", Nil) /\ Read(mod.exts, mod.pubs) /\ syms' = MarkVF(syms, mod.exts[i].entry)
    BY <1>4 DEF VFReference
  <2>2. mod.exts[i].entry \in Known(syms) /\ mod.exts[i].entry \in Names BY EntryKnown
  <2>3. Keeps(syms, syms') BY <2>1, <2>2, KeepsMarkVF
  <2> QED BY <2>1, <2>3, SameExts, RecordFine
<1>5. ASSUME NEW l \in Libs, DefaultLib(l) PROVE Fine
  <2>1. Record("lib", Nil) /\ Read(mod.exts, mod.pubs) /\ syms' = syms BY <1>5 DEF DefaultLib
  <2>2. Keeps(syms, syms') BY <2>1, KeepsItself
  <2> QED BY <2>1, <2>2, SameExts, RecordFine
<1> QED BY <1>1, <1>2, <1>3, <1>4, <1>5, SymbolRecordFine DEF ReadRecord

(* A step that makes no symbol and starts no module *)
LEMMA QuietFine ==
  ASSUME Good(syms), ModOK, Keeps(syms, syms'), syms'.order = syms.order,
         mod' = mod, strong' = strong, mod.lib = Nil \/ pos' = pos
  PROVE  Fine
BY ModSame DEF Fine, Kind

LEMMA DirectiveFine ==
  ASSUME Good(syms), ModOK, NEW kind, Directive(kind), Keeps(syms, syms'),
         \/ kind \in {"reference", "alias"}
         \/ syms' = syms /\ strong' = strong
  PROVE  Fine
<1>1. mod' = mod /\ pos' = pos /\ kind \in Directives BY DEF Directive
<1>2. ModOK' BY <1>1, ModSame
<1> QED BY <1>1, <1>2 DEF Fine, Kind

(* A module of an object file, or of a library for the symbol at hand, begins. *)
LEMMA ModuleFine ==
  ASSUME Good(syms), ModOK, NEW l, NEW n, mod' = Module(l, n), l # Nil => pos \in 1..Len(syms.order),
         ~mod.open, syms' = syms, strong' = strong, pos' = pos
  PROVE  Fine
<1>1. Keeps(syms, syms') /\ ModOK' BY KeepsItself, ModNew
<1>2. mod'.first = Len(syms.order) BY DEF Module
<1> QED BY <1>1, <1>2 DEF Fine, Kind

LEMMA StepFine == ASSUME Good(syms), ModOK, [Next]_vars PROVE Fine
<1>0. Keeps(syms, syms) BY KeepsItself
<1>1. ASSUME NEW n \in Names, Reference(n) PROVE Fine
  <2>1. Directive("reference") /\ syms' = SymOp(syms, n) BY <1>1 DEF Reference
  <2> QED BY <2>1, KeepsSymOp, DirectiveFine
<1>2. ASSUME NEW p \in Aliases, NEW stale, AddAlias(p[1], p[2], stale) PROVE Fine
  <2>1. Directive("alias") /\ syms' = MakeSymAlias(syms, p[1], p[2], stale) BY <1>2 DEF AddAlias
  <2>2. p[1] \in Names /\ p[2] \in Names BY AliasesAssumption
  <2>3. Keeps(syms, syms') BY <2>1, <2>2, KeepsMakeSymAlias
  <2> QED BY <2>1, <2>3, DirectiveFine
<1>3. ASSUME NEW l \in Libs, Library(l) PROVE Fine
  <2>1. Directive("library") /\ syms' = syms /\ strong' = strong BY <1>3 DEF Library
  <2> QED BY <1>0, <2>1, DirectiveFine
<1>4. CASE EndDirectives \/ BeginSweep \/ Linked \/ UNCHANGED vars
  <2>1. syms' = syms /\ mod' = mod /\ strong' = strong /\ (pos' = pos \/ pos = 0)
    BY <1>4 DEF EndDirectives, BeginSweep, Linked, vars
  <2>2. mod.lib = Nil \/ pos' = pos
    <3>1. CASE pos = 0
      <4>1. ~(pos \in 1..Len(syms.order)) BY <3>1
      <4> QED BY <4>1 DEF ModOK
    <3> QED BY <2>1, <3>1
  <2> QED BY <1>0, <2>1, <2>2, QuietFine
<1>5. CASE LoadObjFile
  <2>1. mod' = Module(Nil, Nil) /\ ~mod.open /\ syms' = syms /\ strong' = strong /\ pos' = pos
    BY <1>5 DEF LoadObjFile
  <2> QED BY <2>1, ModuleFine
<1>6. CASE LoadLibModule
  <2> DEFINE n == syms.order[pos]
  <2>1. /\ mod' = Module(LibFind(n), n) /\ ~mod.open /\ syms' = syms /\ strong' = strong
        /\ pos' = pos /\ pos \in 1..Len(syms.order)
    BY <1>6 DEF LoadLibModule, AtSymbol
  <2> QED BY <2>1, ModuleFine
<1>7. CASE mod.open /\ ReadRecord BY <1>7, ReadRecordFine
<1>8. CASE EndModule BY <1>8, EndModuleKeeps DEF Fine, Kind
<1>9. CASE EndObjects \/ EndSweep
  <2>1. /\ ~mod.open /\ mod' = mod /\ strong' = strong
        /\ syms' = syms \/ syms' = ResolveVFExtdefs(syms)
    BY <1>9 DEF EndObjects, EndSweep
  <2>2. Keeps(syms, syms') BY <1>0, <2>1, KeepsResolveVFExtdefs
  <2>3. syms'.order = syms.order BY <2>1 DEF ResolveVFExtdefs, Good, Table
  <2>4. mod.lib = Nil BY <2>1 DEF ModOK
  <2> QED BY <2>1, <2>2, <2>3, <2>4, QuietFine
<1>10. CASE PassSymbol
  <2> DEFINE n == syms.order[pos]
             s == [tab[n] EXCEPT !.checked = TRUE]
  <2>1. /\ ~mod.open /\ mod' = mod /\ strong' = strong /\ pos \in 1..Len(syms.order)
        /\ syms' = Update(syms, n, s)
    BY <1>10 DEF PassSymbol, AtSymbol
  <2>2. n \in Known(syms) /\ n \in Names
    <3>1. n \in Known(syms) BY <2>1 DEF Known
    <3> QED BY <3>1, KnownNames
  <2>3. SymOK(tab[n]) BY <2>2 DEF Good, tab
  <2>4. SymOK(s) /\ Stays(tab[n], s) BY <2>3 DEF SymOK, Stays, Symbol
  <2> HIDE DEF n, s
  <2>5. Keeps(syms, syms') BY <2>1, <2>2, <2>4, KeepsUpdate DEF tab
  <2>6. syms'.order = syms.order BY <2>1 DEF Update, Good, Table
  <2>7. mod.lib = Nil BY <2>1 DEF ModOK
  <2> QED BY <2>1, <2>5, <2>6, <2>7, QuietFine
<1>11. CASE Convert
  <2>1. mod' = mod /\ strong' = strong /\ pos' = pos /\ syms' = ConvertLazyRefs(syms)
    BY <1>11 DEF Convert
  <2>2. Keeps(syms, syms') BY <2>1, KeepsConvertLazyRefs
  <2>3. syms'.order = syms.order BY <2>1 DEF ConvertLazyRefs, Good, Table
  <2> QED BY <2>1, <2>2, <2>3, QuietFine
<1> QED
  BY <1>1, <1>2, <1>3, <1>4, <1>5, <1>6, <1>7, <1>8, <1>9, <1>10, <1>11 DEF Next

-----------------------------------------------------------------------------
(* The properties *)

LEMMA InitFine == Init => Good(syms) /\ ModOK /\ syms.order = <<>>
<1> SUFFICES ASSUME Init PROVE Good(syms) /\ ModOK /\ syms.order = <<>> OBVIOUS
<1>1. syms = NoSymbols /\ mod = NoModule BY DEF Init
<1>2. Fresh \in Symbol /\ SymOK(Fresh) BY DEF Fresh, Symbol, SymOK, Types, Refs, WeakRefs, VFRefs
<1>3. syms.order = <<>> /\ syms.tab = [n \in Names |-> Fresh] /\ syms \in Table
  BY <1>1, <1>2 DEF NoSymbols, Table
<1>4. Good(syms) BY <1>2, <1>3 DEF Good
<1>5. ModOK BY <1>1, <1>3 DEF ModOK, NoModule
<1> QED BY <1>3, <1>4, <1>5

(* Whatever the names, the libraries and the records are, a symbol that is  *)
(* defined stays defined, and one that has an address stays what it is.      *)
THEOREM SymbolsStay == Spec => DefinitionsStay
<1> DEFINE Inv == Good(syms) /\ ModOK
           Kept == \A n \in Names : /\ tab[n].defined => tab'[n].defined
                                    /\ tab[n].placed => tab'[n].placed /\ tab'[n].type = tab[n].type
<1>1. Init => Inv BY InitFine
<1>2. Inv /\ [Next]_vars => Inv' /\ Kept
  <2> SUFFICES ASSUME Inv, [Next]_vars PROVE Inv' /\ Kept OBVIOUS
  <2>1. Keeps(syms, syms') /\ ModOK' BY StepFine DEF Fine
  <2> QED BY <2>1 DEF Keeps, Stays, tab
<1> QED BY <1>1, <1>2, PTL DEF Spec, DefinitionsStay

(* Without directives that make symbols, every symbol is old but those the  *)
(* module being read has made, and what was asked for plainly is old: it    *)
(* is this age that keeps other modules from giving it a default.            *)
OldOK == \A i \in 1..Len(syms.order) : ~mod.open \/ i <= mod.first => tab[syms.order[i]].old
StrongOK == \A n \in strong : n \in Known(syms) /\ tab[n].old /\ tab[n].type \notin Refs

LEMMA StepOld ==
  ASSUME Directives \cap {"reference", "alias"} = {}, Good(syms), ModOK, OldOK, Fine
  PROVE  OldOK'
<1>1. /\ Good(syms') /\ ModOK' /\ Prefix(syms.order, syms'.order)
      /\ \A n \in Names : tab[n].old => tab'[n].old
  BY DEF Fine, Keeps, Stays, tab
<1>2. syms.order \in Seq(Names) /\ syms'.order \in Seq(Names) BY <1>1 DEF Good, Table
<1>3. Len(syms.order) \in Nat /\ Len(syms'.order) \in Nat /\ mod.first \in Nat /\ mod.first <= Len(syms.order)
  BY <1>2 DEF ModOK
<1>4. ASSUME NEW i \in 1..Len(syms.order), tab[syms.order[i]].old
      PROVE  syms'.order[i] = syms.order[i] /\ tab'[syms'.order[i]].old
  BY <1>1, <1>2, <1>4 DEF Prefix
<1>5. CASE mod.open /\ mod'.open /\ mod'.first = mod.first
  <2>1. ASSUME NEW i \in 1..Len(syms'.order), i <= mod'.first PROVE tab'[syms'.order[i]].old
    <3>1. i \in 1..Len(syms.order) /\ i <= mod.first BY <1>3, <1>5, <2>1
    <3> QED BY <1>4, <3>1 DEF OldOK
  <2> QED BY <1>5, <2>1 DEF OldOK
<1>6. CASE EndModule
  <2>1. /\ syms'.order = syms.order /\ mod.open
        /\ \A i \in (mod.first + 1)..Len(syms.order) : tab'[syms.order[i]].old
    BY <1>6, EndModuleKeeps DEF EndModule
  <2>2. ASSUME NEW i \in 1..Len(syms'.order) PROVE tab'[syms'.order[i]].old
    <3>1. CASE i <= mod.first BY <1>4, <2>1, <3>1 DEF OldOK
    <3>2. CASE i > mod.first
      <4>1. i \in (mod.first + 1)..Len(syms.order) BY <1>3, <2>1, <3>2
      <4> QED BY <2>1, <4>1
    <3> QED BY <1>3, <3>1, <3>2
  <2> QED BY <2>2 DEF OldOK
<1>7. CASE syms'.order = syms.order /\ mod' = mod
  BY <1>4, <1>7 DEF OldOK
<1>8. CASE syms'.order = syms.order /\ ~mod.open
  BY <1>4, <1>8 DEF OldOK
<1> QED BY <1>5, <1>6, <1>7, <1>8 DEF Fine, Kind

LEMMA StepStrong ==
  ASSUME Directives \cap {"reference", "alias"} = {}, Good(syms), ModOK, OldOK, StrongOK, Fine
  PROVE  StrongOK'
<1>1. OldOK' BY StepOld
<1>2. Known(syms) \subseteq Known(syms') /\ Known(syms) \subseteq Names BY KnownGrows, KnownNames DEF Fine
<1>3. ASSUME NEW n \in strong PROVE n \in Known(syms') /\ tab'[n].old /\ tab'[n].type \notin Refs
  <2>1. Stays(tab[n], tab'[n]) BY <1>2 DEF StrongOK, Fine, Keeps, tab
  <2> QED BY <1>2, <2>1 DEF StrongOK, Stays
<1>4. CASE strong' = strong BY <1>3, <1>4 DEF StrongOK
<1>5. CASE EndModule
  <2>1. strong' = strong \cup Plain /\ ~mod'.open BY <1>5 DEF EndModule, NoModule
  <2>2. ASSUME NEW n \in Plain PROVE n \in Known(syms') /\ tab'[n].old /\ tab'[n].type \notin Refs
    <3>1. n \in Known(syms') /\ tab'[n].type \notin Refs BY <1>2, <1>5, EndModuleKeeps
    <3>2. PICK i \in 1..Len(syms'.order) : n = syms'.order[i] BY <3>1 DEF Known
    <3>3. tab'[n].old BY <1>1, <2>1, <3>2 DEF OldOK
    <3> QED BY <3>1, <3>3
  <2> QED BY <1>3, <2>1, <2>2 DEF StrongOK
<1> QED BY <1>4, <1>5 DEF Fine, Kind

(* As long as the command line makes no symbols, what one module asks for   *)
(* plainly never gets a default, in whatever order modules are read.         *)
THEOREM PlainStaysPlain ==
  ASSUME Directives \cap {"reference", "alias"} = {}
  PROVE  Spec => []StrongStaysStrong
<1> DEFINE Inv == Good(syms) /\ ModOK /\ OldOK /\ StrongOK
<1>1. Init => Inv
  <2> SUFFICES ASSUME Init PROVE Inv OBVIOUS
  <2>1. Good(syms) /\ ModOK /\ Len(syms.order) = 0 BY InitFine
  <2>2. strong = {} BY DEF Init
  <2> QED BY <2>1, <2>2 DEF OldOK, StrongOK
<1>2. Inv /\ [Next]_vars => Inv'
  <2> SUFFICES ASSUME Inv, [Next]_vars PROVE Inv' OBVIOUS
  <2>1. Fine BY StepFine
  <2> QED BY <2>1, StepOld, StepStrong DEF Fine, Keeps
<1>3. Inv => StrongStaysStrong BY DEF StrongOK, StrongStaysStrong
<1> QED BY <1>1, <1>2, <1>3, PTL DEF Spec
-----------------------------------------------------------------------------
(* The list of libraries *)

Entry == [lib : Libs, prio : {Max, Comment}]

(* No library twice, and those of LIBRARY directives in front *)
Sorted(ls) ==
  \A i, j \in DOMAIN ls :
    i < j => /\ ls[i].lib # ls[j].lib
             /\ ls[j].prio = Max => ls[i].prio = Max

LEMMA Joined ==
  ASSUME NEW T, NEW p \in Seq(T), NEW q \in Seq(T)
  PROVE  /\ p \o q \in Seq(T) /\ Len(p \o q) = Len(p) + Len(q)
         /\ \A j \in 1..Len(p) : (p \o q)[j] = p[j]
         /\ \A j \in (Len(p) + 1)..(Len(p) + Len(q)) : (p \o q)[j] = q[j - Len(p)]
OBVIOUS

LEMMA Least == ASSUME NEW S \in SUBSET Nat, S # {} PROVE \E x \in S : \A y \in S : x <= y
<1> DEFINE R == OpToRel(<, Nat)
<1>1. IsWellFoundedOn(R, Nat) BY NatLessThanWellFounded
<1>2. \A x, y \in Nat : y < x => <<y, x>> \in R BY DEF OpToRel
<1> HIDE DEF R
<1>3. PICK x \in S : \A y \in S : ~(<<y, x>> \in R) BY <1>1, WFMin
<1>4. \A y \in S : ~(y < x) BY <1>2, <1>3
<1> QED BY <1>3, <1>4

LEMMA FirstIn ==
  ASSUME NEW S \in SUBSET Nat, NEW none
  PROVE  /\ S = {} => First(S, none) = none
         /\ S # {} => First(S, none) \in S /\ \A j \in S : First(S, none) <= j
BY Least DEF First

LEMMA BelowAt ==
  ASSUME NEW ls \in Seq(Entry), NEW prio \in {Max, Comment}
  PROVE  /\ Below(ls, prio) \in 1..(Len(ls) + 1)
         /\ \A i \in 1..Len(ls) : i < Below(ls, prio) => ~(prio = Max /\ ls[i].prio = Comment)
         /\ Below(ls, prio) <= Len(ls) => prio = Max /\ ls[Below(ls, prio)].prio = Comment
<1> DEFINE S == {i \in 1..Len(ls) : prio = Max /\ ls[i].prio = Comment}
           b == First(S, Len(ls) + 1)
<1>1. S \in SUBSET Nat /\ Len(ls) \in Nat OBVIOUS
<1>2. Below(ls, prio) = b BY DEF Below
<1> HIDE DEF b
<1>3. /\ S = {} => b = Len(ls) + 1
      /\ S # {} => b \in S /\ \A j \in S : b <= j
  <2> HIDE DEF S
  <2> QED BY <1>1, FirstIn DEF b
<1>4. CASE S = {}
  <2>1. b = Len(ls) + 1 BY <1>3, <1>4
  <2>2. \A i \in 1..Len(ls) : ~(prio = Max /\ ls[i].prio = Comment) BY <1>4
  <2> QED BY <1>1, <1>2, <2>1, <2>2
<1>5. CASE S # {}
  <2>1. b \in 1..Len(ls) /\ prio = Max /\ ls[b].prio = Comment BY <1>3, <1>5
  <2>2. ASSUME NEW i \in 1..Len(ls), i < b PROVE ~(prio = Max /\ ls[i].prio = Comment)
    <3>1. i \notin S BY <1>1, <1>3, <1>5, <2>1, <2>2
    <3> QED BY <3>1
  <2> QED BY <1>1, <1>2, <2>1, <2>2
<1> QED BY <1>4, <1>5

LEMMA WithoutForm ==
  ASSUME NEW ls \in Seq(Entry), NEW l
  PROVE  /\ Without(ls, l) \in Seq(Entry)
         /\ \E k \in 1..(Len(ls) + 1) :
              /\ Len(Without(ls, l)) = IF k <= Len(ls) THEN Len(ls) - 1 ELSE Len(ls)
              /\ \A j \in 1..Len(Without(ls, l)) : Without(ls, l)[j] = IF j < k THEN ls[j] ELSE ls[j + 1]
              /\ k <= Len(ls) => ls[k].lib = l
              /\ \A j \in 1..Len(ls) : j < k => ls[j].lib # l
<1> DEFINE S == {j \in 1..Len(ls) : ls[j].lib = l}
           k == First(S, Len(ls) + 1)
           p == SubSeq(ls, 1, k - 1)
           q == SubSeq(ls, k + 1, Len(ls))
<1>1. S \in SUBSET Nat /\ Len(ls) \in Nat OBVIOUS
<1>2. /\ S = {} => k = Len(ls) + 1
      /\ S # {} => k \in S /\ \A j \in S : k <= j
  <2> HIDE DEF S
  <2> QED BY <1>1, FirstIn
<1>3. Without(ls, l) = p \o q BY DEF Without
<1> HIDE DEF k
<1>4. k \in 1..(Len(ls) + 1) /\ (k <= Len(ls) => ls[k].lib = l) BY <1>1, <1>2
<1>5. \A j \in 1..Len(ls) : j < k => ls[j].lib # l
  <2> SUFFICES ASSUME NEW j \in 1..Len(ls), j < k, ls[j].lib = l PROVE FALSE OBVIOUS
  <2>1. j \in S OBVIOUS
  <2> QED BY <1>2, <1>4, <2>1
<1>6. p \in Seq(Entry) /\ Len(p) = k - 1 /\ \A j \in 1..(k - 1) : p[j] = ls[j]
  BY <1>1, <1>4
<1>7. q \in Seq(Entry) /\ Len(q) = (IF k <= Len(ls) THEN Len(ls) - k ELSE 0)
      /\ \A j \in 1..Len(q) : q[j] = ls[j + k]
  BY <1>1, <1>4
<1> HIDE DEF p, q
<1>8. p \o q \in Seq(Entry) /\ Len(p \o q) = Len(p) + Len(q) BY <1>6, <1>7, Joined
<1>9. ASSUME NEW j \in 1..Len(p \o q) PROVE (p \o q)[j] = IF j < k THEN ls[j] ELSE ls[j + 1]
  <2>1. CASE j < k BY <1>4, <1>6, <1>7, <2>1
  <2>2. CASE ~(j < k)
    <3>1. (p \o q)[j] = q[j - Len(p)] /\ j - Len(p) \in 1..Len(q) BY <1>4, <1>6, <1>7, <1>8, <2>2
    <3>2. j - Len(p) + k = j + 1 BY <1>4, <1>6
    <3> QED BY <1>7, <2>2, <3>1, <3>2
  <2> QED BY <2>1, <2>2
<1>10. Len(p \o q) = IF k <= Len(ls) THEN Len(ls) - 1 ELSE Len(ls) BY <1>1, <1>4, <1>6, <1>7, <1>8
<1> HIDE DEF S
<1> QED BY <1>3, <1>4, <1>5, <1>8, <1>9, <1>10

(* AddObjLib puts l in front of at and takes it away at k, if it was there. *)
Placed(ls, l, prio, new, at, k) ==
  /\ Len(new) = IF k <= Len(ls) THEN Len(ls) ELSE Len(ls) + 1
  /\ \A m \in 1..Len(new) :
       new[m] = IF m < at THEN ls[m] ELSE IF m = at THEN [lib |-> l, prio |-> prio]
                ELSE IF m <= k THEN ls[m - 1] ELSE ls[m]
  /\ k <= Len(ls) => ls[k].lib = l
  /\ \A j \in 1..Len(ls) : j # k => ls[j].lib # l
  /\ \A j \in 1..Len(ls) : j < at => ~(prio = Max /\ ls[j].prio = Comment)
  /\ at <= Len(ls) => prio = Max /\ ls[at].prio = Comment

LEMMA AddForm ==
  ASSUME NEW ls \in Seq(Entry), Sorted(ls), NEW l \in Libs, NEW prio \in {Max, Comment},
         NEW new, new = AddObjLib(ls, l, prio)
  PROVE  \/ l \in Listed(ls) /\ new = ls
         \/ /\ new \in Seq(Entry)
            /\ \E at \in 1..(Len(ls) + 1) : \E k \in at..(Len(ls) + 1) : Placed(ls, l, prio, new, at, k)
<1> DEFINE at    == Below(ls, prio)
           above == SubSeq(ls, 1, at - 1)
           below == SubSeq(ls, at, Len(ls))
           e     == [lib |-> l, prio |-> prio]
           front == Append(above, e)
           rest  == Without(below, l)
<1>0. new = IF l \in Listed(above) THEN ls ELSE front \o rest BY DEF AddObjLib
<1>1. /\ at \in 1..(Len(ls) + 1) /\ Len(ls) \in Nat
      /\ \A j \in 1..Len(ls) : j < at => ~(prio = Max /\ ls[j].prio = Comment)
      /\ at <= Len(ls) => prio = Max /\ ls[at].prio = Comment
  BY BelowAt
<1> HIDE DEF at
<1>2. above \in Seq(Entry) /\ Len(above) = at - 1 /\ \A j \in 1..(at - 1) : above[j] = ls[j] BY <1>1
<1>3. /\ below \in Seq(Entry) /\ Len(below) = Len(ls) + 1 - at
      /\ \A j \in 1..Len(below) : below[j] = ls[at - 1 + j]
  BY <1>1
<1> HIDE DEF above, below
<1>4. CASE l \in Listed(above)
  <2>1. PICK j \in 1..Len(above) : l = above[j].lib BY <1>4 DEF Listed
  <2>2. j \in 1..(at - 1) /\ at - 1 <= Len(ls) BY <1>1, <1>2
  <2>3. j \in 1..Len(ls) BY <1>1, <2>2
  <2>4. l = ls[j].lib BY <1>2, <2>1, <2>2
  <2> QED BY <1>0, <1>4, <2>3, <2>4 DEF Listed
<1>5. CASE l \notin Listed(above)
  <2>1. \A j \in 1..Len(ls) : j < at => ls[j].lib # l
    <3> SUFFICES ASSUME NEW j \in 1..Len(ls), j < at PROVE ls[j].lib # l OBVIOUS
    <3>1. j \in 1..Len(above) /\ above[j] = ls[j] BY <1>1, <1>2
    <3> QED BY <1>5, <3>1 DEF Listed
  <2>2. e \in Entry BY DEF Entry
  <2> HIDE DEF e
  <2>3. /\ front \in Seq(Entry) /\ Len(front) = at
        /\ \A m \in 1..at : front[m] = IF m = at THEN e ELSE ls[m]
    BY <1>1, <1>2, <2>2
  <2> HIDE DEF front
  <2>4. /\ rest \in Seq(Entry)
        /\ \E i \in 1..(Len(below) + 1) :
              /\ Len(rest) = IF i <= Len(below) THEN Len(below) - 1 ELSE Len(below)
              /\ \A j \in 1..Len(rest) : rest[j] = IF j < i THEN below[j] ELSE below[j + 1]
              /\ i <= Len(below) => below[i].lib = l
              /\ \A j \in 1..Len(below) : j < i => below[j].lib # l
    BY <1>3, WithoutForm
  <2> HIDE DEF rest
  <2>5. PICK i \in 1..(Len(below) + 1) :
              /\ Len(rest) = IF i <= Len(below) THEN Len(below) - 1 ELSE Len(below)
              /\ \A j \in 1..Len(rest) : rest[j] = IF j < i THEN below[j] ELSE below[j + 1]
              /\ i <= Len(below) => below[i].lib = l
              /\ \A j \in 1..Len(below) : j < i => below[j].lib # l
    BY <2>4
  <2> DEFINE k == at - 1 + i
  <2>6. k \in at..(Len(ls) + 1) /\ (i <= Len(below) <=> k <= Len(ls)) BY <1>1, <1>3
  <2>7. k <= Len(ls) => ls[k].lib = l BY <1>3, <2>5, <2>6
  <2>8. \A j \in 1..Len(ls) : j # k => ls[j].lib # l
    <3> SUFFICES ASSUME NEW j \in 1..Len(ls), j # k PROVE ls[j].lib # l OBVIOUS
    <3>1. CASE j < at BY <2>1, <3>1
    <3>2. CASE at <= j /\ j < k
      <4>1. j - at + 1 \in 1..Len(below) /\ j - at + 1 < i /\ at - 1 + (j - at + 1) = j
        BY <1>1, <1>3, <2>6, <3>2
      <4> QED BY <1>3, <2>5, <4>1
    <3>3. CASE k < j
      <4>1. k \in DOMAIN ls /\ j \in DOMAIN ls /\ ls[k].lib = l BY <1>1, <2>6, <2>7, <3>3
      <4> QED BY <3>3, <4>1 DEF Sorted
    <3> QED BY <1>1, <2>6, <3>1, <3>2, <3>3
  <2>9. new = front \o rest BY <1>0, <1>5
  <2>10. new \in Seq(Entry) /\ Len(new) = at + Len(rest)
    <3>1. front \in Seq(Entry) /\ rest \in Seq(Entry) /\ Len(front) = at BY <2>3, <2>4
    <3>2. front \o rest \in Seq(Entry) /\ Len(front \o rest) = Len(front) + Len(rest) BY <3>1, Joined
    <3> QED BY <2>9, <3>1, <3>2
  <2>11. Len(new) = IF k <= Len(ls) THEN Len(ls) ELSE Len(ls) + 1 BY <1>1, <1>3, <2>5, <2>6, <2>10
  <2>12. /\ \A j \in 1..at : new[j] = front[j]
         /\ \A j \in (at + 1)..Len(new) : new[j] = rest[j - at]
    <3>1. front \in Seq(Entry) /\ rest \in Seq(Entry) /\ Len(front) = at BY <2>3, <2>4
    <3> DEFINE both == front \o rest
    <3>2. /\ \A j \in 1..Len(front) : both[j] = front[j]
          /\ \A j \in (Len(front) + 1)..(Len(front) + Len(rest)) : both[j] = rest[j - Len(front)]
      BY <3>1, Joined
    <3>3. new = both BY <2>9
    <3> HIDE DEF both
    <3> QED BY <2>10, <3>1, <3>2, <3>3
  <2>13. Len(rest) \in Nat /\ Len(new) \in Nat BY <2>4, <2>10
  <2>14. ASSUME NEW m \in 1..Len(new)
         PROVE  new[m] = IF m < at THEN ls[m] ELSE IF m = at THEN e ELSE IF m <= k THEN ls[m - 1] ELSE ls[m]
    <3>1. CASE m <= at
      <4>1. m \in 1..at /\ new[m] = front[m] BY <1>1, <2>12, <2>13, <3>1
      <4> QED BY <1>1, <2>3, <3>1, <4>1
    <3>2. CASE m > at
      <4>1. m - at \in 1..Len(rest) /\ new[m] = rest[m - at]
        <5>1. m \in (at + 1)..Len(new) BY <1>1, <2>13, <3>2
        <5> QED BY <1>1, <2>10, <2>12, <2>13, <5>1
      <4>2. m - at < i <=> m <= k BY <1>1, <2>6
      <4>3. CASE m <= k
        <5>1. Len(rest) <= Len(below) /\ Len(rest) \in Nat /\ Len(below) \in Nat BY <1>3, <2>4, <2>5
        <5>2. m - at \in 1..Len(below) /\ at - 1 + (m - at) = m - 1 BY <1>1, <4>1, <5>1, <3>2
        <5>3. rest[m - at] = below[m - at] BY <2>5, <4>1, <4>2, <4>3
        <5>4. below[m - at] = ls[m - 1] BY <1>3, <5>2
        <5>5. ~(m < at) /\ m # at BY <1>1, <3>2
        <5> QED BY <4>1, <4>3, <5>3, <5>4, <5>5
      <4>4. CASE ~(m <= k)
        <5>1. m - at + 1 \in 1..Len(below) /\ at - 1 + (m - at + 1) = m
          BY <1>1, <1>3, <2>5, <2>6, <2>10, <4>1, <4>2, <4>4
        <5>2. rest[m - at] = below[m - at + 1] BY <2>5, <4>1, <4>2, <4>4
        <5>3. below[m - at + 1] = ls[m] BY <1>3, <5>1
        <5>4. ~(m < at) /\ m # at BY <1>1, <3>2
        <5> QED BY <4>1, <4>4, <5>2, <5>3, <5>4
      <4> QED BY <4>3, <4>4
    <3> QED BY <1>1, <3>1, <3>2
  <2> HIDE DEF k
  <2>15. /\ Len(new) = IF k <= Len(ls) THEN Len(ls) ELSE Len(ls) + 1
         /\ \A m \in 1..Len(new) :
              new[m] = IF m < at THEN ls[m] ELSE IF m = at THEN [lib |-> l, prio |-> prio]
                       ELSE IF m <= k THEN ls[m - 1] ELSE ls[m]
    BY <2>11, <2>14 DEF e
  <2>16. Placed(ls, l, prio, new, at, k) BY <1>1, <2>7, <2>8, <2>15 DEF Placed
  <2> QED BY <1>1, <2>6, <2>10, <2>16
<1> QED BY <1>4, <1>5

LEMMA AddKeepsSorted ==
  ASSUME NEW ls \in Seq(Entry), Sorted(ls), NEW l \in Libs, NEW prio \in {Max, Comment},
         NEW new, new = AddObjLib(ls, l, prio)
  PROVE  new \in Seq(Entry) /\ Sorted(new) /\ Listed(new) = Listed(ls) \cup {l}
<1>1. CASE l \in Listed(ls) /\ new = ls BY <1>1
<1>2. CASE ~(l \in Listed(ls) /\ new = ls)
  <2>1. new \in Seq(Entry) BY <1>2, AddForm
  <2>2. PICK at \in 1..(Len(ls) + 1) : \E k \in at..(Len(ls) + 1) : Placed(ls, l, prio, new, at, k)
    BY <1>2, AddForm
  <2>3. PICK k \in at..(Len(ls) + 1) : Placed(ls, l, prio, new, at, k)
    BY <2>2
  <2>20. /\ Len(new) = IF k <= Len(ls) THEN Len(ls) ELSE Len(ls) + 1
         /\ \A m \in 1..Len(new) :
              new[m] = IF m < at THEN ls[m] ELSE IF m = at THEN [lib |-> l, prio |-> prio]
                       ELSE IF m <= k THEN ls[m - 1] ELSE ls[m]
         /\ k <= Len(ls) => ls[k].lib = l
         /\ \A j \in 1..Len(ls) : j # k => ls[j].lib # l
         /\ \A j \in 1..Len(ls) : j < at => ~(prio = Max /\ ls[j].prio = Comment)
         /\ at <= Len(ls) => prio = Max /\ ls[at].prio = Comment
    BY <2>3 DEF Placed
  <2> DEFINE from(m) == IF m < at THEN m ELSE IF m <= k THEN m - 1 ELSE m
  <2>4. Len(ls) \in Nat /\ Len(new) \in Nat /\ DOMAIN ls = 1..Len(ls) /\ DOMAIN new = 1..Len(new) BY <2>1
  <2>5. at \in 1..Len(new) /\ new[at] = [lib |-> l, prio |-> prio] BY <2>20, <2>4
  <2>6. ASSUME NEW m \in 1..Len(new), m # at
        PROVE  from(m) \in 1..Len(ls) /\ from(m) # k /\ new[m] = ls[from(m)]
    <3>1. CASE m < at BY <2>20, <2>4, <3>1
    <3>2. CASE m > at /\ m <= k BY <2>20, <2>4, <3>2
    <3>3. CASE m > at /\ m > k BY <2>20, <2>4, <3>3
    <3> QED BY <2>4, <2>6, <3>1, <3>2, <3>3
  <2>7. \A m, n \in 1..Len(new) : m # at /\ n # at /\ m < n => from(m) < from(n) BY <2>4
  <2>8. \A m \in 1..Len(new) : m > at => from(m) >= at BY <2>4
  <2>9. \A m \in 1..Len(new) : m < at => from(m) < at BY <2>4
  <2> HIDE DEF from
  <2>10. ASSUME NEW i \in DOMAIN new, NEW j \in DOMAIN new, i < j
         PROVE  new[i].lib # new[j].lib /\ (new[j].prio = Max => new[i].prio = Max)
    <3>1. CASE i # at /\ j # at
      <4>1. from(i) \in DOMAIN ls /\ from(j) \in DOMAIN ls /\ from(i) < from(j)
        BY <2>4, <2>6, <2>7, <2>10, <3>1
      <4> QED BY <2>4, <2>6, <3>1, <4>1 DEF Sorted
    <3>2. CASE i = at
      <4>1. j # at /\ j \in 1..Len(new) BY <2>4, <2>10, <3>2
      <4>2. from(j) \in 1..Len(ls) /\ from(j) # k /\ new[j] = ls[from(j)] /\ from(j) >= at
        BY <2>6, <2>8, <2>10, <3>2, <4>1
      <4>3. at <= Len(ls) BY <2>4, <4>2
      <4> QED BY <2>20, <2>5, <3>2, <4>2, <4>3
    <3>3. CASE j = at
      <4>1. i # at /\ i \in 1..Len(new) BY <2>4, <2>10, <3>3
      <4>2. from(i) \in 1..Len(ls) /\ from(i) # k /\ new[i] = ls[from(i)] /\ from(i) < at
        BY <2>6, <2>9, <2>10, <3>3, <4>1
      <4>3. ls[from(i)] \in Entry BY <4>2
      <4>4. ls[from(i)].prio \in {Max, Comment} BY <4>3 DEF Entry
      <4> QED BY <2>20, <2>5, <3>3, <4>2, <4>4
    <3> QED BY <3>1, <3>2, <3>3
  <2>11. Sorted(new) BY <2>10 DEF Sorted
  <2>12. ASSUME NEW x \in Listed(new) PROVE x \in Listed(ls) \cup {l}
    <3>1. PICK m \in 1..Len(new) : x = new[m].lib BY <2>12 DEF Listed
    <3> QED BY <2>5, <2>6, <3>1 DEF Listed
  <2>13. l \in Listed(new) BY <2>5 DEF Listed
  <2>14. ASSUME NEW j \in 1..Len(ls) PROVE ls[j].lib \in Listed(new)
    <3>1. CASE j = k BY <2>20, <2>4, <2>13, <2>14, <3>1
    <3>2. CASE j < at
      <4>1. j \in 1..Len(new) /\ new[j] = ls[j] BY <2>20, <2>4, <3>2
      <4> QED BY <4>1 DEF Listed
    <3>3. CASE at <= j /\ j < k
      <4>1. j + 1 \in 1..Len(new) /\ new[j + 1] = ls[j] BY <2>20, <2>4, <3>3
      <4> QED BY <4>1 DEF Listed
    <3>4. CASE k < j
      <4>1. j \in 1..Len(new) /\ new[j] = ls[j] BY <2>20, <2>4, <3>4
      <4> QED BY <4>1 DEF Listed
    <3> QED BY <2>4, <3>1, <3>2, <3>3, <3>4
  <2>15. Listed(ls) \subseteq Listed(new) BY <2>14 DEF Listed
  <2> QED BY <2>1, <2>11, <2>12, <2>13, <2>15
<1> QED BY <1>1, <1>2

LEMMA StepList ==
  ASSUME libs \in Seq(Entry), Sorted(libs), [Next]_vars
  PROVE  /\ libs' \in Seq(Entry) /\ Sorted(libs') /\ Listed(libs) \subseteq Listed(libs')
         /\ \/ libs' = libs
            \/ \E l \in Libs, prio \in {Max, Comment} :
                 AddLib(l, prio) /\ Listed(libs') = Listed(libs) \cup {l}
<1>1. \/ libs' = libs
      \/ \E l \in Libs, prio \in {Max, Comment} : AddLib(l, prio)
  <2>1. ASSUME NEW n \in Names, Reference(n) PROVE libs' = libs BY <2>1 DEF Reference
  <2>2. ASSUME NEW p \in Aliases, NEW stale, AddAlias(p[1], p[2], stale) PROVE libs' = libs
    BY <2>2 DEF AddAlias
  <2>3. ASSUME NEW l \in Libs, Library(l) PROVE AddLib(l, Max) BY <2>3 DEF Library
  <2>4. CASE ReadRecord
    <3>1. ASSUME NEW n \in Names, ExtDef(n) \/ PubDef(n) \/ ComDef(n) \/ ImpDef(n) PROVE libs' = libs
      BY <3>1 DEF ExtDef, PubDef, ComDef, ImpDef
    <3>2. ASSUME NEW p \in Aliases, Alias(p[1], p[2]) PROVE libs' = libs BY <3>2 DEF Alias
    <3>3. ASSUME NEW i, NEW j, NEW kind, LazyExtdef(kind, i, j) PROVE libs' = libs
      BY <3>3 DEF LazyExtdef
    <3>4. ASSUME NEW i, NEW j, NEW c, NEW kind, VFTable(kind, i, j, c) PROVE libs' = libs
      BY <3>4 DEF VFTable
    <3>5. ASSUME NEW i, VFReference(i) PROVE libs' = libs BY <3>5 DEF VFReference
    <3>6. ASSUME NEW l \in Libs, DefaultLib(l) PROVE AddLib(l, Comment) BY <3>6 DEF DefaultLib
    <3> QED BY <2>4, <3>1, <3>2, <3>3, <3>4, <3>5, <3>6 DEF ReadRecord
  <2>5. CASE EndDirectives \/ LoadObjFile \/ EndModule \/ EndObjects \/ BeginSweep
    BY <2>5 DEF EndDirectives, LoadObjFile, EndModule, EndObjects, BeginSweep
  <2>6. CASE LoadLibModule \/ PassSymbol \/ EndSweep \/ Convert \/ Linked \/ UNCHANGED vars
    BY <2>6 DEF LoadLibModule, PassSymbol, EndSweep, Convert, Linked, vars
  <2> QED BY <2>1, <2>2, <2>3, <2>4, <2>5, <2>6 DEF Next
<1>2. ASSUME NEW l \in Libs, NEW prio \in {Max, Comment}, AddLib(l, prio)
      PROVE  libs' \in Seq(Entry) /\ Sorted(libs') /\ Listed(libs') = Listed(libs) \cup {l}
  <2>1. libs' = AddObjLib(libs, l, prio) BY <1>2 DEF AddLib
  <2> QED BY <2>1, AddKeepsSorted
<1> QED BY <1>1, <1>2

(* Whatever directives and modules add libraries, and in whatever order, no *)
(* library is searched twice, and a default library only after all that the *)
(* command line names.                                                       *)
THEOREM LibrariesInOrder == Spec => []DirectivesFirst
<1> DEFINE Inv == libs \in Seq(Entry) /\ Sorted(libs)
<1>1. Init => Inv BY DEF Init, Sorted
<1>2. Inv /\ [Next]_vars => Inv' BY StepList
<1>3. Inv => DirectivesFirst BY DEF Sorted, DirectivesFirst
<1> QED BY <1>1, <1>2, <1>3, PTL DEF Spec
-----------------------------------------------------------------------------
(* The type invariant, and what phase, module and lists have to do with one *)
(* another: Control is inductive together with it. *)

Typed ==
  /\ libs \in Seq(Entry) /\ Sorted(libs)
  /\ dict \in [Libs -> SUBSET Names]
  /\ added \in BOOLEAN /\ searching \in BOOLEAN
  /\ phase \in Phases /\ left \in Nat
  /\ mod.open \in BOOLEAN /\ mod.lib \in Libs \cup {Nil} /\ mod.for \in Names \cup {Nil}
  /\ mod.pubs \in SUBSET Names /\ mod.left \in 0..MaxRecords
  /\ strong \subseteq Known(syms) /\ virtual \subseteq Names \X Names /\ pulled \subseteq Libs \X Names

Control ==
  /\ oldLibs \subseteq seenLibs /\ seenLibs \subseteq Listed(libs)
  /\ pos \in 0..(Len(syms.order) + 1)
  /\ mod.open /\ mod.lib = Nil => phase = "objects"
  /\ mod.lib # Nil => phase = "sweep" /\ mod.for = syms.order[pos]
  /\ \A n \in mod.pubs : tab[n].defined
  /\ phase \in {"directives", "objects"} =>
       ~searching /\ pos = 0 /\ seenLibs = {} /\ (~added => libs = <<>>)
  /\ phase = "sweep" => searching /\ (pos > 0 /\ ~added => Listed(libs) \subseteq seenLibs)

(* While no virtual function record was read, a sweep has looked for what it *)
(* is past: a symbol that is CHECKED and still wanted is in no library that  *)
(* was seen, so that an OLD library need not be looked in for it again.       *)
VFs == VFRefs \cup {"linkweak"}
NoVF(st) == \A n \in Names : st.tab[n].type \notin VFs
Sought(s) == s.checked /\ ~s.defined /\ s.type \notin WeakRefs
In(d, n, L) == \E l \in L : n \in d[l]
Past(p, i) == p = 0 \/ i < p
Search ==
  virtual = {} =>
    /\ NoVF(syms)
    /\ phase = "sweep" =>
         /\ \A n \in Names : Sought(tab[n]) => ~In(dict, n, oldLibs)
         /\ \A i \in 1..Len(syms.order) :
              Past(pos, i) /\ Sought(tab[syms.order[i]]) => ~In(dict, syms.order[i], seenLibs)
         /\ pos > 0 /\ ~added => \A i \in 1..Len(syms.order) : i < pos => tab[syms.order[i]].checked
    /\ phase = "convert" => NothingMissed

Inv == Good(syms) /\ ModOK /\ Typed /\ Control /\ Search

(* What AddObjLib does, or no addition at all *)
ListStep ==
  /\ libs' \in Seq(Entry) /\ Sorted(libs') /\ Listed(libs) \subseteq Listed(libs')
  /\ added' \in BOOLEAN /\ (added => added')
  /\ ~added' => Listed(libs') = Listed(libs) /\ (libs = <<>> => libs' = <<>>)

LEMMA AddLibStep ==
  ASSUME Typed, NEW l \in Libs, NEW prio \in {Max, Comment}, AddLib(l, prio)
  PROVE  ListStep
<1>1. libs' = AddObjLib(libs, l, prio) /\ added' = (added \/ l \notin Listed(libs)) BY DEF AddLib
<1>2. libs \in Seq(Entry) /\ Sorted(libs) /\ added \in BOOLEAN BY DEF Typed
<1>3. libs' \in Seq(Entry) /\ Sorted(libs') /\ Listed(libs') = Listed(libs) \cup {l}
  BY <1>1, <1>2, AddKeepsSorted
<1>4. libs = <<>> => l \notin Listed(libs) BY DEF Listed
<1> QED BY <1>1, <1>2, <1>3, <1>4 DEF ListStep

LEMMA SameList == ASSUME Typed, UNCHANGED <<libs, added>> PROVE ListStep
BY DEF Typed, ListStep

-----------------------------------------------------------------------------
(* What happens to a symbol that was sought *)

Looked(s, t) ==
  /\ s.checked => t.checked
  /\ Sought(t) => Sought(s)
  /\ t.type \in VFs => s.type \in VFs
AllLooked(st, new) == \A n \in Names : Looked(st.tab[n], new.tab[n])

LEMMA LookedOn ==
  ASSUME NEW st, NEW mid, NEW new, AllLooked(st, mid), AllLooked(mid, new) PROVE AllLooked(st, new)
BY DEF AllLooked, Looked

LEMMA LookedUpdate ==
  ASSUME NEW st, Good(st), NEW n \in Names, NEW s, Looked(st.tab[n], s)
  PROVE  AllLooked(st, Update(st, n, s))
<1>1. st \in Table BY DEF Good
<1>2. Update(st, n, s).tab = [st.tab EXCEPT ![n] = s] BY <1>1 DEF Update, Table
<1>3. \A m \in Names : Looked(st.tab[m], st.tab[m]) BY DEF Looked
<1> QED BY <1>1, <1>2, <1>3 DEF AllLooked, Table

LEMMA LookedItself == ASSUME NEW st, NEW new, new.tab = st.tab PROVE AllLooked(st, new)
BY DEF AllLooked, Looked

LEMMA LookedDefineSymbol ==
  ASSUME NEW st, Good(st), NEW n \in Names PROVE AllLooked(st, DefineSymbol(st, n))
<1> DEFINE mid == AddSym(st, n)
           o == st.tab[n]
           s == IF o.placed THEN [o EXCEPT !.defined = TRUE]
                ELSE [o EXCEPT !.type = "regular", !.alias = Nil, !.conds = {},
                               !.defined = TRUE, !.placed = TRUE, !.marked = FALSE]
<1>1. Good(mid) /\ mid.tab = st.tab BY KeepsAddSym DEF Keeps
<1>2. o \in Symbol BY DEF Good, SymOK
<1>3. Looked(o, s) BY <1>2 DEF Looked, Sought, VFs, VFRefs, Symbol
<1>4. DefineSymbol(st, n) = Update(mid, n, s) BY DEF DefineSymbol
<1> HIDE DEF mid, s
<1>5. AllLooked(mid, Update(mid, n, s)) BY <1>1, <1>3, LookedUpdate
<1> QED BY <1>1, <1>4, <1>5 DEF AllLooked

LEMMA LookedMakeCommunalSym ==
  ASSUME NEW st, Good(st), NEW n \in Names PROVE AllLooked(st, MakeCommunalSym(st, n))
<1> DEFINE s == [st.tab[n] EXCEPT !.type = "communal", !.conds = {}, !.defined = TRUE]
<1>1. st.tab[n] \in Symbol BY DEF Good, SymOK
<1>2. Looked(st.tab[n], s) BY <1>1 DEF Looked, Sought, VFs, VFRefs, Symbol
<1>3. MakeCommunalSym(st, n) = st \/ MakeCommunalSym(st, n) = Update(st, n, s) BY DEF MakeCommunalSym
<1> HIDE DEF s
<1> QED BY <1>2, <1>3, LookedUpdate, LookedItself

LEMMA LookedHandleImport ==
  ASSUME NEW st, Good(st), NEW n \in Names PROVE AllLooked(st, HandleImport(st, n))
<1> DEFINE s == [st.tab[n] EXCEPT !.type = "imported", !.conds = {}, !.defined = TRUE]
<1>1. st.tab[n] \in Symbol BY DEF Good, SymOK
<1>2. Looked(st.tab[n], s) BY <1>1 DEF Looked, Sought, VFs, VFRefs, Symbol
<1>3. HandleImport(st, n) = st \/ HandleImport(st, n) = Update(st, n, s) BY DEF HandleImport
<1> HIDE DEF s
<1> QED BY <1>2, <1>3, LookedUpdate, LookedItself

(* A weak reference of the linker's own would be sought again when a module *)
(* makes it lazy: without virtual function records there is none.            *)
LEMMA LookedDefineLazyExtdef ==
  ASSUME NEW st, Good(st), NoVF(st), NEW n \in Names, NEW def, NEW isweak \in BOOLEAN
  PROVE  AllLooked(st, DefineLazyExtdef(st, n, def, isweak))
<1> DEFINE s == [st.tab[n] EXCEPT !.type = IF isweak THEN "weak" ELSE "lazy", !.def = def]
<1>1. st.tab[n] \in Symbol /\ st.tab[n].type \notin VFs BY DEF Good, SymOK, NoVF
<1>2. st.tab[n].type \notin Refs => Looked(st.tab[n], s)
  BY <1>1 DEF Looked, Sought, VFs, VFRefs, WeakRefs, Refs, Symbol
<1>3. \/ DefineLazyExtdef(st, n, def, isweak) = st
      \/ st.tab[n].type \notin Refs /\ DefineLazyExtdef(st, n, def, isweak) = Update(st, n, s)
  BY <1>1 DEF DefineLazyExtdef, VFs
<1> HIDE DEF s
<1> QED BY <1>2, <1>3, LookedUpdate, LookedItself

LEMMA LookedMarkVF ==
  ASSUME NEW st, Good(st), NEW n \in Names PROVE AllLooked(st, MarkVF(st, n))
<1> DEFINE s == [st.tab[n] EXCEPT !.marked = TRUE]
<1>1. st.tab[n] \in Symbol BY DEF Good, SymOK
<1>2. Looked(st.tab[n], s) BY <1>1 DEF Looked, Sought, Symbol
<1>3. MarkVF(st, n) = st \/ MarkVF(st, n) = Update(st, n, s) BY DEF MarkVF
<1> HIDE DEF s
<1> QED BY <1>2, <1>3, LookedUpdate, LookedItself

LEMMA LookedMakeSymAlias ==
  ASSUME NEW st, Good(st), NEW n \in Names, NEW t \in Names, NEW stale
  PROVE  AllLooked(st, MakeSymAlias(st, n, t, stale))
<1> DEFINE targ == AliasTarget(st.tab, n, t, stale)
           new  == AddSym(AddSym(AddSym(st, n), t), targ)
           x    == Clip(targ, t)
           s    == [new.tab[n] EXCEPT !.type = "alias", !.alias = x, !.defined = TRUE]
<1>1. targ \in Names BY UnaliasName DEF AliasTarget, UnaliasSym, Stops, Trail
<1>2. Good(new) /\ new.tab = st.tab
  <2>1. Good(AddSym(st, n)) /\ AddSym(st, n).tab = st.tab BY KeepsAddSym DEF Keeps
  <2> DEFINE a == AddSym(st, n)
             b == AddSym(a, t)
  <2> HIDE DEF a
  <2>2. Good(a) /\ a.tab = st.tab BY <2>1 DEF a
  <2>3. Good(b) /\ b.tab = a.tab BY <2>2, KeepsAddSym DEF Keeps
  <2> HIDE DEF b, targ
  <2>4. Good(AddSym(b, targ)) /\ AddSym(b, targ).tab = b.tab BY <1>1, <2>3, KeepsAddSym DEF Keeps
  <2> QED BY <2>2, <2>3, <2>4 DEF a, b
<1>3. AddSym(st, n).tab = st.tab BY KeepsAddSym
<1>4. \/ MakeSymAlias(st, n, t, stale) = st \/ MakeSymAlias(st, n, t, stale) = AddSym(st, n)
      \/ MakeSymAlias(st, n, t, stale) = Update(new, n, s)
  BY DEF MakeSymAlias, SetSymAlias
<1> HIDE DEF targ, new, x
<1>5. new.tab[n] \in Symbol BY <1>2 DEF Good, SymOK
<1>6. Looked(new.tab[n], s) BY <1>5 DEF Looked, Sought, VFs, VFRefs, Symbol
<1> HIDE DEF s
<1>7. AllLooked(new, Update(new, n, s)) BY <1>2, <1>6, LookedUpdate
<1>8. AllLooked(st, Update(new, n, s)) BY <1>2, <1>7 DEF AllLooked
<1> QED BY <1>3, <1>4, <1>8, LookedItself

-----------------------------------------------------------------------------
(* What every record does *)

RecordStep ==
  /\ mod.open /\ mod'.open /\ mod'.lib = mod.lib /\ mod'.for = mod.for
  /\ mod.left > 0 /\ mod'.left = mod.left - 1
  /\ mod'.pubs \in SUBSET Names /\ \A n \in mod'.pubs : n \in mod.pubs \/ tab'[n].defined
  /\ UNCHANGED <<dict, seenLibs, oldLibs, searching, phase, pos, left, strong, pulled>>
  /\ ListStep
  /\ virtual \subseteq virtual' /\ virtual' \subseteq virtual \cup (Names \X Names)
  /\ NoVF(syms) /\ virtual' = {} => AllLooked(syms, syms')

LEMMA ReadStep ==
  ASSUME ModOK, Typed, NEW kind, NEW k, Record(kind, k), NEW exts, NEW pubs, Read(exts, pubs),
         pubs \in SUBSET Names, \A n \in pubs : n \in mod.pubs \/ tab'[n].defined,
         ListStep, virtual \subseteq virtual', virtual' \subseteq virtual \cup (Names \X Names),
         NoVF(syms) /\ virtual' = {} => AllLooked(syms, syms')
  PROVE  RecordStep
<1>1. /\ mod.open /\ mod.left > IF Owes(k) THEN 1 ELSE 0
      /\ UNCHANGED <<dict, seenLibs, oldLibs, searching, phase, pos, left, strong, pulled>>
  BY DEF Record
<1>2. mod.left \in Nat BY BoundsAssumption DEF Typed
<1>3. mod.left > 0 BY <1>1, <1>2
<1>4. mod' = [mod EXCEPT !.left = @ - 1, !.exts = exts, !.pubs = pubs] BY DEF Read
<1>5. /\ mod'.open = mod.open /\ mod'.lib = mod.lib /\ mod'.for = mod.for
      /\ mod'.left = mod.left - 1 /\ mod'.pubs = pubs
  BY <1>4 DEF ModOK
<1> QED BY <1>1, <1>3, <1>5 DEF RecordStep

(* Records that define no symbol of their own and add no library *)
LEMMA PlainReadStep ==
  ASSUME ModOK, Typed, NEW kind, Record(kind, Nil), NEW exts, Read(exts, mod.pubs),
         UNCHANGED <<libs, added>>, virtual' = virtual,
         NoVF(syms) => AllLooked(syms, syms')
  PROVE  RecordStep
<1>1. ListStep BY SameList
<1>2. mod.pubs \in SUBSET Names BY DEF Typed
<1> QED BY <1>1, <1>2, ReadStep

LEMMA SymbolRecordStep ==
  ASSUME Good(syms), ModOK, Typed, NEW n \in Names, ExtDef(n) \/ PubDef(n) \/ ComDef(n) \/ ImpDef(n)
  PROVE  RecordStep
<1> DEFINE new == SymOp(syms, n)
           m   == UnaliasSym(tab, n)
<1>0. Good(new) /\ new.tab = syms.tab /\ m \in Names
  BY KeepsSymOp, UnaliasName DEF Keeps, tab
<1> HIDE DEF new, m
<1>1. CASE ExtDef(n)
  <2>1. /\ Record("ext", Nil) /\ syms' = new /\ UNCHANGED <<libs, added, virtual>>
        /\ Read(Append(mod.exts, [entry |-> m, isweak |-> FALSE]), mod.pubs)
    BY <1>1 DEF ExtDef, new, m
  <2>2. AllLooked(syms, syms') BY <1>0, <2>1, LookedItself
  <2> QED BY <2>1, <2>2, PlainReadStep
<1>2. CASE PubDef(n)
  <2>1. /\ Record("pub", n) /\ syms' = DefineSymbol(syms, n) /\ UNCHANGED <<libs, added, virtual>>
        /\ Read(mod.exts, mod.pubs \cup {n})
    BY <1>2 DEF PubDef
  <2>2. AllLooked(syms, syms') BY <2>1, LookedDefineSymbol
  <2>3. tab'[n].defined
    <3> DEFINE mid == AddSym(syms, n)
               s == IF tab[n].placed THEN [tab[n] EXCEPT !.defined = TRUE]
                    ELSE [tab[n] EXCEPT !.type = "regular", !.alias = Nil, !.conds = {},
                                        !.defined = TRUE, !.placed = TRUE, !.marked = FALSE]
    <3>1. Good(mid) /\ mid \in Table BY KeepsAddSym DEF Keeps, Good
    <3>2. syms' = Update(mid, n, s) BY <2>1 DEF DefineSymbol, tab
    <3>3. tab[n] \in Symbol BY DEF Good, SymOK, tab
    <3>4. s.defined BY <3>3 DEF Symbol
    <3> HIDE DEF mid, s
    <3>5. syms'.tab[n] = s BY <3>1, <3>2 DEF Update, Table
    <3> QED BY <3>4, <3>5 DEF tab
  <2>4. ListStep BY <2>1, SameList
  <2>5. mod.pubs \cup {n} \in SUBSET Names BY DEF Typed
  <2> QED BY <2>1, <2>2, <2>3, <2>4, <2>5, ReadStep
<1>3. CASE ComDef(n)
  <2>1. /\ Record("com", Nil) /\ syms' = MakeCommunalSym(new, m) /\ UNCHANGED <<libs, added, virtual>>
        /\ Read(Append(mod.exts, [entry |-> m, isweak |-> FALSE]), mod.pubs)
    BY <1>3 DEF ComDef, new, m
  <2>2. AllLooked(new, syms') BY <1>0, <2>1, LookedMakeCommunalSym
  <2>3. AllLooked(syms, syms') BY <1>0, <2>2 DEF AllLooked
  <2> QED BY <2>1, <2>3, PlainReadStep
<1>4. CASE ImpDef(n)
  <2>1. /\ Record("imp", Nil) /\ syms' = HandleImport(new, m) /\ UNCHANGED <<libs, added, virtual>>
        /\ Read(mod.exts, mod.pubs)
    BY <1>4 DEF ImpDef, new, m
  <2>2. AllLooked(new, syms') BY <1>0, <2>1, LookedHandleImport
  <2>3. AllLooked(syms, syms') BY <1>0, <2>2 DEF AllLooked
  <2> QED BY <2>1, <2>3, PlainReadStep
<1> QED BY <1>1, <1>2, <1>3, <1>4

LEMMA ReadRecordStep ==
  ASSUME Good(syms), ModOK, Typed, ReadRecord PROVE RecordStep
<1>1. ASSUME NEW p \in Aliases, Alias(p[1], p[2]) PROVE RecordStep
  <2>1. p[1] \in Names /\ p[2] \in Names BY AliasesAssumption
  <2>2. /\ Record("alias", Nil) /\ Read(mod.exts, mod.pubs) /\ UNCHANGED <<libs, added, virtual>>
        /\ syms' = IF tab[p[1]].defined THEN syms ELSE MakeSymAlias(syms, p[1], p[2], Nil)
    BY <1>1 DEF Alias
  <2>3. AllLooked(syms, MakeSymAlias(syms, p[1], p[2], Nil)) BY <2>1, LookedMakeSymAlias
  <2>4. AllLooked(syms, syms') BY <2>2, <2>3, LookedItself
  <2> QED BY <2>2, <2>4, PlainReadStep
<1>2. ASSUME NEW i \in DOMAIN mod.exts, NEW j \in DOMAIN mod.exts, NEW kind \in {"lazy", "weak"},
             LazyExtdef(kind, i, j)
      PROVE  RecordStep
  <2>1. /\ Record(kind, Nil) /\ Read(Weakened(i), mod.pubs) /\ UNCHANGED <<libs, added, virtual>>
        /\ syms' = DefineLazyExtdef(syms, mod.exts[i].entry, mod.exts[j].entry, kind = "weak")
    BY <1>2 DEF LazyExtdef
  <2>2. mod.exts[i].entry \in Names BY EntryKnown
  <2>3. NoVF(syms) => AllLooked(syms, syms') BY <2>1, <2>2, LookedDefineLazyExtdef
  <2> QED BY <2>1, <2>3, PlainReadStep
<1>3. ASSUME NEW i \in DOMAIN mod.exts, NEW j \in DOMAIN mod.exts, NEW kind \in {"vf", "pure"},
             NEW c \in Names, VFTable(kind, i, j, c)
      PROVE  RecordStep
  <2> DEFINE m == UnaliasSym(tab, c)
  <2>1. /\ Record(kind, Nil) /\ Read(Weakened(i), mod.pubs) /\ UNCHANGED <<libs, added>>
        /\ virtual' = virtual \cup {<<mod.exts[i].entry, m>>}
    BY <1>3 DEF VFTable
  <2>2. mod.exts[i].entry \in Names /\ m \in Names BY EntryKnown, UnaliasName DEF tab
  <2> HIDE DEF m
  <2>3. virtual' # {} /\ virtual \subseteq virtual' /\ virtual' \subseteq virtual \cup (Names \X Names)
    <3>1. <<mod.exts[i].entry, m>> \in Names \X Names BY <2>2
    <3> QED BY <2>1, <3>1
  <2>4. ListStep BY <2>1, SameList
  <2>5. mod.pubs \in SUBSET Names BY DEF Typed
  <2> QED BY <2>1, <2>3, <2>4, <2>5, ReadStep
<1>4. ASSUME NEW i \in DOMAIN mod.exts, VFReference(i) PROVE RecordStep
  <2>1. /\ Record("vfref", Nil) /\ Read(mod.exts, mod.pubs) /\ UNCHANGED <<libs, added, virtual>>
        /\ syms' = MarkVF(syms, mod.exts[i].entry)
    BY <1>4 DEF VFReference
  <2>2. mod.exts[i].entry \in Names BY EntryKnown
  <2>3. AllLooked(syms, syms') BY <2>1, <2>2, LookedMarkVF
  <2> QED BY <2>1, <2>3, PlainReadStep
<1>5. ASSUME NEW l \in Libs, DefaultLib(l) PROVE RecordStep
  <2>1. /\ Record("lib", Nil) /\ Read(mod.exts, mod.pubs) /\ UNCHANGED <<syms, virtual>>
        /\ AddLib(l, Comment)
    BY <1>5 DEF DefaultLib
  <2>2. AllLooked(syms, syms') BY <2>1, LookedItself
  <2>3. ListStep BY <2>1, AddLibStep
  <2>4. mod.pubs \in SUBSET Names BY DEF Typed
  <2> QED BY <2>1, <2>2, <2>3, <2>4, ReadStep
<1> QED BY <1>1, <1>2, <1>3, <1>4, <1>5, SymbolRecordStep DEF ReadRecord

(* What a symbol table that only grows means for the rest *)
LEMMA GrowsFacts ==
  ASSUME Good(syms), Keeps(syms, syms')
  PROVE  /\ Len(syms.order) \in Nat /\ Len(syms'.order) \in Nat /\ Len(syms.order) <= Len(syms'.order)
         /\ \A i \in 1..Len(syms.order) : syms'.order[i] = syms.order[i] /\ syms.order[i] \in Names
         /\ \A i \in 1..Len(syms'.order) : syms'.order[i] \in Names
         /\ Known(syms) \subseteq Known(syms')
         /\ \A n \in Names : tab[n].defined => tab'[n].defined
<1>1. syms.order \in Seq(Names) /\ syms'.order \in Seq(Names) BY DEF Good, Table, Keeps
<1>2. Len(syms.order) <= Len(syms'.order) /\ \A i \in 1..Len(syms.order) : syms'.order[i] = syms.order[i]
  BY DEF Keeps, Prefix
<1>3. Known(syms) \subseteq Known(syms') BY KnownGrows
<1>4. \A n \in Names : tab[n].defined => tab'[n].defined BY DEF Keeps, Stays, tab
<1> QED BY <1>1, <1>2, <1>3, <1>4

LEMMA RecordTyped ==
  ASSUME Inv, Keeps(syms, syms'), ModOK', RecordStep
  PROVE  Typed' /\ Control'
<1>0. Good(syms) /\ ModOK /\ Typed /\ Control BY DEF Inv
<1>1. Known(syms) \subseteq Known(syms') /\ \A n \in Names : tab[n].defined => tab'[n].defined
  BY <1>0, GrowsFacts
<1>2. Typed'
  <2>1. mod.left \in 0..MaxRecords /\ MaxRecords \in Nat BY <1>0, BoundsAssumption DEF Typed
  <2>2. mod'.left \in 0..MaxRecords BY <2>1 DEF RecordStep
  <2>3. /\ mod'.open \in BOOLEAN /\ mod'.lib \in Libs \cup {Nil} /\ mod'.for \in Names \cup {Nil}
        /\ mod'.pubs \in SUBSET Names
    BY <1>0 DEF RecordStep, Typed
  <2>4. strong' \subseteq Known(syms') /\ virtual' \subseteq Names \X Names /\ pulled' \subseteq Libs \X Names
    BY <1>0, <1>1 DEF RecordStep, Typed
  <2>5. libs' \in Seq(Entry) /\ Sorted(libs') /\ added' \in BOOLEAN BY DEF RecordStep, ListStep
  <2> QED BY <1>0, <2>2, <2>3, <2>4, <2>5 DEF RecordStep, Typed
<1>3. Control'
  <2>1. oldLibs' = oldLibs /\ seenLibs' = seenLibs /\ phase' = phase /\ pos' = pos /\ searching' = searching
        /\ mod'.lib = mod.lib /\ mod'.for = mod.for /\ mod'.open = mod.open
    BY <1>0 DEF RecordStep, Typed
  <2>2. Listed(libs) \subseteq Listed(libs') /\ (~added' => ~added /\ Listed(libs') = Listed(libs))
        /\ (~added' => (libs = <<>> => libs' = <<>>))
    BY DEF RecordStep, ListStep
  <2>3. pos' \in 0..(Len(syms'.order) + 1) BY <1>0, <2>1, GrowsFacts DEF Control
  <2>4. mod'.lib # Nil => phase' = "sweep" /\ mod'.for = syms'.order[pos']
    <3>1. mod.lib # Nil => pos \in 1..Len(syms.order) BY <1>0 DEF ModOK
    <3> QED BY <1>0, <2>1, <3>1, GrowsFacts DEF Control
  <2>5. \A n \in mod'.pubs : tab'[n].defined
    BY <1>0, <1>1 DEF RecordStep, Control
  <2> QED BY <1>0, <2>1, <2>2, <2>3, <2>4, <2>5 DEF Control
<1> QED BY <1>2, <1>3

LEMMA RecordSearch ==
  ASSUME Inv, Keeps(syms, syms'), RecordStep
  PROVE  Search'
<1>0. Good(syms) /\ ModOK /\ Typed /\ Control /\ Search BY DEF Inv
<1> SUFFICES ASSUME virtual' = {} PROVE Search' BY DEF Search
<1>1. /\ virtual = {} /\ NoVF(syms)
      /\ UNCHANGED <<dict, seenLibs, oldLibs, phase, pos>> /\ (~added' => ~added)
      /\ mod.open /\ (phase # "objects" => mod.lib # Nil)
  BY <1>0 DEF RecordStep, ListStep, Search, Control
<1>2. AllLooked(syms, syms') BY <1>1 DEF RecordStep
<1>3. NoVF(syms') BY <1>1, <1>2 DEF NoVF, AllLooked, Looked
<1>4. phase = "objects" \/ (phase = "sweep" /\ pos \in 1..Len(syms.order))
  BY <1>0, <1>1 DEF Control, ModOK
<1>5. CASE phase = "objects"
  BY <1>1, <1>3, <1>5 DEF Search
<1>6. CASE phase = "sweep" /\ pos \in 1..Len(syms.order)
  <2>1. /\ \A n \in Names : Sought(tab[n]) => ~In(dict, n, oldLibs)
        /\ \A i \in 1..Len(syms.order) :
             Past(pos, i) /\ Sought(tab[syms.order[i]]) => ~In(dict, syms.order[i], seenLibs)
        /\ pos > 0 /\ ~added => \A i \in 1..Len(syms.order) : i < pos => tab[syms.order[i]].checked
    BY <1>0, <1>1, <1>6 DEF Search
  <2>2. \A n \in Names : (Sought(tab'[n]) => Sought(tab[n])) /\ (tab[n].checked => tab'[n].checked)
    BY <1>2 DEF AllLooked, Looked, tab
  <2>5. ASSUME NEW i \in 1..Len(syms'.order), i < pos
        PROVE  i \in 1..Len(syms.order) /\ syms'.order[i] = syms.order[i] /\ syms.order[i] \in Names
    <3>1. i \in 1..Len(syms.order) BY <1>0, <1>6, <2>5, GrowsFacts
    <3> QED BY <1>0, <3>1, GrowsFacts
  <2>6. ASSUME NEW n \in Names, Sought(tab'[n]) PROVE ~In(dict', n, oldLibs')
    BY <1>1, <2>1, <2>2, <2>6
  <2>7. ASSUME NEW i \in 1..Len(syms'.order), Past(pos', i), Sought(tab'[syms'.order[i]])
        PROVE  ~In(dict', syms'.order[i], seenLibs')
    <3>1. i < pos /\ Past(pos, i) BY <1>1, <1>6, <2>7 DEF Past
    <3>2. ~In(dict, syms.order[i], seenLibs) BY <2>1, <2>2, <2>5, <2>7, <3>1
    <3> QED BY <1>1, <2>5, <3>1, <3>2
  <2>8. ASSUME ~added', NEW i \in 1..Len(syms'.order), i < pos' PROVE tab'[syms'.order[i]].checked
    BY <1>1, <1>6, <2>1, <2>2, <2>5, <2>8
  <2> QED BY <1>1, <1>3, <1>6, <2>6, <2>7, <2>8 DEF Search
<1> QED BY <1>4, <1>5, <1>6

-----------------------------------------------------------------------------
(* The other steps *)

LEMMA NoVFSame == ASSUME NEW st, Good(st), NoVF(st) PROVE ResolveVFExtdefs(st) = st
<1>1. Conditionals(st) = {} BY DEF Conditionals, NoVF, VFs, Known, Good, Table
<1>2. st \in Table BY DEF Good
<1>3. [n \in Names |-> IF n \in Conditionals(st) THEN ConvertVFSym(st.tab[n]) ELSE st.tab[n]] = st.tab
  BY <1>1, <1>2 DEF Table
<1>4. ResolveVFExtdefs(st) = [st EXCEPT !.tab = st.tab] BY <1>2, <1>3 DEF ResolveVFExtdefs, Table
<1> QED BY <1>2, <1>4 DEF Table

LEMMA DirectiveInv ==
  ASSUME Inv, Keeps(syms, syms'), NEW kind, Directive(kind),
         ListStep, strong' \subseteq Known(syms'), NoVF(syms) => NoVF(syms')
  PROVE  Typed' /\ Control' /\ Search'
<1>0. Good(syms) /\ ModOK /\ Typed /\ Control /\ Search BY DEF Inv
<1>1. /\ phase = "directives" /\ left > 0 /\ left' = left - 1
      /\ UNCHANGED <<dict, seenLibs, oldLibs, searching, phase, mod, pos, virtual, pulled>>
  BY DEF Directive
<1>2. left' \in Nat BY <1>0, <1>1 DEF Typed
<1>3. Typed' BY <1>0, <1>1, <1>2 DEF Typed, ListStep
<1>4. /\ Len(syms'.order) \in Nat /\ \A n \in Names : tab[n].defined => tab'[n].defined
  BY <1>0, GrowsFacts
<1>5. Control'
  <2>1. pos' \in 0..(Len(syms'.order) + 1) BY <1>0, <1>1, <1>4 DEF Control
  <2>2. \A n \in mod'.pubs : tab'[n].defined BY <1>0, <1>1, <1>4 DEF Control, Typed
  <2>3. Listed(libs) \subseteq Listed(libs') /\ (~added' => ~added /\ (libs = <<>> => libs' = <<>>))
    BY DEF ListStep
  <2> QED BY <1>0, <1>1, <2>1, <2>2, <2>3 DEF Control
<1>6. Search' BY <1>0, <1>1 DEF Search
<1> QED BY <1>3, <1>5, <1>6

(* Steps that leave symbols, libraries and modules as they are *)
LEMMA PhaseInv ==
  ASSUME Inv, EndDirectives \/ Linked \/ UNCHANGED vars
  PROVE  Typed' /\ Control' /\ Search'
<1>0. Good(syms) /\ ModOK /\ Typed /\ Control /\ Search BY DEF Inv
<1>1. CASE EndDirectives
  <2>1. /\ phase = "directives" /\ phase' = "objects" /\ left' = MaxObjs
        /\ UNCHANGED <<syms, libs, dict, seenLibs, oldLibs, added, searching, mod, pos, strong, virtual, pulled>>
    BY <1>1 DEF EndDirectives
  <2>2. Typed' BY <1>0, <2>1, BoundsAssumption DEF Typed, Phases, Known
  <2>3. Control' BY <1>0, <2>1 DEF Control, tab
  <2>4. Search' BY <1>0, <2>1 DEF Search
  <2> QED BY <2>2, <2>3, <2>4
<1>2. CASE Linked \/ UNCHANGED vars
  <2>1. UNCHANGED vars BY <1>2 DEF Linked
  <2>2. UNCHANGED <<syms, libs, dict, seenLibs, oldLibs, added, searching, phase, mod, pos, left, strong,
                    virtual, pulled>>
    BY <2>1 DEF vars
  <2>3. Typed' BY <1>0, <2>2 DEF Typed, Known
  <2>4. Control' BY <1>0, <2>2 DEF Control, tab
  <2>5. Search' BY <1>0, <2>2 DEF Search, In, Past, tab, NothingMissed, Wanted, Provided, Known
  <2> QED BY <2>3, <2>4, <2>5
<1> QED BY <1>1, <1>2

LEMMA LoadObjFileInv == ASSUME Inv, LoadObjFile PROVE Typed' /\ Control' /\ Search'
<1>0. Good(syms) /\ ModOK /\ Typed /\ Control /\ Search BY DEF Inv
<1>1. /\ phase = "objects" /\ left > 0 /\ left' = left - 1 /\ mod' = Module(Nil, Nil)
      /\ UNCHANGED <<syms, libs, dict, seenLibs, oldLibs, added, searching, phase, pos, strong, virtual, pulled>>
  BY DEF LoadObjFile
<1>2. mod'.open = TRUE /\ mod'.lib = Nil /\ mod'.for = Nil /\ mod'.pubs = {} /\ mod'.left = MaxRecords
  BY <1>1 DEF Module
<1>3. Typed'
  <2>1. left' \in Nat /\ MaxRecords \in 0..MaxRecords BY <1>0, <1>1, BoundsAssumption DEF Typed
  <2> QED BY <1>0, <1>1, <1>2, <2>1 DEF Typed, Known
<1>4. Control' BY <1>0, <1>1, <1>2 DEF Control, tab
<1>5. Search' BY <1>0, <1>1 DEF Search
<1> QED BY <1>3, <1>4, <1>5

LEMMA EndObjectsInv == ASSUME Inv, EndObjects, Keeps(syms, syms') PROVE Typed' /\ Control' /\ Search'
<1>0. Good(syms) /\ ModOK /\ Typed /\ Control /\ Search BY DEF Inv
<1>1. /\ phase = "objects" /\ ~mod.open /\ searching' = added /\ left' = 0
      /\ syms' = (IF added THEN ResolveVFExtdefs(syms) ELSE syms)
      /\ phase' = (IF added THEN "sweep" ELSE "convert")
      /\ UNCHANGED <<libs, dict, seenLibs, oldLibs, added, mod, pos, strong, virtual, pulled>>
  BY DEF EndObjects
<1>2. Typed'
  <2>1. phase' \in Phases /\ left' \in Nat BY <1>1 DEF Phases
  <2>2. strong' \subseteq Known(syms') BY <1>0, <1>1, GrowsFacts DEF Typed
  <2> QED BY <1>0, <1>1, <2>1, <2>2 DEF Typed
<1>3. mod.lib = Nil /\ pos = 0 /\ seenLibs = {} /\ oldLibs = {} /\ (~added => libs = <<>>)
  BY <1>0, <1>1 DEF Control, ModOK
<1>4. Control'
  <2>1. pos' \in 0..(Len(syms'.order) + 1) BY <1>0, <1>1, <1>3, GrowsFacts
  <2>2. \A n \in mod'.pubs : tab'[n].defined BY <1>0, <1>1, GrowsFacts DEF Control, Typed
  <2> QED BY <1>0, <1>1, <1>3, <2>1, <2>2 DEF Control
<1>5. Search'
  <2> SUFFICES ASSUME virtual' = {} PROVE Search' BY DEF Search
  <2>1. virtual = {} /\ NoVF(syms) BY <1>0, <1>1 DEF Search
  <2>2. syms' = syms BY <1>0, <1>1, <2>1, NoVFSame
  <2>3. ASSUME ~added PROVE NothingMissed'
    <3>1. libs' = <<>> BY <1>1, <1>3, <2>3
    <3>2. Listed(libs') = {} BY <3>1 DEF Listed
    <3> QED BY <3>2 DEF NothingMissed, Provided
  <2>4. \A n : ~In(dict', n, {}) BY DEF In
  <2> QED BY <1>1, <1>3, <2>1, <2>2, <2>3, <2>4 DEF Search
<1> QED BY <1>2, <1>4, <1>5

LEMMA BeginSweepInv == ASSUME Inv, BeginSweep PROVE Typed' /\ Control' /\ Search'
<1>0. Good(syms) /\ ModOK /\ Typed /\ Control /\ Search BY DEF Inv
<1>1. /\ phase = "sweep" /\ pos = 0 /\ added' = FALSE /\ pos' = 1
      /\ oldLibs' = oldLibs \cup (Listed(libs) \cap seenLibs) /\ seenLibs' = Listed(libs)
      /\ UNCHANGED <<syms, libs, dict, searching, phase, mod, left, strong, virtual, pulled>>
  BY DEF BeginSweep
<1>2. Typed' BY <1>0, <1>1 DEF Typed, Known
<1>3. mod.lib = Nil /\ Len(syms.order) \in Nat
  <2>1. pos \notin 1..Len(syms.order) BY <1>1
  <2> QED BY <1>0, <2>1 DEF ModOK, Good, Table
<1>4. oldLibs' \subseteq seenLibs BY <1>0, <1>1 DEF Control
<1>5. Control'
  <2>1. pos' \in 0..(Len(syms'.order) + 1) BY <1>1, <1>3
  <2> QED BY <1>0, <1>1, <1>3, <2>1 DEF Control, tab
<1>6. Search'
  <2> SUFFICES ASSUME virtual' = {} PROVE Search' BY DEF Search
  <2>1. NoVF(syms) /\ \A i \in 1..Len(syms.order) :
                        Past(pos, i) /\ Sought(tab[syms.order[i]]) => ~In(dict, syms.order[i], seenLibs)
    BY <1>0, <1>1 DEF Search
  <2>2. ASSUME NEW n \in Names, Sought(tab'[n]) PROVE ~In(dict', n, oldLibs')
    <3>1. Sought(tab[n]) BY <1>1, <2>2 DEF tab
    <3>2. n \in Known(syms) BY <1>0, <3>1 DEF Good, Sought, Fresh, tab
    <3>3. PICK i \in 1..Len(syms.order) : n = syms.order[i] BY <3>2 DEF Known
    <3>4. ~In(dict, n, seenLibs) BY <1>1, <2>1, <3>1, <3>3 DEF Past
    <3> QED BY <1>1, <1>4, <3>4 DEF In
  <2>4. \A i \in 1..Len(syms'.order) : ~(i < pos') /\ ~Past(pos', i) BY <1>1 DEF Past
  <2> QED BY <1>1, <2>1, <2>2, <2>4 DEF Search
<1> QED BY <1>2, <1>5, <1>6

(* LibFind answers with a library of the list. *)
LEMMA LibFound ==
  ASSUME Typed, NEW n, Finds(n) # {} PROVE LibFind(n) \in Libs
<1>1. libs \in Seq(Entry) BY DEF Typed
<1>2. Finds(n) \in SUBSET Nat /\ Finds(n) \subseteq 1..Len(libs) BY <1>1 DEF Finds
<1>3. First(Finds(n), 0) \in 1..Len(libs) BY <1>2, FirstIn
<1>4. libs[First(Finds(n), 0)] \in Entry BY <1>1, <1>3
<1> QED BY <1>4 DEF LibFind, Entry

LEMMA LoadLibModuleInv == ASSUME Inv, LoadLibModule PROVE Typed' /\ Control' /\ Search'
<1> DEFINE n == syms.order[pos]
<1>0. Good(syms) /\ ModOK /\ Typed /\ Control /\ Search BY DEF Inv
<1>1. /\ phase = "sweep" /\ pos \in 1..Len(syms.order) /\ Finds(n) # {}
      /\ mod' = Module(LibFind(n), n) /\ pulled' = pulled \cup {<<LibFind(n), n>>}
      /\ UNCHANGED <<syms, libs, dict, seenLibs, oldLibs, added, searching, phase, pos, left, strong, virtual>>
  BY DEF LoadLibModule, AtSymbol
<1>2. n \in Names /\ LibFind(n) \in Libs
  <2>1. n \in Names BY <1>0, <1>1 DEF Good, Table
  <2> QED BY <1>0, <1>1, <2>1, LibFound
<1> HIDE DEF n
<1>3. /\ mod'.open = TRUE /\ mod'.lib = LibFind(n) /\ mod'.for = n
      /\ mod'.pubs = {} /\ mod'.left = MaxRecords
  BY <1>1 DEF Module
<1>4. Typed'
  <2>1. MaxRecords \in 0..MaxRecords BY BoundsAssumption
  <2>2. pulled' \subseteq Libs \X Names BY <1>0, <1>1, <1>2 DEF Typed
  <2> QED BY <1>0, <1>1, <1>2, <1>3, <2>1, <2>2 DEF Typed, Known
<1>5. Control'
  <2>1. mod'.lib # Nil BY <1>2, <1>3, LibsAssumption
  <2>2. mod'.for = syms'.order[pos'] BY <1>1, <1>3 DEF n
  <2>3. phase' # "directives" /\ phase' # "objects" BY <1>1
  <2> QED BY <1>0, <1>1, <1>3, <2>1, <2>2, <2>3 DEF Control
<1>6. Search' BY <1>0, <1>1 DEF Search, tab, NothingMissed, Wanted, Provided
<1> QED BY <1>4, <1>5, <1>6

LEMMA PassSymbolInv ==
  ASSUME Inv, PassSymbol, Keeps(syms, syms') PROVE Typed' /\ Control' /\ Search'
<1> DEFINE n == syms.order[pos]
           s == [tab[n] EXCEPT !.checked = TRUE]
<1>0. Good(syms) /\ ModOK /\ Typed /\ Control /\ Search BY DEF Inv
<1>1. /\ phase = "sweep" /\ ~mod.open /\ pos \in 1..Len(syms.order) /\ pos' = pos + 1
      /\ ~(Wanted(n) /\ Finds(n) # {}) /\ syms' = Update(syms, n, s)
      /\ UNCHANGED <<libs, dict, seenLibs, oldLibs, added, searching, phase, mod, left, strong, virtual, pulled>>
  BY DEF PassSymbol, AtSymbol
<1>2. n \in Names /\ tab[n] \in Symbol /\ tab \in [Names -> Symbol] /\ Len(syms.order) \in Nat
      /\ \A i \in 1..Len(syms.order) : syms.order[i] \in Names
  <2>1. n \in Names BY <1>0, <1>1 DEF Good, Table
  <2> QED BY <1>0, <2>1 DEF Good, Table, SymOK, tab
<1>3. s.checked /\ s.defined = tab[n].defined /\ s.type = tab[n].type BY <1>2 DEF Symbol
<1> HIDE DEF n, s
<1>4. syms'.order = syms.order /\ tab' = [tab EXCEPT ![n] = s]
  BY <1>0, <1>1 DEF Good, Table, Update, tab
<1>5. tab'[n] = s /\ \A m \in Names \ {n} : tab'[m] = tab[m] BY <1>2, <1>4
<1>6. mod.lib = Nil BY <1>0, <1>1 DEF ModOK
<1>7. Typed' BY <1>0, <1>1, <1>4 DEF Typed, Known
<1>8. Control'
  <2>1. pos' \in 0..(Len(syms'.order) + 1) /\ pos > 0 BY <1>1, <1>2, <1>4
  <2>2. \A m \in mod'.pubs : tab'[m].defined BY <1>0, <1>1, GrowsFacts DEF Control, Typed
  <2>3. phase' # "directives" /\ phase' # "objects" BY <1>1
  <2> QED BY <1>0, <1>1, <1>6, <2>1, <2>2, <2>3 DEF Control
<1>9. Search'
  <2> SUFFICES ASSUME virtual' = {} PROVE Search' BY DEF Search
  <2>1. NoVF(syms) /\ virtual = {} BY <1>0, <1>1 DEF Search
  <2>2. /\ \A m \in Names : Sought(tab[m]) => ~In(dict, m, oldLibs)
        /\ \A i \in 1..Len(syms.order) :
             Past(pos, i) /\ Sought(tab[syms.order[i]]) => ~In(dict, syms.order[i], seenLibs)
        /\ pos > 0 /\ ~added => \A i \in 1..Len(syms.order) : i < pos => tab[syms.order[i]].checked
    BY <1>0, <1>1, <2>1 DEF Search
  <2>3. NoVF(syms') BY <1>3, <1>5, <2>1 DEF NoVF, tab
  <2>4. Sought(s) => ~In(dict, n, Listed(libs))
    <3> SUFFICES ASSUME Sought(s), In(dict, n, Listed(libs)) PROVE FALSE OBVIOUS
    <3>1. Wanted(n) /\ Finds(n) = {} BY <1>1, <1>3 DEF Sought, Wanted
    <3>2. PICK l \in Listed(libs) : n \in dict[l] BY DEF In
    <3>3. PICK i \in 1..Len(libs) : l = libs[i].lib BY <3>2 DEF Listed
    <3>4. i \in DOMAIN libs BY <1>0, <3>3 DEF Typed
    <3>5. tab[n].checked /\ l \in oldLibs BY <3>1, <3>2, <3>3, <3>4 DEF Finds
    <3>6. Sought(tab[n]) BY <3>1, <3>5 DEF Sought, Wanted
    <3>7. ~In(dict, n, oldLibs) BY <1>2, <2>2, <3>6
    <3> QED BY <3>2, <3>5, <3>7 DEF In
  <2>5. oldLibs \subseteq Listed(libs) /\ seenLibs \subseteq Listed(libs) BY <1>0 DEF Control
  <2>6. Sought(s) => ~In(dict, n, oldLibs) /\ ~In(dict, n, seenLibs) BY <2>4, <2>5 DEF In
  <2>7. ASSUME NEW m \in Names, Sought(tab'[m]) PROVE ~In(dict', m, oldLibs')
    BY <1>1, <1>5, <2>2, <2>6, <2>7
  <2>8. ASSUME NEW i \in 1..Len(syms'.order), Past(pos', i), Sought(tab'[syms'.order[i]])
        PROVE  ~In(dict', syms'.order[i], seenLibs')
    <3>1. i \in 1..Len(syms.order) /\ i < pos + 1 BY <1>1, <1>4, <2>8 DEF Past
    <3>2. CASE syms.order[i] = n BY <1>1, <1>4, <1>5, <2>6, <2>8, <3>2
    <3>3. CASE syms.order[i] # n
      <4>1. i < pos BY <1>1, <3>1, <3>3 DEF n
      <4>2. Past(pos, i) /\ Sought(tab[syms.order[i]]) BY <1>2, <1>4, <1>5, <2>8, <3>1, <3>3, <4>1 DEF Past
      <4> QED BY <1>1, <1>4, <2>2, <3>1, <4>2
    <3> QED BY <3>2, <3>3
  <2>9. ASSUME ~added', NEW i \in 1..Len(syms'.order), i < pos' PROVE tab'[syms'.order[i]].checked
    <3>1. i \in 1..Len(syms.order) /\ i < pos + 1 BY <1>1, <1>4, <2>9
    <3>2. CASE syms.order[i] = n BY <1>3, <1>4, <1>5, <3>2
    <3>3. CASE syms.order[i] # n
      <4>1. i < pos BY <1>1, <3>1, <3>3 DEF n
      <4>2. tab[syms.order[i]].checked BY <1>1, <2>2, <2>9, <3>1, <4>1
      <4> QED BY <1>2, <1>4, <1>5, <3>1, <3>3, <4>2
    <3> QED BY <3>2, <3>3
  <2> QED BY <1>1, <2>3, <2>7, <2>8, <2>9 DEF Search
<1> QED BY <1>7, <1>8, <1>9

LEMMA EndSweepInv ==
  ASSUME Inv, EndSweep, Keeps(syms, syms') PROVE Typed' /\ Control' /\ Search'
<1> DEFINE again == added \/ Conditionals(syms) # {}
<1>0. Good(syms) /\ ModOK /\ Typed /\ Control /\ Search BY DEF Inv
<1>1. /\ phase = "sweep" /\ ~mod.open /\ pos = Len(syms.order) + 1 /\ pos' = 0
      /\ syms' = ResolveVFExtdefs(syms)
      /\ phase' = (IF again THEN "sweep" ELSE "convert") /\ searching' = again
      /\ UNCHANGED <<libs, dict, seenLibs, oldLibs, added, mod, left, strong, virtual, pulled>>
  BY DEF EndSweep
<1>2. again \in BOOLEAN OBVIOUS
<1> HIDE DEF again
<1>3. mod.lib = Nil /\ Len(syms.order) \in Nat BY <1>0, <1>1 DEF ModOK, Good, Table
<1>4. Typed'
  <2>1. phase' \in Phases /\ searching' \in BOOLEAN BY <1>1, <1>2 DEF Phases
  <2>2. strong' \subseteq Known(syms') BY <1>0, <1>1, GrowsFacts DEF Typed
  <2> QED BY <1>0, <1>1, <2>1, <2>2 DEF Typed
<1>5. Control'
  <2>1. pos' \in 0..(Len(syms'.order) + 1) /\ ~(pos' > 0) BY <1>0, <1>1, GrowsFacts
  <2>2. \A n \in mod'.pubs : tab'[n].defined BY <1>0, <1>1, GrowsFacts DEF Control, Typed
  <2>3. phase' # "directives" /\ phase' # "objects" BY <1>1
  <2>4. phase' = "sweep" => searching' BY <1>1
  <2> QED BY <1>0, <1>1, <1>3, <2>1, <2>2, <2>3, <2>4 DEF Control
<1>6. Search'
  <2> SUFFICES ASSUME virtual' = {} PROVE Search' BY DEF Search
  <2>1. virtual = {} /\ NoVF(syms) BY <1>0, <1>1 DEF Search
  <2>2. syms' = syms BY <1>0, <1>1, <2>1, NoVFSame
  <2>3. again <=> added
    <3>1. Conditionals(syms) = {} BY <1>0, <2>1 DEF Conditionals, NoVF, VFs, Known, Good, Table
    <3> QED BY <3>1 DEF again
  <2>4. /\ \A n \in Names : Sought(tab[n]) => ~In(dict, n, oldLibs)
        /\ \A i \in 1..Len(syms.order) :
             Past(pos, i) /\ Sought(tab[syms.order[i]]) => ~In(dict, syms.order[i], seenLibs)
        /\ pos > 0 /\ ~added => \A i \in 1..Len(syms.order) : i < pos => tab[syms.order[i]].checked
    BY <1>0, <1>1, <2>1 DEF Search
  <2>5. pos > 0 /\ \A i \in 1..Len(syms.order) : i < pos BY <1>1, <1>3
  <2>6. \A i \in 1..Len(syms.order) : Sought(tab[syms.order[i]]) => ~In(dict, syms.order[i], seenLibs)
    BY <2>4, <2>5 DEF Past
  <2>7. tab' = tab BY <2>2 DEF tab
  <2>8. ASSUME ~added PROVE NothingMissed'
    <3> SUFFICES ASSUME NEW n \in Known(syms'), Wanted(n)', Provided(n)' PROVE FALSE
      BY DEF NothingMissed
    <3>1. PICK i \in 1..Len(syms.order) : n = syms.order[i] BY <2>2 DEF Known
    <3>2. tab[n].checked BY <2>4, <2>5, <2>8, <3>1
    <3>3. Sought(tab[n]) BY <2>7, <3>2 DEF Wanted, Sought
    <3>4. ~In(dict, n, seenLibs) BY <2>6, <3>1, <3>3
    <3>5. Listed(libs) \subseteq seenLibs BY <1>0, <1>1, <2>5, <2>8 DEF Control
    <3> QED BY <1>1, <3>4, <3>5 DEF Provided, In
  <2>9. ~(pos' > 0) BY <1>1
  <2> QED BY <1>1, <2>1, <2>2, <2>3, <2>4, <2>6, <2>7, <2>8, <2>9 DEF Search
<1> QED BY <1>4, <1>5, <1>6

LEMMA ConvertInv == ASSUME Inv, Convert, Keeps(syms, syms') PROVE Typed' /\ Control' /\ Search'
<1>0. Good(syms) /\ ModOK /\ Typed /\ Control /\ Search BY DEF Inv
<1>1. /\ phase = "convert" /\ phase' = "linked" /\ syms' = ConvertLazyRefs(syms)
      /\ UNCHANGED <<libs, dict, seenLibs, oldLibs, added, searching, mod, pos, left, strong, virtual, pulled>>
  BY DEF Convert
<1>2. Typed'
  <2>1. strong' \subseteq Known(syms') BY <1>0, <1>1, GrowsFacts DEF Typed
  <2> QED BY <1>0, <1>1, <2>1 DEF Typed, Phases
<1>3. Control'
  <2>1. pos' \in 0..(Len(syms'.order) + 1) BY <1>0, <1>1, GrowsFacts DEF Control
  <2>2. \A n \in mod'.pubs : tab'[n].defined BY <1>0, <1>1, GrowsFacts DEF Control, Typed
  <2>3. mod.lib = Nil /\ ~mod.open BY <1>0, <1>1 DEF Control
  <2> QED BY <1>0, <1>1, <2>1, <2>2, <2>3 DEF Control
<1>4. Search'
  <2> SUFFICES ASSUME virtual' = {} PROVE Search' BY DEF Search
  <2>1. NoVF(syms) BY <1>0, <1>1 DEF Search
  <2>2. ASSUME NEW n \in Names PROVE syms'.tab[n].type \notin VFs
    <3> DEFINE w == SetSymAlias(syms, n, syms.tab[n].def).tab[n]
    <3>1. syms'.tab[n] = IF n \in Known(syms) /\ syms.tab[n].type \in Refs
                         THEN [WeldSyms(syms, n).tab[n] EXCEPT !.conds = {}] ELSE syms.tab[n]
      BY <1>0, <1>1 DEF ConvertLazyRefs, Good, Table
    <3>2. CASE n \in Known(syms) /\ syms.tab[n].type \in Refs
      <4>1. syms.tab[n] \in Symbol /\ syms.tab[n].def # Nil BY <1>0, <3>2 DEF Good, SymOK
      <4>2. syms'.tab[n] = [w EXCEPT !.conds = {}] BY <3>1, <3>2, <4>1 DEF WeldSyms
      <4>3. w = [syms.tab[n] EXCEPT !.type = "alias", !.alias = syms.tab[n].def, !.defined = TRUE]
        BY <1>0 DEF SetSymAlias, Update, Good, Table
      <4> HIDE DEF w
      <4>4. syms'.tab[n].type = "alias" BY <4>1, <4>2, <4>3 DEF Symbol
      <4> QED BY <4>4 DEF VFs, VFRefs
    <3> QED BY <2>1, <3>1, <3>2 DEF NoVF
  <2> QED BY <1>1, <2>2 DEF Search, NoVF
<1> QED BY <1>2, <1>3, <1>4

(* The symbols when a module ends: what lost its default is looked for      *)
(* again, and what a library module was read for no longer is.               *)
Lost == {n \in Plain : tab[n].type \in Refs}
LEMMA EndModuleTab ==
  ASSUME Good(syms), ModOK, EndModule, NEW n \in Names
  PROVE  /\ tab'[n].defined = tab[n].defined
         /\ tab'[n].type = IF n \in Lost THEN "regular" ELSE tab[n].type
         /\ tab'[n].checked = IF mod.lib # Nil /\ n = syms.order[pos] THEN TRUE
                              ELSE IF n \in Lost /\ searching THEN FALSE ELSE tab[n].checked
         /\ tab'[n].marked = tab[n].marked /\ tab'[n].conds \subseteq tab[n].conds
         /\ tab'[n].alias = tab[n].alias
<1> DEFINE cut == CollapseLazyExtdefs(syms, Lost, searching)
           new == SymModEnd(cut, mod.first)
           at  == syms.order[pos]
           c   == IF n \in Lost THEN Plainly(tab[n], searching) ELSE tab[n]
           old == \E i \in (mod.first + 1)..Len(cut.order) : cut.order[i] = n
           d   == IF old THEN [c EXCEPT !.old = TRUE] ELSE c
<1>1. tab[n] \in Symbol /\ syms \in Table BY DEF Good, SymOK, tab
<1>2. /\ c \in [type : Types, alias : Names \cup {Nil}, def : Names \cup {Nil}, conds : SUBSET Names,
                defined : BOOLEAN, placed : BOOLEAN, checked : BOOLEAN, old : BOOLEAN, marked : BOOLEAN]
      /\ c.defined = tab[n].defined /\ c.type = (IF n \in Lost THEN "regular" ELSE tab[n].type)
      /\ c.checked = (IF n \in Lost /\ searching THEN FALSE ELSE tab[n].checked)
      /\ c.marked = tab[n].marked /\ c.conds \subseteq tab[n].conds /\ c.alias = tab[n].alias
  BY <1>1 DEF Plainly, Symbol, Types
<1>3. cut = [order |-> syms.order, tab |-> cut.tab] /\ cut.tab[n] = c /\ DOMAIN cut.tab = Names
  BY <1>1 DEF CollapseLazyExtdefs, Table, tab
<1>4. syms' = IF mod.lib = Nil THEN new ELSE [new EXCEPT !.tab[at].checked = TRUE]
  BY DEF EndModule, Lost
<1> HIDE DEF c, cut
<1>5. new = [order |-> cut.order, tab |-> new.tab] /\ new.tab[n] = d /\ DOMAIN new.tab = Names
  <2> DEFINE made(m) == \E i \in (mod.first + 1)..Len(cut.order) : cut.order[i] = m
             f == [m \in Names |-> IF made(m) THEN [cut.tab[m] EXCEPT !.old = TRUE] ELSE cut.tab[m]]
  <2>1. new = [cut EXCEPT !.tab = f] BY DEF SymModEnd
  <2>2. f[n] = (IF made(n) THEN [cut.tab[n] EXCEPT !.old = TRUE] ELSE cut.tab[n]) /\ DOMAIN f = Names
    OBVIOUS
  <2>3. made(n) <=> old OBVIOUS
  <2> HIDE DEF f, made, old, new
  <2>4. f[n] = d BY <1>3, <2>2, <2>3
  <2>5. new = [order |-> cut.order, tab |-> f] BY <1>3, <2>1
  <2> QED BY <2>2, <2>4, <2>5
<1>6. /\ d.defined = c.defined /\ d.type = c.type /\ d.checked = c.checked
      /\ d.marked = c.marked /\ d.conds = c.conds /\ d.alias = c.alias
      /\ d \in [type : Types, alias : Names \cup {Nil}, def : Names \cup {Nil}, conds : SUBSET Names,
                defined : BOOLEAN, placed : BOOLEAN, checked : BOOLEAN, old : BOOLEAN, marked : BOOLEAN]
  BY <1>2
<1> HIDE DEF new, at, d, old
<1>7. CASE mod.lib = Nil
  <2>1. tab'[n] = d BY <1>4, <1>5, <1>7 DEF tab
  <2> QED BY <1>2, <1>6, <1>7, <2>1
<1>8. CASE mod.lib # Nil
  <2>1. syms'.tab = [new.tab EXCEPT ![at] = [new.tab[at] EXCEPT !.checked = TRUE]] BY <1>4, <1>5, <1>8
  <2>2. CASE n # at
    <3>1. tab'[n] = d BY <1>5, <2>1, <2>2 DEF tab
    <3> QED BY <1>2, <1>6, <2>2, <3>1 DEF at
  <2>3. CASE n = at
    <3>1. tab'[n] = [d EXCEPT !.checked = TRUE] BY <1>5, <2>1, <2>3 DEF tab
    <3>2. /\ tab'[n].checked = TRUE /\ tab'[n].defined = d.defined /\ tab'[n].type = d.type
          /\ tab'[n].marked = d.marked /\ tab'[n].conds = d.conds /\ tab'[n].alias = d.alias
      BY <1>6, <3>1
    <3> QED BY <1>2, <1>6, <1>8, <2>3, <3>2 DEF at
  <2> QED BY <2>2, <2>3
<1> QED BY <1>7, <1>8

LEMMA EndModuleInv ==
  ASSUME Inv, EndModule, Keeps(syms, syms') PROVE Typed' /\ Control' /\ Search'
<1> DEFINE n == syms.order[pos]
<1>0. Good(syms) /\ ModOK /\ Typed /\ Control /\ Search BY DEF Inv
<1>1. /\ mod.open /\ (mod.lib # Nil => mod.for \in mod.pubs)
      /\ added' = (added \/ (searching /\ Lost # {}))
      /\ strong' = strong \cup Plain /\ mod' = NoModule
      /\ pos' = (IF mod.lib = Nil THEN pos ELSE pos + 1)
      /\ UNCHANGED <<libs, dict, seenLibs, oldLibs, searching, phase, left, virtual, pulled>>
  BY DEF EndModule, Lost
<1>2. /\ syms'.order = syms.order /\ Plain \subseteq Known(syms) /\ Len(syms.order) \in Nat
      /\ \A i \in 1..Len(syms.order) : syms.order[i] \in Names
  BY <1>0, EndModuleKeeps DEF Good, Table
<1>3. mod'.open = FALSE /\ mod'.lib = Nil /\ mod'.for = Nil /\ mod'.pubs = {} /\ mod'.left = 0
  BY <1>1 DEF NoModule
<1>4. mod.lib # Nil => phase = "sweep" /\ pos \in 1..Len(syms.order) /\ n \in Names /\ tab[n].defined
  <2> SUFFICES ASSUME mod.lib # Nil
               PROVE  phase = "sweep" /\ pos \in 1..Len(syms.order) /\ n \in Names /\ tab[n].defined
    OBVIOUS
  <2>1. phase = "sweep" /\ mod.for = n /\ tab[mod.for].defined BY <1>0, <1>1 DEF Control
  <2>2. pos \in 1..Len(syms.order) BY <1>0 DEF ModOK
  <2> QED BY <1>2, <2>1, <2>2
<1>5. Typed'
  <2>1. 0 \in 0..MaxRecords BY BoundsAssumption
  <2>2. added' \in BOOLEAN /\ strong' \subseteq Known(syms') BY <1>0, <1>1, <1>2 DEF Typed, Known
  <2> QED BY <1>0, <1>1, <1>3, <2>1, <2>2 DEF Typed
<1>6. Control'
  <2>1. pos \in 0..(Len(syms.order) + 1) BY <1>0 DEF Control
  <2>2. pos' \in 0..(Len(syms'.order) + 1) BY <1>1, <1>2, <1>4, <2>1
  <2>3. phase = "sweep" => pos > 0 /\ mod.lib # Nil BY <1>0, <1>1, <1>4 DEF Control
  <2>4. phase \in {"directives", "objects"} => pos' = pos BY <1>1, <1>4
  <2> QED BY <1>0, <1>1, <1>3, <2>2, <2>3, <2>4 DEF Control
<1>7. Search'
  <2> SUFFICES ASSUME virtual' = {} PROVE Search' BY DEF Search
  <2>1. NoVF(syms) /\ virtual = {} BY <1>0, <1>1 DEF Search
  <2>2. NoVF(syms')
    <3> SUFFICES ASSUME NEW m \in Names PROVE tab'[m].type \notin VFs BY DEF NoVF, tab
    <3>1. tab'[m].type = "regular" \/ tab'[m].type = tab[m].type BY <1>0, EndModuleTab
    <3> QED BY <2>1, <3>1 DEF NoVF, VFs, VFRefs, tab
  <2>3. phase # "convert" BY <1>0, <1>1, <1>4 DEF Control
  <2>4. ASSUME phase = "sweep"
        PROVE  /\ \A m \in Names : Sought(tab'[m]) => ~In(dict', m, oldLibs')
               /\ \A i \in 1..Len(syms'.order) :
                    Past(pos', i) /\ Sought(tab'[syms'.order[i]]) => ~In(dict', syms'.order[i], seenLibs')
               /\ pos' > 0 /\ ~added' => \A i \in 1..Len(syms'.order) : i < pos' => tab'[syms'.order[i]].checked
    <3>1. mod.lib # Nil BY <1>0, <1>1, <2>4 DEF Control
    <3>2. searching /\ pos' = pos + 1 /\ pos \in 1..Len(syms.order) /\ tab[n].defined /\ n \in Names
      BY <1>0, <1>1, <1>4, <2>4, <3>1 DEF Control
    <3>3. /\ \A m \in Names : Sought(tab[m]) => ~In(dict, m, oldLibs)
          /\ \A i \in 1..Len(syms.order) :
               Past(pos, i) /\ Sought(tab[syms.order[i]]) => ~In(dict, syms.order[i], seenLibs)
          /\ pos > 0 /\ ~added => \A i \in 1..Len(syms.order) : i < pos => tab[syms.order[i]].checked
      BY <1>0, <2>1, <2>4 DEF Search
    <3>4. ASSUME NEW m \in Names, Sought(tab'[m]) PROVE m # n /\ Sought(tab[m])
      <4>1. ~tab[m].defined /\ m # n BY <1>0, <3>2, <3>4, EndModuleTab DEF Sought
      <4>2. m \notin Lost BY <1>0, <3>2, <3>4, <4>1, EndModuleTab DEF Sought
      <4> QED BY <1>0, <3>4, <4>1, <4>2, EndModuleTab DEF Sought
    <3>5. ASSUME NEW m \in Names, Sought(tab'[m]) PROVE ~In(dict', m, oldLibs')
      BY <1>1, <3>3, <3>4, <3>5
    <3>6. ASSUME NEW i \in 1..Len(syms'.order), Past(pos', i), Sought(tab'[syms'.order[i]])
          PROVE  ~In(dict', syms'.order[i], seenLibs')
      <4>1. i \in 1..Len(syms.order) /\ syms.order[i] \in Names /\ i < pos + 1
        BY <1>2, <3>2, <3>6 DEF Past
      <4>2. syms.order[i] # n /\ Sought(tab[syms.order[i]]) BY <1>2, <3>4, <3>6, <4>1
      <4>3. i < pos BY <3>2, <4>1, <4>2
      <4> QED BY <1>1, <1>2, <3>3, <4>1, <4>2, <4>3 DEF Past
    <3>7. ASSUME ~added', NEW i \in 1..Len(syms'.order), i < pos' PROVE tab'[syms'.order[i]].checked
      <4>1. i \in 1..Len(syms.order) /\ syms.order[i] \in Names /\ i < pos + 1 BY <1>2, <3>2, <3>7
      <4>2. Lost = {} /\ ~added BY <1>1, <3>2, <3>7
      <4>3. syms.order[i] # n => i < pos BY <3>2, <4>1
      <4>4. syms.order[i] # n => tab[syms.order[i]].checked BY <3>2, <3>3, <4>1, <4>2, <4>3
      <4> HIDE DEF n
      <4>5. syms.order[i] = syms.order[pos] => tab'[syms.order[i]].checked
        BY <1>0, <3>1, <4>1, EndModuleTab
      <4>6. syms.order[i] # syms.order[pos] => tab'[syms.order[i]].checked
        BY <1>0, <4>1, <4>2, <4>4, EndModuleTab DEF n
      <4> QED BY <1>2, <4>5, <4>6
    <3> QED BY <3>5, <3>6, <3>7
  <2> QED BY <1>1, <2>2, <2>3, <2>4 DEF Search
<1> QED BY <1>5, <1>6, <1>7

LEMMA StepInv == ASSUME Inv, [Next]_vars PROVE Inv'
<1>0. Good(syms) /\ ModOK /\ Typed /\ Control /\ Search BY DEF Inv
<1>1. Keeps(syms, syms') /\ Good(syms') /\ ModOK' BY <1>0, StepFine DEF Fine, Keeps
<1> SUFFICES Typed' /\ Control' /\ Search' BY <1>1 DEF Inv
<1>2. Known(syms) \subseteq Known(syms') BY <1>0, <1>1, GrowsFacts
<1>3. ASSUME NEW n \in Names, Reference(n) PROVE Typed' /\ Control' /\ Search'
  <2>1. /\ Directive("reference") /\ syms' = SymOp(syms, n)
        /\ strong' = strong \cup {UnaliasSym(tab, n)} /\ UNCHANGED <<libs, added>>
    BY <1>3 DEF Reference
  <2>2. SymOp(syms, n).tab = syms.tab /\ UnaliasSym(tab, n) \in Known(SymOp(syms, n))
    BY <1>0, KeepsSymOp DEF tab
  <2>3. strong' \subseteq Known(syms') BY <1>0, <1>2, <2>1, <2>2 DEF Typed
  <2>4. ListStep BY <1>0, <2>1, SameList
  <2>5. NoVF(syms) => NoVF(syms') BY <2>1, <2>2 DEF NoVF
  <2> QED BY <1>1, <2>1, <2>3, <2>4, <2>5, DirectiveInv
<1>4. ASSUME NEW p \in Aliases, NEW stale, AddAlias(p[1], p[2], stale)
      PROVE  Typed' /\ Control' /\ Search'
  <2>1. /\ Directive("alias") /\ syms' = MakeSymAlias(syms, p[1], p[2], stale)
        /\ UNCHANGED <<libs, added, strong>> /\ p[1] \in Names /\ p[2] \in Names
    BY <1>4, AliasesAssumption DEF AddAlias
  <2>2. AllLooked(syms, syms') BY <1>0, <2>1, LookedMakeSymAlias
  <2>3. NoVF(syms) => NoVF(syms') BY <2>2 DEF NoVF, AllLooked, Looked
  <2>4. ListStep BY <1>0, <2>1, SameList
  <2>5. strong' \subseteq Known(syms') BY <1>0, <1>2, <2>1 DEF Typed
  <2> QED BY <1>1, <2>1, <2>3, <2>4, <2>5, DirectiveInv
<1>5. ASSUME NEW l \in Libs, Library(l) PROVE Typed' /\ Control' /\ Search'
  <2>1. Directive("library") /\ AddLib(l, Max) /\ UNCHANGED <<syms, strong>> BY <1>5 DEF Library
  <2>2. ListStep BY <1>0, <2>1, AddLibStep
  <2>3. strong' \subseteq Known(syms') BY <1>0, <2>1 DEF Typed
  <2> QED BY <1>1, <2>1, <2>2, <2>3, DirectiveInv
<1>6. CASE mod.open /\ ReadRecord
  <2>1. RecordStep BY <1>0, <1>6, ReadRecordStep
  <2> QED BY <1>1, <2>1, RecordTyped, RecordSearch
<1>7. CASE EndDirectives \/ Linked \/ UNCHANGED vars BY <1>7, PhaseInv
<1>8. CASE LoadObjFile BY <1>8, LoadObjFileInv
<1>9. CASE EndModule BY <1>1, <1>9, EndModuleInv
<1>10. CASE EndObjects BY <1>1, <1>10, EndObjectsInv
<1>11. CASE BeginSweep BY <1>11, BeginSweepInv
<1>12. CASE LoadLibModule BY <1>12, LoadLibModuleInv
<1>13. CASE PassSymbol BY <1>1, <1>13, PassSymbolInv
<1>14. CASE EndSweep BY <1>1, <1>14, EndSweepInv
<1>15. CASE Convert BY <1>1, <1>15, ConvertInv
<1> QED BY <1>3, <1>4, <1>5, <1>6, <1>7, <1>8, <1>9, <1>10, <1>11, <1>12, <1>13, <1>14, <1>15 DEF Next

LEMMA InitInv == ASSUME Init PROVE Inv
<1>1. Good(syms) /\ ModOK /\ Len(syms.order) = 0 BY InitFine
<1>2. /\ syms = NoSymbols /\ libs = <<>> /\ dict \in [Libs -> SUBSET Names] /\ seenLibs = {} /\ oldLibs = {}
      /\ added = FALSE /\ searching = FALSE /\ phase = "directives" /\ mod = NoModule /\ pos = 0
      /\ left = MaxDirectives /\ strong = {} /\ virtual = {} /\ pulled = {}
  BY DEF Init
<1>3. mod.open = FALSE /\ mod.lib = Nil /\ mod.for = Nil /\ mod.pubs = {} /\ mod.left = 0
  BY <1>2 DEF NoModule
<1>4. Typed
  <2>1. libs \in Seq(Entry) /\ Sorted(libs) BY <1>2 DEF Sorted
  <2>2. left \in Nat /\ 0 \in 0..MaxRecords BY <1>2, BoundsAssumption
  <2> QED BY <1>2, <1>3, <2>1, <2>2 DEF Typed, Phases
<1>5. Control BY <1>1, <1>2, <1>3 DEF Control
<1>6. Search
  <2>1. \A n \in Names : syms.tab[n].type = "regular" BY <1>2 DEF NoSymbols, Fresh
  <2> QED BY <1>2, <2>1 DEF Search, NoVF, VFs, VFRefs
<1> QED BY <1>1, <1>4, <1>5, <1>6 DEF Inv

(* In every run of pass 1, however long, every variable has its type: a     *)
(* symbol is in the list once, a reference with a default has one, an alias  *)
(* names something, and the sweep stays inside the list of symbols            *)
(* (lsymtab.c, procfile.c).                                                  *)
THEOREM TableWellFormed == Spec => []TypeOK
<1>1. Inv => TypeOK
  <2> SUFFICES ASSUME Inv PROVE TypeOK OBVIOUS
  <2>0. Good(syms) /\ ModOK /\ Typed /\ Control BY DEF Inv
  <2>1. /\ syms.order \in Seq(Names) /\ tab \in [Names -> Symbol]
        /\ \A i, j \in DOMAIN syms.order : syms.order[i] = syms.order[j] => i = j
        /\ \A n \in Names \ Known(syms) : tab[n] = Fresh
    BY <2>0 DEF Good, Table, tab
  <2>2. \A n \in Names :
          /\ tab[n].type = "alias" => tab[n].alias # Nil /\ tab[n].defined
          /\ tab[n].type \in VFRefs => tab[n].conds # {}
          /\ tab[n].type \in Refs => tab[n].def # Nil
    BY <2>0 DEF Good, SymOK, tab
  <2>3. mod \in Modules BY <2>0 DEF ModOK, Typed, Modules, Ext
  <2>4. libs \in Seq([lib : Libs, prio : {Max, Comment}]) /\ {added, searching} \subseteq BOOLEAN
    BY <2>0 DEF Typed, Entry
  <2> QED BY <2>0, <2>1, <2>2, <2>3, <2>4 DEF TypeOK, Typed, Control
<1> QED BY <1>1, InitInv, StepInv, PTL DEF Spec

(* When the search of libraries ends, no symbol that is still wanted is in   *)
(* a library that was searched, however many libraries, modules and sweeps   *)
(* there are: neither the CHECKED flags nor the OLD libraries hide one, as   *)
(* long as no virtual function record was read (ResolveUndefined, LibFind).   *)
THEOREM SearchComplete == Spec => []NothingMissedPlain
<1>1. Inv => NothingMissedPlain
  <2> SUFFICES ASSUME Inv, virtual = {} PROVE NothingMissed BY DEF NothingMissedPlain
  <2>1. phase = "convert" => NothingMissed BY DEF Inv, Search
  <2> QED BY <2>1 DEF NothingMissed
<1> QED BY <1>1, InitInv, StepInv, PTL DEF Spec
-----------------------------------------------------------------------------
(* What is pulled in *)

(* Without aliases a name is looked up as itself. *)
LEMMA NotAliased ==
  ASSUME NEW t, NEW n \in Names, t[n].type # "alias" PROVE UnaliasSym(t, n) = n
<1>1. ASSUME NEW m \in Trail(t, n) PROVE m = n
  <2>1. \A S \in SUBSET Names : n \in S /\ (\A a \in S : IsAlias(t[a]) => t[a].alias \in S) => m \in S
    BY DEF Trail
  <2>2. {n} \in SUBSET Names /\ \A a \in {n} : ~IsAlias(t[a]) BY DEF IsAlias
  <2> QED BY <2>1, <2>2
<1>2. n \in Trail(t, n) BY DEF Trail
<1>3. Stops(t, n) = {n} BY <1>1, <1>2 DEF Stops, IsAlias
<1> QED BY <1>3 DEF UnaliasSym

(* A regular symbol that is undefined is asked for: plainly by a module or a *)
(* directive, by what calls a virtual function, or by the module being read  *)
(* if that has made it. What is read was read for what is defined now.        *)
Ripe(s) == ~s.defined /\ s.type = "regular"
Called(n) == \E v \in virtual : v[1] = n /\ (Used(n) \/ Used(v[2]))
Asked(n) == n \in strong \/ Called(n)
Open(n) == mod.open /\ \E i \in DOMAIN mod.exts : mod.exts[i].entry = n /\ ~mod.exts[i].isweak
Sane(n, s, V) ==
  /\ s.type # "alias"
  /\ s.type \in {"imported", "communal"} => s.defined
  /\ s.type \in VFRefs => \A c \in s.conds : <<n, c>> \in V
Reason(n) == Asked(n) \/ (~tab[n].old /\ Open(n))
Asking ==
  /\ \A n \in Names : Sane(n, tab[n], virtual)
  /\ \A n \in Known(syms) : Ripe(tab[n]) => Reason(n)
ReadOnce == \A p \in pulled : tab[p[2]].defined \/ (mod.open /\ p = <<mod.lib, mod.for>>)

LEMMA AskedStays ==
  ASSUME Typed, \A m \in Names : Used(m) => Used(m)', strong \subseteq strong', virtual \subseteq virtual',
         NEW n \in Names, Asked(n)
  PROVE  Asked(n)'
<1>1. CASE n \in strong BY <1>1 DEF Asked
<1>2. CASE Called(n)
  <2>1. PICK v \in virtual : v[1] = n /\ (Used(n) \/ Used(v[2])) BY <1>2 DEF Called
  <2>2. v \in virtual' /\ v[2] \in Names BY <2>1 DEF Typed
  <2>3. Used(n)' \/ Used(v[2])' BY <2>1, <2>2
  <2> QED BY <2>1, <2>2, <2>3 DEF Asked, Called
<1> QED BY <1>1, <1>2 DEF Asked

(* A step that changes symbols of C and asks for what it makes ripe *)
Grown == strong \subseteq strong' /\ virtual \subseteq virtual' /\ \A m \in Names : Used(m) => Used(m)'

LEMMA Changed ==
  ASSUME Good(syms), Typed, Asking, NEW C \in SUBSET Names, Grown,
         Known(syms') \subseteq Known(syms) \cup C,
         \A m \in Names \ C : tab'[m] = tab[m] /\ (Open(m) => Open(m)'),
         \A m \in C : /\ Sane(m, tab'[m], virtual')
                      /\ m \in Known(syms') /\ Ripe(tab'[m]) => Reason(m)'
  PROVE  Asking'
<1>1. ASSUME NEW m \in Names PROVE Sane(m, tab'[m], virtual')
  <2>1. CASE m \in C BY <2>1
  <2>2. CASE m \notin C
    <3>1. tab'[m] = tab[m] /\ Sane(m, tab[m], virtual) BY <2>2 DEF Asking
    <3> QED BY <3>1 DEF Sane, Grown
  <2> QED BY <2>1, <2>2
<1>2. ASSUME NEW m \in Known(syms'), Ripe(tab'[m]) PROVE Reason(m)'
  <2>1. CASE m \in C BY <1>2, <2>1
  <2>2. CASE m \notin C
    <3>1. m \in Known(syms) /\ m \in Names BY <2>2, KnownNames
    <3>2. tab'[m] = tab[m] /\ (Open(m) => Open(m)') BY <2>2, <3>1
    <3>3. Reason(m) BY <1>2, <3>1, <3>2 DEF Asking
    <3>4. Asked(m) => Asked(m)' BY <3>1, AskedStays DEF Grown
    <3> QED BY <3>2, <3>3, <3>4 DEF Reason
  <2> QED BY <2>1, <2>2
<1> QED BY <1>1, <1>2 DEF Asking

(* What was asked for is asked for still. *)
LEMMA StillAsked ==
  ASSUME Good(syms), Typed, Asking, Grown, NEW n \in Names, Ripe(tab[n]), tab[n].old
  PROVE  Asked(n)'
<1>1. n \in Known(syms) BY DEF Good, Fresh, tab
<1>2. Asked(n) BY <1>1 DEF Asking, Reason
<1> QED BY <1>2, AskedStays DEF Grown

(* The references of the module *)
LEMMA ReadMod ==
  ASSUME ModOK, NEW exts, NEW pubs, Read(exts, pubs)
  PROVE  mod'.open = mod.open /\ mod'.exts = exts
<1>1. mod' = [mod EXCEPT !.left = @ - 1, !.exts = exts, !.pubs = pubs] BY DEF Read
<1> QED BY <1>1 DEF ModOK

LEMMA OpenSame ==
  ASSUME ModOK, Read(mod.exts, mod.pubs) \/ (\E n : Read(mod.exts, mod.pubs \cup {n}))
  PROVE  \A m \in Names : Open(m) => Open(m)'
BY ReadMod DEF Open

LEMMA OpenAppend ==
  ASSUME ModOK, mod.open, NEW n \in Names,
         Read(Append(mod.exts, [entry |-> n, isweak |-> FALSE]), mod.pubs)
  PROVE  Open(n)' /\ \A m \in Names : Open(m) => Open(m)'
<1> DEFINE e == [entry |-> n, isweak |-> FALSE]
<1>1. mod'.open /\ mod'.exts = Append(mod.exts, e) BY ReadMod
<1>2. mod.exts \in Seq(Ext) /\ e \in Ext BY DEF ModOK, Ext
<1>3. e.entry = n /\ ~e.isweak OBVIOUS
<1> HIDE DEF e
<1>4. /\ Len(mod.exts) + 1 \in DOMAIN mod'.exts /\ mod'.exts[Len(mod.exts) + 1] = e
      /\ \A i \in DOMAIN mod.exts : i \in DOMAIN mod'.exts /\ mod'.exts[i] = mod.exts[i]
  BY <1>1, <1>2
<1> QED BY <1>1, <1>3, <1>4 DEF Open

LEMMA OpenWeakened ==
  ASSUME ModOK, mod.open, NEW i \in DOMAIN mod.exts, Read(Weakened(i), mod.pubs)
  PROVE  \A m \in Names : m # mod.exts[i].entry => (Open(m) => Open(m)')
<1>1. mod'.open /\ mod'.exts = [mod.exts EXCEPT ![i].isweak = TRUE] BY ReadMod DEF Weakened
<1>2. \A k \in DOMAIN mod.exts : k \in DOMAIN mod'.exts /\ (k # i => mod'.exts[k] = mod.exts[k])
  BY <1>1
<1> QED BY <1>1, <1>2 DEF Open

-----------------------------------------------------------------------------
(* The records *)

(* A step that only makes symbols and asks for them, or changes none *)
LEMMA OnlyMade ==
  ASSUME Good(syms), Typed, Asking, tab' = tab, NEW C \in SUBSET Names,
         strong \subseteq strong', virtual \subseteq virtual',
         Known(syms') \subseteq Known(syms) \cup C,
         \A m \in Names : Open(m) => Open(m)',
         \A m \in C : Open(m)' \/ Asked(m)'
  PROVE  Asking'
<1>1. Grown BY DEF Grown, Used
<1>2. ASSUME NEW m \in C PROVE Sane(m, tab'[m], virtual') /\ (Ripe(tab'[m]) => Reason(m)')
  <2>1. Sane(m, tab[m], virtual) BY DEF Asking
  <2>2. Ripe(tab[m]) /\ tab[m].old => Asked(m)' BY <1>1, StillAsked
  <2>3. tab'[m].old \/ ~tab'[m].old OBVIOUS
  <2> QED BY <2>1, <2>2, <2>3 DEF Sane, Reason
<1> QED BY <1>1, <1>2, Changed

LEMMA KnownAddSym ==
  ASSUME NEW st, Good(st), NEW n \in Names
  PROVE  Known(AddSym(st, n)) = Known(st) \cup {n}
<1>1. CASE n \in Known(st) BY <1>1 DEF AddSym
<1>2. CASE n \notin Known(st)
  <2>1. AddSym(st, n).order = Append(st.order, n) /\ st.order \in Seq(Names)
    BY <1>2 DEF AddSym, Good, Table
  <2> QED BY <2>1 DEF Known
<1> QED BY <1>1, <1>2

LEMMA MadeBySymOp ==
  ASSUME Good(syms), Asking, NEW n \in Names
  PROVE  /\ UnaliasSym(tab, n) = n
         /\ Good(SymOp(syms, n)) /\ SymOp(syms, n).tab = syms.tab
         /\ Known(SymOp(syms, n)) = Known(syms) \cup {n}
<1>1. tab[n].type # "alias" BY DEF Asking, Sane
<1>2. UnaliasSym(tab, n) = n BY <1>1, NotAliased
<1> DEFINE a == AddSym(syms, n)
<1>3. Good(a) /\ a.tab = syms.tab /\ Known(a) = Known(syms) \cup {n} BY KeepsAddSym, KnownAddSym DEF Keeps
<1>4. SymOp(syms, n) = AddSym(a, n) BY <1>2 DEF SymOp, tab
<1> HIDE DEF a
<1>5. AddSym(a, n) = a BY <1>3 DEF AddSym
<1> QED BY <1>2, <1>3, <1>4, <1>5

LEMMA SymbolRecordAsking ==
  ASSUME Good(syms), ModOK, Typed, Asking, NEW n \in Names, ExtDef(n) \/ PubDef(n) \/ ComDef(n) \/ ImpDef(n)
  PROVE  Asking'
<1> DEFINE new == SymOp(syms, n)
<1>0. /\ UnaliasSym(tab, n) = n /\ Good(new) /\ new.tab = syms.tab /\ Known(new) = Known(syms) \cup {n}
      /\ tab[n] \in Symbol /\ Sane(n, tab[n], virtual) /\ DOMAIN tab = Names
      /\ new = [order |-> new.order, tab |-> syms.tab]
  <2>1. UnaliasSym(tab, n) = n /\ Good(new) /\ new.tab = syms.tab /\ Known(new) = Known(syms) \cup {n}
    BY MadeBySymOp
  <2>2. new = [order |-> new.order, tab |-> new.tab] BY <2>1 DEF Good, Table
  <2> QED BY <2>1, <2>2 DEF Good, Table, SymOK, Asking, tab
<1> HIDE DEF new
<1>1. CASE ExtDef(n)
  <2>1. /\ mod.open /\ syms' = new /\ UNCHANGED <<virtual, strong>>
        /\ Read(Append(mod.exts, [entry |-> n, isweak |-> FALSE]), mod.pubs)
    BY <1>0, <1>1 DEF ExtDef, Record, new
  <2>2. Open(n)' /\ \A m \in Names : Open(m) => Open(m)' BY <2>1, OpenAppend
  <2>3. tab' = tab /\ Known(syms') \subseteq Known(syms) \cup {n} BY <1>0, <2>1 DEF tab
  <2>4. {n} \in SUBSET Names OBVIOUS
  <2> QED BY <2>1, <2>2, <2>3, <2>4, OnlyMade
<1>2. ASSUME NEW s, s.defined, s.type \notin {"alias"} \cup VFRefs,
             tab' = tab \/ tab' = [tab EXCEPT ![n] = s], tab'[n].defined,
             Known(syms') \subseteq Known(syms) \cup {n},
             \A m \in Names : Open(m) => Open(m)', UNCHANGED <<virtual, strong>>
      PROVE  Asking'
  <2>1. \A m \in Names \ {n} : tab'[m] = tab[m] /\ (Open(m) => Open(m)') BY <1>0, <1>2
  <2>2. Grown BY <1>2, <2>1 DEF Grown, Used
  <2>3. Sane(n, tab'[n], virtual')
    <3>1. tab'[n] = tab[n] \/ tab'[n] = s BY <1>0, <1>2
    <3> QED BY <1>0, <1>2, <3>1 DEF Sane
  <2>4. ~Ripe(tab'[n]) BY <1>2 DEF Ripe
  <2>5. {n} \in SUBSET Names OBVIOUS
  <2> QED BY <1>2, <2>1, <2>2, <2>3, <2>4, <2>5, Changed
<1>3. CASE PubDef(n)
  <2> DEFINE o == tab[n]
             s == IF o.placed THEN [o EXCEPT !.defined = TRUE]
                  ELSE [o EXCEPT !.type = "regular", !.alias = Nil, !.conds = {},
                                 !.defined = TRUE, !.placed = TRUE, !.marked = FALSE]
             a == AddSym(syms, n)
  <2>1. syms' = DefineSymbol(syms, n) /\ Read(mod.exts, mod.pubs \cup {n}) /\ UNCHANGED <<virtual, strong>>
    BY <1>3 DEF PubDef, Record
  <2>2. a \in Table /\ a.tab = syms.tab /\ Known(a) = Known(syms) \cup {n}
    BY KeepsAddSym, KnownAddSym DEF Keeps, Good
  <2>3. syms' = Update(a, n, s) BY <2>1 DEF DefineSymbol, tab
  <2>4. SymOK(o) BY DEF Good, tab
  <2>5. s.defined /\ s.type = "regular" BY <1>0, <2>4 DEF Symbol, SymOK
  <2> HIDE DEF a, s
  <2>6. tab' = [tab EXCEPT ![n] = s] /\ Known(syms') = Known(a)
    BY <2>2, <2>3 DEF Update, Table, Known, tab
  <2>7. tab'[n].defined BY <1>0, <2>5, <2>6
  <2>8. \A m \in Names : Open(m) => Open(m)' BY <2>1, OpenSame
  <2>9. s.type \notin {"alias"} \cup VFRefs BY <2>5 DEF VFRefs
  <2> QED BY <1>2, <2>1, <2>2, <2>5, <2>6, <2>7, <2>8, <2>9
<1>4. CASE ComDef(n)
  <2> DEFINE s == [tab[n] EXCEPT !.type = "communal", !.conds = {}, !.defined = TRUE]
  <2>1. /\ mod.open /\ syms' = MakeCommunalSym(new, n) /\ UNCHANGED <<virtual, strong>>
        /\ Read(Append(mod.exts, [entry |-> n, isweak |-> FALSE]), mod.pubs)
    BY <1>0, <1>4 DEF ComDef, Record, new
  <2>2. \A m \in Names : Open(m) => Open(m)' BY <2>1, OpenAppend
  <2>3. s.defined /\ s.type = "communal" BY <1>0 DEF Symbol
  <2>4. \/ syms' = new /\ tab[n].defined
        \/ syms' = Update(new, n, s)
    BY <1>0, <2>1 DEF MakeCommunalSym, tab
  <2> HIDE DEF s
  <2>5. /\ tab' = tab \/ tab' = [tab EXCEPT ![n] = s] 
        /\ Known(syms') = Known(new) /\ tab'[n].defined
    BY <1>0, <2>3, <2>4 DEF Update, Known, tab
  <2>6. s.type \notin {"alias"} \cup VFRefs BY <2>3 DEF VFRefs
  <2> QED BY <1>0, <1>2, <2>1, <2>2, <2>3, <2>5, <2>6
<1>5. CASE ImpDef(n)
  <2> DEFINE s == [tab[n] EXCEPT !.type = "imported", !.conds = {}, !.defined = TRUE]
  <2>1. syms' = HandleImport(new, n) /\ Read(mod.exts, mod.pubs) /\ UNCHANGED <<virtual, strong>>
    BY <1>0, <1>5 DEF ImpDef, Record, new
  <2>2. \A m \in Names : Open(m) => Open(m)' BY <2>1, OpenSame
  <2>3. s.defined /\ s.type = "imported" BY <1>0 DEF Symbol
  <2>4. \/ syms' = new /\ tab[n].defined
        \/ syms' = Update(new, n, s)
    BY <1>0, <2>1 DEF HandleImport, tab
  <2> HIDE DEF s
  <2>5. /\ tab' = tab \/ tab' = [tab EXCEPT ![n] = s]
        /\ Known(syms') = Known(new) /\ tab'[n].defined
    BY <1>0, <2>3, <2>4 DEF Update, Known, tab
  <2>6. s.type \notin {"alias"} \cup VFRefs BY <2>3 DEF VFRefs
  <2> QED BY <1>0, <1>2, <2>1, <2>2, <2>3, <2>5, <2>6
<1> QED BY <1>1, <1>3, <1>4, <1>5

(* A reference that becomes weak or lazy is not ripe, and one that may not   *)
(* become it is defined, has a default, or was asked for by an earlier module. *)
LEMMA LazyAsking ==
  ASSUME Good(syms), ModOK, Typed, Asking, NEW i \in DOMAIN mod.exts, NEW j \in DOMAIN mod.exts,
         NEW kind, LazyExtdef(kind, i, j)
  PROVE  Asking'
<1>0. PICK n \in Names : n = mod.exts[i].entry BY EntryKnown
<1> DEFINE s == [tab[n] EXCEPT !.type = IF kind = "weak" THEN "weak" ELSE "lazy", !.def = mod.exts[j].entry]
<1>1. /\ mod.open /\ UNCHANGED <<virtual, strong>> /\ Read(Weakened(i), mod.pubs)
      /\ syms' = DefineLazyExtdef(syms, n, mod.exts[j].entry, kind = "weak")
  BY <1>0 DEF LazyExtdef, Record
<1>2. n \in Names /\ DOMAIN tab = Names /\ syms = [order |-> syms.order, tab |-> tab]
  BY DEF Good, Table, tab
<1>3. tab[n] \in Symbol /\ Sane(n, tab[n], virtual) BY <1>2 DEF Good, SymOK, Asking, tab
<1>4. s.type \in {"weak", "lazy"} /\ s.defined = tab[n].defined /\ s.marked = tab[n].marked BY <1>3 DEF Symbol
<1>5. \/ syms' = syms /\ (HasPlace(tab[n]) \/ tab[n].type \in Refs \ {"linkweak"} \/ tab[n].old)
      \/ syms' = Update(syms, n, s)
  BY <1>1 DEF DefineLazyExtdef, tab
<1>6. \A m \in Names \ {n} : Open(m) => Open(m)' BY <1>0, <1>1, OpenWeakened
<1> HIDE DEF s
<1>7. /\ Known(syms') = Known(syms) /\ \A m \in Names \ {n} : tab'[m] = tab[m]
      /\ tab'[n] = s \/ (tab'[n] = tab[n] /\ (HasPlace(tab[n]) \/ tab[n].type \in Refs \ {"linkweak"} \/ tab[n].old))
  BY <1>2, <1>5 DEF Update, Known, tab
<1>8. Grown BY <1>1, <1>4, <1>7 DEF Grown, Used
<1>9. Sane(n, tab'[n], virtual') BY <1>1, <1>3, <1>4, <1>7 DEF Sane, VFRefs
<1>10. Ripe(tab'[n]) => Asked(n)'
  <2> SUFFICES ASSUME Ripe(tab'[n]) PROVE Asked(n)' OBVIOUS
  <2>1. tab'[n] = tab[n] /\ Ripe(tab[n]) BY <1>4, <1>7 DEF Ripe
  <2>2. tab[n].old
    <3>1. ~HasPlace(tab[n]) /\ tab[n].type \notin Refs
      BY <2>1 DEF Ripe, HasPlace, Refs, WeakRefs, VFRefs
    <3>2. tab[n] # s BY <1>4, <2>1 DEF Ripe
    <3> QED BY <1>7, <2>1, <3>1, <3>2
  <2> QED BY <1>2, <1>8, <2>1, <2>2, StillAsked
<1>11. {n} \in SUBSET Names BY <1>2
<1> QED BY <1>6, <1>7, <1>8, <1>9, <1>10, <1>11, Changed DEF Reason

LEMMA VFReferenceAsking ==
  ASSUME Good(syms), ModOK, Typed, Asking, NEW i \in DOMAIN mod.exts, VFReference(i)
  PROVE  Asking'
<1>0. PICK n \in Names : n = mod.exts[i].entry BY EntryKnown
<1> DEFINE s == [tab[n] EXCEPT !.marked = TRUE]
<1>1. UNCHANGED <<virtual, strong>> /\ Read(mod.exts, mod.pubs) /\ syms' = MarkVF(syms, n)
  BY <1>0 DEF VFReference, Record
<1>2. n \in Names /\ DOMAIN tab = Names /\ syms = [order |-> syms.order, tab |-> tab]
  BY DEF Good, Table, tab
<1>3. tab[n] \in Symbol /\ Sane(n, tab[n], virtual) BY <1>2 DEF Good, SymOK, Asking, tab
<1>4. s.type = tab[n].type /\ s.defined = tab[n].defined /\ s.marked /\ s.conds = tab[n].conds
      /\ s.old = tab[n].old
  BY <1>3 DEF Symbol
<1>5. syms' = syms \/ syms' = Update(syms, n, s) BY <1>1 DEF MarkVF, tab
<1>6. \A m \in Names : Open(m) => Open(m)' BY <1>1, OpenSame
<1>7. n \in Known(syms) BY <1>0 DEF ModOK
<1> HIDE DEF s
<1>8. /\ Known(syms') = Known(syms) /\ \A m \in Names \ {n} : tab'[m] = tab[m]
      /\ tab'[n] = s \/ tab'[n] = tab[n]
  BY <1>2, <1>5 DEF Update, Known, tab
<1>9. Grown BY <1>1, <1>4, <1>8 DEF Grown, Used
<1>10. Sane(n, tab'[n], virtual') BY <1>1, <1>3, <1>4, <1>8 DEF Sane
<1>11. Ripe(tab'[n]) => Reason(n)'
  <2> SUFFICES ASSUME Ripe(tab'[n]) PROVE Reason(n)' OBVIOUS
  <2>1. Ripe(tab[n]) /\ tab'[n].old = tab[n].old BY <1>4, <1>8 DEF Ripe
  <2>2. Reason(n) BY <1>7, <2>1 DEF Asking
  <2>3. Asked(n) => Asked(n)' BY <1>2, <1>9, AskedStays DEF Grown
  <2> QED BY <1>2, <1>6, <2>1, <2>2, <2>3 DEF Reason
<1>12. {n} \in SUBSET Names BY <1>2
<1> QED BY <1>6, <1>8, <1>9, <1>10, <1>11, <1>12, Changed

(* The conditional symbol of a virtual function, made if nobody knows it *)
LEMMA VFMade ==
  ASSUME Good(syms), NEW c \in Names, NEW def, NEW new, new = GetVFList(syms, c, def)
  PROVE  /\ new = [order |-> new.order, tab |-> new.tab] /\ DOMAIN new.tab = Names
         /\ Known(new) \subseteq Known(syms) \cup ({c} \ Known(syms))
         /\ \A m \in Names : m \notin {c} \ Known(syms) => new.tab[m] = tab[m]
         /\ c \notin Known(syms) => new.tab[c].type = "linkweak"
         /\ \A m \in Names : new.tab[m].defined = tab[m].defined /\ new.tab[m].marked = tab[m].marked
<1>0. syms \in Table /\ tab = syms.tab BY DEF Good, tab
<1>1. CASE c \in Known(syms)
  <2>1. new = syms BY <1>1 DEF GetVFList
  <2> QED BY <1>0, <1>1, <2>1 DEF Table
<1>2. CASE c \notin Known(syms)
  <2> DEFINE a == AddSym(syms, c)
             s == [tab[c] EXCEPT !.type = "linkweak", !.def = def]
  <2>1. Good(a) /\ a \in Table /\ a.tab = syms.tab /\ Known(a) = Known(syms) \cup {c}
    BY KeepsAddSym, KnownAddSym DEF Keeps, Good
  <2>2. new = Update(a, c, s) BY <1>0, <1>2 DEF GetVFList, MakeWeakExtdef
  <2>3. tab[c] \in Symbol BY DEF Good, SymOK, tab
  <2>4. s.type = "linkweak" /\ s.defined = tab[c].defined /\ s.marked = tab[c].marked BY <2>3 DEF Symbol
  <2> HIDE DEF a, s
  <2>5. new.tab = [tab EXCEPT ![c] = s] /\ new.order = a.order /\ new = [order |-> new.order, tab |-> new.tab]
    BY <1>0, <2>1, <2>2 DEF Update, Table
  <2>6. DOMAIN tab = Names BY <1>0 DEF Table
  <2>7. new.tab[c] = s /\ \A m \in Names \ {c} : new.tab[m] = tab[m] BY <2>5, <2>6
  <2>8. Known(new) = Known(a) BY <2>5 DEF Known
  <2> QED BY <1>2, <2>1, <2>4, <2>5, <2>6, <2>7, <2>8
<1> QED BY <1>1, <1>2

(* A virtual function whose table is wanted is called. *)
LEMMA ConditionalCalled ==
  ASSUME Good(syms), Asking, NEW n \in Names, tab[n].type \in VFRefs,
         tab[n].marked \/ \E c \in tab[n].conds : Used(c)
  PROVE  Called(n)
<1>1. tab[n].conds # {} /\ \A c \in tab[n].conds : <<n, c>> \in virtual
  BY DEF Good, SymOK, Asking, Sane, tab
<1>2. PICK c \in tab[n].conds : tab[n].marked \/ Used(c) BY <1>1
<1>3. <<n, c>> \in virtual /\ <<n, c>>[1] = n /\ <<n, c>>[2] = c BY <1>1
<1> QED BY <1>2, <1>3 DEF Called, Used

LEMMA VFTableAsking ==
  ASSUME Good(syms), ModOK, Typed, Asking, NEW i \in DOMAIN mod.exts, NEW j \in DOMAIN mod.exts,
         NEW c \in Names, NEW kind, VFTable(kind, i, j, c)
  PROVE  Asking'
<1>0. PICK n \in Names : n = mod.exts[i].entry BY EntryKnown
<1>1. PICK def : def = mod.exts[j].entry OBVIOUS
<1> DEFINE new == GetVFList(syms, c, def)
           C == {n} \cup ({c} \ Known(syms))
           o == tab[n]
           v == [new.tab[n] EXCEPT !.type = IF kind = "pure" THEN "pure" ELSE "vf", !.def = def, !.conds = {c}]
           w == ConvertVFSym(new.tab[n])
<1>2. UnaliasSym(tab, c) = c /\ n \in Known(syms)
  BY <1>0, MadeBySymOp DEF ModOK
<1>3. /\ mod.open /\ UNCHANGED strong /\ virtual' = virtual \cup {<<n, c>>} /\ Read(Weakened(i), mod.pubs)
      /\ syms' = DefineVFTableRecord(syms, n, def, c, kind = "pure")
  BY <1>0, <1>1, <1>2 DEF VFTable, Record
<1>4. /\ new = [order |-> new.order, tab |-> new.tab] /\ DOMAIN new.tab = Names
      /\ Known(new) \subseteq Known(syms) \cup C
      /\ \A m \in Names : m \notin {c} \ Known(syms) => new.tab[m] = tab[m]
      /\ c \notin Known(syms) => new.tab[c].type = "linkweak"
      /\ \A m \in Names : new.tab[m].defined = tab[m].defined /\ new.tab[m].marked = tab[m].marked
  BY VFMade
<1>5. c \notin Known(syms) => c # n BY <1>2
<1>6. /\ o \in Symbol /\ Sane(n, o, virtual) /\ new.tab[n] = o
  BY <1>2, <1>4 DEF Good, SymOK, Asking, tab
<1>7. \/ syms' = syms /\ (HasPlace(o) \/ (o.type \notin Refs /\ o.old))
      \/ syms' = new /\ o.type \in VFRefs
      \/ syms' = CheckVFList(new, n) /\ o.type \in VFRefs
      \/ syms' = Update(new, n, v)
      \/ syms' = new /\ c \in Known(syms) /\ tab[c].defined
  BY <1>3 DEF DefineVFTableRecord, Generated, tab
<1>8. /\ v.type \in VFRefs /\ v.conds = {c} /\ v.defined = o.defined /\ v.marked = o.marked
      /\ w.type \in {"lazy", "regular"} /\ w.defined = o.defined /\ w.marked = o.marked
  BY <1>6 DEF Symbol, ConvertVFSym, VFRefs
<1>9. CheckVFList(new, n) = new \/ (Conditional(new, n) /\ CheckVFList(new, n) = Update(new, n, w))
  BY DEF CheckVFList
<1>10. Conditional(new, n) /\ o.type \in VFRefs => Called(n)
  <2> SUFFICES ASSUME Conditional(new, n), o.type \in VFRefs PROVE Called(n) OBVIOUS
  <2>1. o.conds \in SUBSET Names BY <1>6 DEF Symbol
  <2>2. o.marked \/ \E d \in o.conds : tab[d].defined \/ tab[d].marked
    BY <1>4, <1>6, <2>1 DEF Conditional
  <2> QED BY <2>2, ConditionalCalled DEF Used
<1>11. /\ DOMAIN tab = Names /\ syms = [order |-> syms.order, tab |-> tab]
  BY DEF Good, Table, tab
<1> HIDE DEF new, v, w
<1>12. \A m \in Names \ C : tab'[m] = tab[m] /\ (Open(m) => Open(m)')
  <2>1. \A m \in Names \ C : Open(m) => Open(m)' BY <1>0, <1>3, OpenWeakened
  <2>2. \A m \in Names \ {n} : tab'[m] = new.tab[m] \/ tab' = tab
    BY <1>4, <1>7, <1>9 DEF Update, tab
  <2> QED BY <1>4, <2>1, <2>2
<1>13. Known(syms') \subseteq Known(syms) \cup C
  <2>1. syms'.order = syms.order \/ syms'.order = new.order
    BY <1>4, <1>7, <1>9 DEF Update
  <2>2. Known(syms') = Known(syms) \/ Known(syms') = Known(new) BY <2>1 DEF Known
  <2> QED BY <1>4, <2>2
<1>14. \/ tab'[n] = o /\ (HasPlace(o) \/ (o.type \notin Refs /\ o.old) \/ o.type \in VFRefs \/ Used(c))
       \/ tab'[n] = w /\ Called(n)
       \/ tab'[n] = v
  BY <1>4, <1>6, <1>7, <1>9, <1>10 DEF Update, tab, Used
<1>15. c \notin Known(syms) => tab'[c] = new.tab[c] \/ syms' = syms
  BY <1>4, <1>5, <1>7, <1>9 DEF Update, tab
<1>16. Grown
  <2>1. ASSUME NEW m \in Names PROVE Used(m) => Used(m)'
    <3>1. CASE m = n BY <1>6, <1>8, <1>14, <3>1 DEF Used
    <3>2. CASE m # n
      <4>1. tab'[m] = tab[m] \/ tab'[m] = new.tab[m] BY <1>12, <1>15, <3>2 DEF tab
      <4> QED BY <1>4, <4>1 DEF Used
    <3> QED BY <3>1, <3>2
  <2> QED BY <1>3, <2>1 DEF Grown
<1>17. Sane(n, tab'[n], virtual') /\ (Ripe(tab'[n]) => Reason(n)')
  <2>1. Sane(n, tab'[n], virtual')
    <3>1. CASE tab'[n] = o BY <1>3, <1>6, <3>1 DEF Sane
    <3>2. CASE tab'[n] = w BY <1>8, <3>2 DEF Sane, VFRefs
    <3>3. CASE tab'[n] = v BY <1>3, <1>8, <3>3 DEF Sane, VFRefs
    <3> QED BY <1>14, <3>1, <3>2, <3>3
  <2> SUFFICES ASSUME Ripe(tab'[n]) PROVE Asked(n)' BY <2>1 DEF Reason
  <2>2. CASE tab'[n] = v BY <1>8, <2>2 DEF Ripe, VFRefs
  <2>3. CASE tab'[n] = w /\ Called(n)
    <3>1. Asked(n) BY <2>3 DEF Asked
    <3> QED BY <1>16, <3>1, AskedStays DEF Grown
  <2>4. CASE tab'[n] = o
    <3>1. Ripe(o) /\ ~HasPlace(o) /\ o.type \notin VFRefs BY <2>4 DEF Ripe, HasPlace, VFRefs
    <3>2. CASE o.old BY <1>16, <3>1, <3>2, StillAsked
    <3>3. CASE Used(c)
      <4>1. Used(c)' BY <1>16, <3>3 DEF Grown
      <4>2. <<n, c>> \in virtual' /\ <<n, c>>[1] = n /\ <<n, c>>[2] = c BY <1>3
      <4> QED BY <4>1, <4>2 DEF Asked, Called
    <3>4. tab'[n] # v BY <1>8, <2>4, <3>1
    <3>5. o.old \/ Used(c) \/ Called(n) BY <1>14, <3>1, <3>4
    <3>6. Called(n) => Asked(n)' BY <1>16, AskedStays DEF Grown, Asked
    <3> QED BY <3>2, <3>3, <3>5, <3>6
  <2> QED BY <1>14, <2>2, <2>3, <2>4
<1>18. ASSUME c \notin Known(syms)
       PROVE  Sane(c, tab'[c], virtual') /\ (c \in Known(syms') /\ Ripe(tab'[c]) => Reason(c)')
  <2>1. CASE tab'[c] = new.tab[c] BY <1>4, <1>18, <2>1 DEF Sane, Ripe, VFRefs
  <2>2. CASE syms' = syms
    <3>1. c \notin Known(syms') BY <1>18, <2>2 DEF Known
    <3>2. Sane(c, tab'[c], virtual') BY <1>3, <2>2 DEF Asking, Sane, tab
    <3> QED BY <3>1, <3>2
  <2> QED BY <1>15, <1>18, <2>1, <2>2
<1> PICK D \in SUBSET Names : D = C OBVIOUS
<1> QED
  <2>1. \A m \in D : /\ Sane(m, tab'[m], virtual')
                     /\ m \in Known(syms') /\ Ripe(tab'[m]) => Reason(m)'
    BY <1>17, <1>18
  <2> HIDE DEF C
  <2> QED BY <1>12, <1>13, <1>16, <2>1, Changed

LEMMA EndModuleAsking ==
  ASSUME Inv, Asking, EndModule, Keeps(syms, syms') PROVE Asking'
<1>0. Good(syms) /\ ModOK /\ Typed BY DEF Inv
<1>1. /\ strong' = strong \cup Plain /\ virtual' = virtual /\ syms'.order = syms.order
  BY <1>0, EndModuleKeeps DEF EndModule
<1>2. Grown
  <2>1. \A m \in Names : Used(m) => Used(m)' BY <1>0, EndModuleTab DEF Used
  <2> QED BY <1>1, <2>1 DEF Grown
<1>3. ASSUME NEW m \in Names PROVE Sane(m, tab'[m], virtual')
  <2>1. Sane(m, tab[m], virtual) BY DEF Asking
  <2>2. /\ tab'[m].defined = tab[m].defined /\ tab'[m].conds \subseteq tab[m].conds
        /\ tab'[m].type = "regular" \/ tab'[m].type = tab[m].type
    BY <1>0, EndModuleTab
  <2> QED BY <1>1, <2>1, <2>2 DEF Sane, VFRefs
<1>4. ASSUME NEW m \in Names, m \in Known(syms'), Ripe(tab'[m]) PROVE Reason(m)'
  <2>1. m \in Known(syms) BY <1>1, <1>4 DEF Known
  <2>2. CASE m \in Plain BY <1>1, <2>2 DEF Reason, Asked
  <2>3. CASE m \notin Plain
    <3>1. m \notin Lost BY <2>3 DEF Lost
    <3>2. Ripe(tab[m]) BY <1>0, <1>4, <3>1, EndModuleTab DEF Ripe
    <3>3. ~Open(m) BY <1>0, <2>3 DEF Open, Plain, ModOK
    <3>4. Asked(m) BY <2>1, <3>2, <3>3 DEF Asking, Reason
    <3>5. Asked(m)' BY <1>0, <1>2, <3>4, AskedStays DEF Grown
    <3> QED BY <3>5 DEF Reason
  <2> QED BY <2>2, <2>3
<1>5. Known(syms') \subseteq Known(syms) \cup Names BY <1>1 DEF Known
<1> QED BY <1>0, <1>2, <1>3, <1>4, <1>5, Changed

(* A sweep begins with the virtual functions that are called by then. *)
LEMMA ResolveAsking ==
  ASSUME Good(syms), Typed, Asking, syms' = ResolveVFExtdefs(syms), UNCHANGED <<mod, strong, virtual>>
  PROVE  Asking'
<1> PICK C \in SUBSET Names : C = Conditionals(syms) BY KnownNames DEF Conditionals
<1>1. /\ DOMAIN tab = Names /\ syms = [order |-> syms.order, tab |-> tab] BY DEF Good, Table, tab
<1>2. /\ syms'.order = syms.order
      /\ \A m \in Names : tab'[m] = IF m \in C THEN ConvertVFSym(tab[m]) ELSE tab[m]
  BY <1>1 DEF ResolveVFExtdefs, tab
<1>3. ASSUME NEW m \in C
      PROVE  /\ tab'[m].type \in {"lazy", "regular"}
             /\ tab'[m].defined = tab[m].defined /\ tab'[m].marked = tab[m].marked
  <2>1. tab[m] \in Symbol BY DEF Good, SymOK, tab
  <2>2. tab'[m] = ConvertVFSym(tab[m]) BY <1>2
  <2> QED BY <2>1, <2>2 DEF ConvertVFSym, Symbol
<1>4. Grown
  <2>1. ASSUME NEW m \in Names PROVE Used(m) => Used(m)' BY <1>2, <1>3 DEF Used
  <2> QED BY <2>1 DEF Grown
<1>5. ASSUME NEW m \in C PROVE Sane(m, tab'[m], virtual') /\ Reason(m)'
  <2>1. tab[m].type \in VFRefs /\ (tab[m].marked \/ \E c \in tab[m].conds : Used(c))
    BY DEF Conditionals, Conditional, Used, tab
  <2>2. Asked(m) BY <2>1, ConditionalCalled DEF Asked
  <2>3. Asked(m)' BY <1>4, <2>2, AskedStays DEF Grown
  <2> QED BY <1>3, <2>3 DEF Sane, VFRefs, Reason
<1>6. Known(syms') = Known(syms) BY <1>2 DEF Known
<1>7. \A m \in Names \ C : tab'[m] = tab[m] /\ (Open(m) => Open(m)') BY <1>2 DEF Open
<1> QED BY <1>4, <1>5, <1>6, <1>7, Changed

(* Steps that only mark symbols as CHECKED, or change none *)
LEMMA SameAsking ==
  ASSUME Good(syms), Typed, Asking, UNCHANGED <<strong, virtual>>, Known(syms') = Known(syms),
         \A m \in Names : /\ tab'[m].type = tab[m].type /\ tab'[m].defined = tab[m].defined
                          /\ tab'[m].marked = tab[m].marked /\ tab'[m].conds = tab[m].conds
                          /\ tab'[m].old = tab[m].old,
         mod' = mod \/ ~mod.open
  PROVE  Asking'
<1>1. Grown BY DEF Grown, Used
<1>2. ASSUME NEW m \in Names PROVE Open(m) => Open(m)'
  <2>1. CASE mod' = mod BY <2>1 DEF Open
  <2>2. CASE ~mod.open BY <2>2 DEF Open
  <2> QED BY <2>1, <2>2
<1>3. ASSUME NEW m \in Names PROVE Sane(m, tab'[m], virtual')
  <2>1. Sane(m, tab[m], virtual) BY DEF Asking
  <2> QED BY <2>1 DEF Sane
<1>4. ASSUME NEW m \in Names, m \in Known(syms'), Ripe(tab'[m]) PROVE Reason(m)'
  <2>1. Reason(m) BY <1>4 DEF Asking, Ripe
  <2>2. Asked(m) => Asked(m)' BY <1>1, AskedStays DEF Grown
  <2> QED BY <1>2, <2>1, <2>2 DEF Reason
<1> QED BY <1>1, <1>3, <1>4, Changed

LEMMA StepAsking ==
  ASSUME Aliases = {}, Inv, Asking, Next, phase' # "linked"
  PROVE  Asking'
<1>0. Good(syms) /\ ModOK /\ Typed BY DEF Inv
<1>1. Keeps(syms, syms') BY <1>0, StepFine DEF Fine
<1>2. ASSUME NEW n \in Names, Reference(n) PROVE Asking'
  <2>1. /\ syms' = SymOp(syms, n) /\ strong' = strong \cup {UnaliasSym(tab, n)}
        /\ virtual' = virtual /\ mod' = mod
    BY <1>2 DEF Reference, Directive
  <2>2. /\ UnaliasSym(tab, n) = n /\ SymOp(syms, n).tab = syms.tab /\ Known(SymOp(syms, n)) = Known(syms) \cup {n}
    BY <1>0, MadeBySymOp
  <2>3. tab' = tab /\ Known(syms') \subseteq Known(syms) \cup {n} BY <2>1, <2>2 DEF tab
  <2>4. Asked(n)' BY <2>1, <2>2 DEF Asked
  <2>5. \A m \in Names : Open(m) => Open(m)' BY <2>1 DEF Open
  <2>6. {n} \in SUBSET Names OBVIOUS
  <2> QED BY <1>0, <2>1, <2>3, <2>4, <2>5, <2>6, OnlyMade
<1>3. CASE mod.open /\ ReadRecord
  <2>1. \A p \in Aliases : FALSE OBVIOUS
  <2>2. ASSUME NEW l \in Libs, DefaultLib(l) PROVE Asking'
    <3>1. UNCHANGED <<syms, virtual, strong>> /\ Read(mod.exts, mod.pubs) BY <2>2 DEF DefaultLib, Record
    <3>2. \A m \in Names : Open(m) => Open(m)' BY <1>0, <3>1, OpenSame
    <3>3. tab' = tab /\ Known(syms') = Known(syms) BY <3>1 DEF tab, Known
    <3>4. {} \in SUBSET Names /\ Known(syms') \subseteq Known(syms) \cup {} BY <3>3
    <3> QED BY <1>0, <3>1, <3>2, <3>3, <3>4, OnlyMade
  <2> QED BY <1>0, <1>3, <2>1, <2>2, SymbolRecordAsking, LazyAsking, VFTableAsking, VFReferenceAsking DEF ReadRecord
<1>4. CASE EndModule BY <1>1, <1>4, EndModuleAsking
<1>5. CASE EndObjects \/ EndSweep
  <2>1. /\ UNCHANGED <<mod, strong, virtual>>
        /\ syms' = syms \/ syms' = ResolveVFExtdefs(syms)
    BY <1>5 DEF EndObjects, EndSweep
  <2>2. CASE syms' = syms BY <1>0, <2>1, <2>2, SameAsking DEF tab
  <2> QED BY <1>0, <2>1, <2>2, ResolveAsking
<1>6. CASE PassSymbol
  <2>1. /\ syms' = Update(syms, syms.order[pos], [tab[syms.order[pos]] EXCEPT !.checked = TRUE])
        /\ UNCHANGED <<mod, strong, virtual>> /\ pos \in 1..Len(syms.order)
    BY <1>6 DEF PassSymbol, AtSymbol
  <2>2. PICK n \in Names : n = syms.order[pos] BY <1>0, <2>1 DEF Good, Table
  <2> DEFINE s == [tab[n] EXCEPT !.checked = TRUE]
  <2>3. /\ s.type = tab[n].type /\ s.defined = tab[n].defined /\ s.marked = tab[n].marked
        /\ s.conds = tab[n].conds /\ s.old = tab[n].old
    <3>1. tab[n] \in Symbol BY <1>0 DEF Good, SymOK, tab
    <3> QED BY <3>1 DEF Symbol
  <2>4. syms' = Update(syms, n, s) BY <2>1, <2>2
  <2> HIDE DEF s
  <2>5. tab' = [tab EXCEPT ![n] = s] /\ syms'.order = syms.order /\ DOMAIN tab = Names
    BY <1>0, <2>4 DEF Update, Good, Table, tab
  <2>6. Known(syms') = Known(syms) BY <2>5 DEF Known
  <2>7. \A m \in Names : /\ tab'[m].type = tab[m].type /\ tab'[m].defined = tab[m].defined
                         /\ tab'[m].marked = tab[m].marked /\ tab'[m].conds = tab[m].conds
                         /\ tab'[m].old = tab[m].old
    BY <2>3, <2>5
  <2> QED BY <1>0, <2>1, <2>6, <2>7, SameAsking
<1>7. CASE (\E l \in Libs : Library(l)) \/ EndDirectives \/ LoadObjFile \/ BeginSweep \/ LoadLibModule \/ Linked
  <2>1. UNCHANGED <<syms, strong, virtual>> /\ (mod' = mod \/ ~mod.open)
    BY <1>7 DEF Library, Directive, EndDirectives, LoadObjFile, BeginSweep, LoadLibModule, AtSymbol, Linked, vars
  <2> QED BY <1>0, <2>1, SameAsking DEF tab
<1>8. CASE Convert BY <1>8 DEF Convert
<1>9. ~(\E p \in Aliases : \E stale \in Replaced(p[1]) : AddAlias(p[1], p[2], stale)) OBVIOUS
<1> QED BY <1>2, <1>3, <1>4, <1>5, <1>6, <1>7, <1>8, <1>9 DEF Next

LEMMA StepReadOnce ==
  ASSUME Inv, ReadOnce, [Next]_vars PROVE ReadOnce'
<1>0. Good(syms) /\ ModOK /\ Typed /\ Control BY DEF Inv
<1>1. Keeps(syms, syms') BY <1>0, StepFine DEF Fine
<1>2. \A n \in Names : tab[n].defined => tab'[n].defined BY <1>0, <1>1, GrowsFacts
<1>3. \A p \in pulled : p[2] \in Names BY <1>0 DEF Typed
<1>4. CASE mod.open /\ ReadRecord
  <2>1. pulled' = pulled /\ mod'.open = mod.open /\ mod'.lib = mod.lib /\ mod'.for = mod.for
    <3>1. RecordStep BY <1>0, <1>4, ReadRecordStep
    <3> QED BY <3>1 DEF RecordStep
  <2> QED BY <1>2, <1>3, <2>1 DEF ReadOnce
<1>5. CASE EndModule
  <2>1. pulled' = pulled /\ mod.open /\ (mod.lib # Nil => mod.for \in mod.pubs) BY <1>5 DEF EndModule
  <2>2. ASSUME NEW p \in pulled PROVE tab'[p[2]].defined
    <3>1. CASE tab[p[2]].defined BY <1>2, <1>3, <3>1
    <3>2. CASE p = <<mod.lib, mod.for>>
      <4>1. mod.lib # Nil BY <1>0, <3>2, LibsAssumption DEF Typed
      <4>2. tab[mod.for].defined /\ p[2] = mod.for BY <1>0, <2>1, <3>2, <4>1 DEF Control
      <4> QED BY <1>2, <1>3, <4>2
    <3> QED BY <3>1, <3>2 DEF ReadOnce
  <2> QED BY <2>1, <2>2 DEF ReadOnce
<1>6. CASE LoadLibModule
  <2>1. /\ ~mod.open /\ syms' = syms /\ pulled' = pulled \cup {<<LibFind(syms.order[pos]), syms.order[pos]>>}
        /\ mod' = Module(LibFind(syms.order[pos]), syms.order[pos])
    BY <1>6 DEF LoadLibModule, AtSymbol
  <2>2. mod'.open /\ <<LibFind(syms.order[pos]), syms.order[pos]>> = <<mod'.lib, mod'.for>> BY <2>1 DEF Module
  <2>3. \A p \in pulled : tab'[p[2]].defined BY <1>2, <1>3, <2>1 DEF ReadOnce
  <2> QED BY <2>1, <2>2, <2>3 DEF ReadOnce
<1>7. CASE pulled' = pulled /\ (mod' = mod \/ ~mod.open)
  BY <1>2, <1>3, <1>7 DEF ReadOnce
<1>8. CASE \/ EndDirectives \/ LoadObjFile \/ BeginSweep \/ EndObjects \/ PassSymbol \/ EndSweep
           \/ Convert \/ Linked \/ UNCHANGED vars
  BY <1>7, <1>8 DEF EndDirectives, LoadObjFile, BeginSweep, EndObjects, PassSymbol, EndSweep, Convert, Linked, vars
<1>9. ASSUME NEW kind, Directive(kind) PROVE ReadOnce' BY <1>7, <1>9 DEF Directive
<1> QED BY <1>4, <1>5, <1>6, <1>8, <1>9 DEF Next, Reference, AddAlias, Library

(* The libraries are searched in order: what is not found in one because it *)
(* is OLD is not there.                                                      *)
LEMMA FirstFound ==
  ASSUME Inv, virtual = {}, phase = "sweep", NEW n \in Names, Wanted(n), Finds(n) # {},
         NEW i \in DOMAIN libs, NEW j \in DOMAIN libs, i < j, libs[j].lib = LibFind(n)
  PROVE  n \notin dict[libs[i].lib]
<1>0. Typed /\ Search BY DEF Inv
<1>1. libs \in Seq(Entry) /\ Sorted(libs) BY <1>0 DEF Typed
<1>2. PICK k : k = First(Finds(n), 0) OBVIOUS
<1>3. Finds(n) \in SUBSET Nat BY <1>1 DEF Finds
<1>4. k \in Finds(n) /\ (\A m \in Finds(n) : k <= m) BY <1>2, <1>3, FirstIn
<1>5. k \in DOMAIN libs /\ libs[k].lib = libs[j].lib BY <1>2, <1>4 DEF Finds, LibFind
<1>6. i \in Nat /\ j \in Nat /\ k \in Nat BY <1>1, <1>5
<1>7. k = j BY <1>1, <1>5, <1>6 DEF Sorted
<1>8. i \notin Finds(n) BY <1>4, <1>6, <1>7
<1> SUFFICES ASSUME n \in dict[libs[i].lib] PROVE FALSE OBVIOUS
<1>9. tab[n].checked /\ libs[i].lib \in oldLibs BY <1>8 DEF Finds
<1>10. Sought(tab[n]) BY <1>9 DEF Sought, Wanted
<1>11. ~In(dict, n, oldLibs) BY <1>0, <1>10 DEF Search
<1> QED BY <1>9, <1>11 DEF In

Justified ==
  Pulls => /\ Needed(mod'.for)
           /\ <<mod'.lib, mod'.for>> \notin pulled
           /\ virtual = {} =>
                \A i, j \in DOMAIN libs :
                  i < j /\ libs[j].lib = mod'.lib => mod'.for \notin dict[libs[i].lib]

LEMMA StepJustified ==
  ASSUME Inv, phase # "linked" => Asking, ReadOnce, [Next]_vars PROVE Justified
<1>0. Good(syms) /\ ModOK /\ Typed /\ Control BY DEF Inv
<1> SUFFICES ASSUME Pulls PROVE Justified BY DEF Justified
<1>1. ~mod.open /\ mod'.open /\ mod'.lib # Nil BY DEF Pulls
<1>2. LoadLibModule
  <2>1. mod' # mod BY <1>1
  <2>2. ~LoadObjFile BY <1>1 DEF LoadObjFile, Module
  <2>3. ~EndModule BY <1>1 DEF EndModule
  <2>4. \A kind : ~Directive(kind) BY <2>1 DEF Directive
  <2>5. ~(EndDirectives \/ EndObjects \/ BeginSweep \/ PassSymbol \/ EndSweep \/ Convert \/ Linked \/ UNCHANGED vars)
    BY <2>1 DEF EndDirectives, EndObjects, BeginSweep, PassSymbol, EndSweep, Convert, Linked, vars
  <2> QED BY <1>1, <2>2, <2>3, <2>4, <2>5 DEF Next, Reference, AddAlias, Library
<1>3. /\ phase = "sweep" /\ pos \in 1..Len(syms.order) /\ Wanted(syms.order[pos]) /\ Finds(syms.order[pos]) # {}
      /\ mod' = Module(LibFind(syms.order[pos]), syms.order[pos])
  BY <1>2 DEF LoadLibModule, AtSymbol
<1>4. PICK n \in Names : n = syms.order[pos] BY <1>0, <1>3 DEF Good, Table
<1>5. mod'.for = n /\ mod'.lib = LibFind(n) /\ Wanted(n) /\ Finds(n) # {} BY <1>3, <1>4 DEF Module
<1>6. Needed(n)
  <2>1. n \in Known(syms) BY <1>3, <1>4 DEF Known
  <2>2. tab[n] \in Symbol /\ Sane(n, tab[n], virtual) BY <1>0, <1>3 DEF Good, SymOK, Asking, tab
  <2>3. CASE tab[n].type = "lazy" BY <2>3 DEF Needed
  <2>4. CASE tab[n].type = "regular"
    <3>1. Ripe(tab[n]) BY <1>5, <2>4 DEF Ripe, Wanted
    <3>2. Reason(n) BY <1>3, <2>1, <3>1 DEF Asking
    <3>3. Asked(n) BY <1>1, <3>2 DEF Reason, Open
    <3> QED BY <3>3 DEF Asked, Called, Needed
  <2>5. tab[n].type \in {"lazy", "regular"}
    BY <1>5, <2>2 DEF Symbol, Types, Refs, Sane, Wanted
  <2> QED BY <2>3, <2>4, <2>5
<1>7. <<mod'.lib, n>> \notin pulled
  <2>1. \A p \in pulled : tab[p[2]].defined BY <1>1 DEF ReadOnce
  <2>2. ~tab[n].defined /\ <<mod'.lib, n>>[2] = n BY <1>5 DEF Wanted
  <2> QED BY <2>1, <2>2
<1>8. ASSUME virtual = {}, NEW i \in DOMAIN libs, NEW j \in DOMAIN libs, i < j, libs[j].lib = mod'.lib
      PROVE  n \notin dict[libs[i].lib]
  BY <1>3, <1>5, <1>8, FirstFound
<1> QED BY <1>5, <1>6, <1>7, <1>8 DEF Justified

(* Without aliases no library module is read that nobody needs, none is read *)
(* twice, and the first library that has a symbol is the one it comes from:  *)
(* weak references pull nothing in, nor does a virtual function nobody calls, *)
(* whatever the order of modules and sweeps (ResolveUndefined, LibFind).      *)
THEOREM PulledForAReason ==
  ASSUME Aliases = {}
  PROVE  Spec => PullsWanted
<1> DEFINE All == Inv /\ (phase # "linked" => Asking) /\ ReadOnce
<1>1. Init => All
  <2> SUFFICES ASSUME Init PROVE All OBVIOUS
  <2>1. Inv /\ Len(syms.order) = 0 BY InitInv, InitFine
  <2>2. pulled = {} /\ syms = NoSymbols BY DEF Init
  <2>3. Known(syms) = {} BY <2>1 DEF Known
  <2>4. \A n \in Names : tab[n].type = "regular" BY <2>2 DEF NoSymbols, tab, Fresh
  <2>5. \A n \in Names : Sane(n, tab[n], virtual) BY <2>4 DEF Sane, VFRefs
  <2> QED BY <2>1, <2>2, <2>3, <2>5 DEF Asking, ReadOnce
<1>2. All /\ [Next]_vars => All' /\ Justified
  <2> SUFFICES ASSUME All, [Next]_vars PROVE All' /\ Justified OBVIOUS
  <2>1. Inv' /\ ReadOnce' /\ Justified BY StepInv, StepReadOnce, StepJustified
  <2>2. CASE UNCHANGED vars
    <3>1. syms' = syms /\ phase' = phase /\ mod' = mod /\ UNCHANGED <<strong, virtual>> BY <2>2 DEF vars
    <3>2. Good(syms) /\ Typed BY DEF Inv
    <3>3. phase # "linked" => Asking' BY <3>1, <3>2, SameAsking DEF tab
    <3> QED BY <2>1, <3>1, <3>3
  <2>3. CASE Next
    <3>1. ASSUME phase' # "linked" PROVE Asking'
      <4>1. phase # "linked"
        <5> SUFFICES ASSUME phase = "linked" PROVE FALSE OBVIOUS
        <5>1. ~mod.open BY DEF Inv, Control, ModOK
        <5> QED BY <2>3, <3>1, <5>1 DEF Next, Reference, AddAlias, Library, Directive, EndDirectives, LoadObjFile,
                 EndModule, EndObjects, BeginSweep, LoadLibModule, AtSymbol, PassSymbol, EndSweep, Convert, Linked, vars
      <4> QED BY <2>3, <3>1, <4>1, StepAsking
    <3> QED BY <2>1, <3>1
  <2> QED BY <2>2, <2>3
<1> HIDE DEF All
<1>3. Justified => (Pulls => /\ Needed(mod'.for)
                             /\ <<mod'.lib, mod'.for>> \notin pulled
                             /\ virtual = {} =>
                                  \A i, j \in DOMAIN libs :
                                    i < j /\ libs[j].lib = mod'.lib => mod'.for \notin dict[libs[i].lib])
  BY DEF Justified
<1> QED BY <1>1, <1>2, <1>3, PTL DEF Spec, PullsWanted
-----------------------------------------------------------------------------
(* Following aliases *)

LEMMA TrailSelf == ASSUME NEW t, NEW n \in Names PROVE n \in Trail(t, n)
BY DEF Trail

LEMMA TrailWithin ==
  ASSUME NEW t, NEW n \in Names, NEW S \in SUBSET Names, n \in S,
         \A a \in S : IsAlias(t[a]) => t[a].alias \in S
  PROVE  Trail(t, n) \subseteq S
BY DEF Trail

LEMMA TrailOn ==
  ASSUME NEW t, NEW n \in Names, NEW m \in Trail(t, n), IsAlias(t[m]), t[m].alias \in Names
  PROVE  t[m].alias \in Trail(t, n)
BY DEF Trail

(* Every alias leads down. *)
Falls(t, rank) ==
  \A n \in Names : IsAlias(t[n]) => t[n].alias \in Names /\ rank[t[n].alias] < rank[n]

LEMMA TrailFrom ==
  ASSUME NEW t, NEW rank \in [Names -> Nat], Falls(t, rank), NEW n \in Names, NEW m \in Trail(t, n)
  PROVE  m \in Names /\ Trail(t, m) \subseteq Trail(t, n) /\ rank[m] <= rank[n]
<1>1. m \in Names /\ Trail(t, n) \in SUBSET Names BY DEF Trail
<1>2. Trail(t, m) \subseteq Trail(t, n)
  <2>1. \A a \in Trail(t, n) : IsAlias(t[a]) => t[a].alias \in Trail(t, n)
    BY <1>1, TrailOn DEF Falls
  <2> QED BY <1>1, <2>1, TrailWithin
<1>3. rank[m] <= rank[n]
  <2> DEFINE S == {a \in Names : rank[a] <= rank[n]}
  <2>1. n \in S OBVIOUS
  <2>2. ASSUME NEW a \in S, IsAlias(t[a]) PROVE t[a].alias \in S
    <3>1. PICK b \in Names : b = t[a].alias /\ rank[b] < rank[a] BY <2>2 DEF Falls
    <3>2. rank[a] \in Nat /\ rank[b] \in Nat /\ rank[n] \in Nat OBVIOUS
    <3> QED BY <3>1, <3>2
  <2>3. Trail(t, n) \subseteq S BY <2>1, <2>2, TrailWithin
  <2> QED BY <2>3
<1> QED BY <1>1, <1>2, <1>3

LEMMA TrailOfStop ==
  ASSUME NEW t, NEW n \in Names, ~IsAlias(t[n]) PROVE Trail(t, n) = {n}
<1>1. Trail(t, n) \subseteq {n}
  <2>1. {n} \in SUBSET Names /\ \A a \in {n} : ~IsAlias(t[a]) OBVIOUS
  <2> QED BY <2>1, TrailWithin
<1> QED BY <1>1, TrailSelf

LEMMA TrailOfAlias ==
  ASSUME NEW t, NEW rank \in [Names -> Nat], Falls(t, rank), NEW n \in Names, IsAlias(t[n])
  PROVE  Trail(t, n) \subseteq {n} \cup Trail(t, t[n].alias)
<1>1. PICK a \in Names : a = t[n].alias BY DEF Falls
<1> DEFINE S == {n} \cup Trail(t, a)
<1>2. S \in SUBSET Names BY DEF Trail
<1>3. \A m \in S : IsAlias(t[m]) => t[m].alias \in S
  <2> TAKE m \in S
  <2> HAVE IsAlias(t[m])
  <2>1. CASE m = n BY <1>1, <2>1, TrailSelf
  <2>2. CASE m \in Trail(t, a) BY <1>2, <2>2, TrailOn DEF Falls
  <2> QED BY <2>1, <2>2
<1>4. n \in S OBVIOUS
<1> HIDE DEF S
<1>5. Trail(t, n) \subseteq S BY <1>2, <1>3, <1>4, TrailWithin
<1> QED BY <1>1, <1>5 DEF S

(* A stop is on the trail of all that is on the trail to it. *)
LEMMA StopOnTrail ==
  ASSUME NEW t, NEW rank \in [Names -> Nat], Falls(t, rank), NEW n \in Names,
         NEW x \in Stops(t, n), NEW m \in Trail(t, n)
  PROVE  x \in Trail(t, m)
<1> DEFINE S == {a \in Names : x \in Trail(t, a)}
<1>1. S \in SUBSET Names /\ n \in S BY DEF Stops
<1>2. \A a \in S : IsAlias(t[a]) => t[a].alias \in S
  <2> TAKE a \in S
  <2> HAVE IsAlias(t[a])
  <2>1. x \in {a} \cup Trail(t, t[a].alias) BY TrailOfAlias
  <2>2. x # a BY DEF Stops
  <2> QED BY <2>1, <2>2 DEF Falls
<1>3. Trail(t, n) \subseteq S BY <1>1, <1>2, TrailWithin
<1> QED BY <1>3

(* All that is on a trail is resolved to where it ends. *)
LEMMA Resolved ==
  ASSUME NEW t, NEW rank \in [Names -> Nat], Falls(t, rank), NEW n \in Names
  PROVE  /\ UnaliasSym(t, n) \in Names /\ UnaliasSym(t, n) \in Trail(t, n) /\ ~IsAlias(t[UnaliasSym(t, n)])
         /\ \A x \in Stops(t, n) : x = UnaliasSym(t, n)
         /\ \A m \in Trail(t, n) : UnaliasSym(t, m) = UnaliasSym(t, n)
<1>1. Trail(t, n) \subseteq Names /\ n \in Trail(t, n) BY TrailSelf DEF Trail
<1>2. PICK x : x \in Stops(t, n)
  <2> DEFINE R == {rank[m] : m \in Trail(t, n)}
  <2>1. R \in SUBSET Nat /\ R # {} BY <1>1
  <2>2. PICK r \in R : \A q \in R : r <= q BY <2>1, Least
  <2>3. PICK m \in Trail(t, n) : r = rank[m] BY <2>2
  <2>4. ~IsAlias(t[m])
    <3> SUFFICES ASSUME IsAlias(t[m]) PROVE FALSE OBVIOUS
    <3>1. PICK a \in Names : a = t[m].alias /\ rank[a] < rank[m] BY <1>1 DEF Falls
    <3>2. a \in Trail(t, n) BY <3>1, TrailOn
    <3>3. rank[a] \in R /\ rank[a] \in Nat /\ rank[m] \in Nat BY <3>2, <1>1
    <3> QED BY <2>2, <2>3, <3>1, <3>3
  <2> QED BY <2>4 DEF Stops
<1>3. \A y \in Stops(t, n) : y = x
  <2> TAKE y \in Stops(t, n)
  <2>1. y \in Trail(t, n) /\ y \in Names /\ ~IsAlias(t[y]) BY <1>1 DEF Stops
  <2>2. x \in Trail(t, y) BY <1>2, <2>1, StopOnTrail
  <2> QED BY <2>1, <2>2, TrailOfStop
<1>4. x \in Names /\ x \in Trail(t, n) /\ ~IsAlias(t[x]) BY <1>1, <1>2 DEF Stops
<1>5. UnaliasSym(t, n) = x BY <1>2, <1>3, <1>4 DEF UnaliasSym
<1>6. ASSUME NEW m \in Trail(t, n) PROVE UnaliasSym(t, m) = x
  <2>1. m \in Names /\ Trail(t, m) \subseteq Trail(t, n) BY TrailFrom
  <2>2. x \in Trail(t, m) BY <1>2, StopOnTrail
  <2>3. x \in Stops(t, m) /\ Stops(t, m) \subseteq Stops(t, n) BY <1>4, <2>1, <2>2 DEF Stops
  <2>4. \A y \in Names : y \in Stops(t, m) <=> y = x BY <1>3, <2>3
  <2> QED BY <1>4, <2>3, <2>4 DEF UnaliasSym
<1> QED BY <1>3, <1>4, <1>5, <1>6

(* Two tables that agree on a trail *)
Agree(t, u, S) == \A a \in S : (IsAlias(t[a]) <=> IsAlias(u[a])) /\ (IsAlias(t[a]) => t[a].alias = u[a].alias)

LEMMA SameTrail ==
  ASSUME NEW t, NEW u, NEW rank \in [Names -> Nat], Falls(t, rank), NEW n \in Names, Agree(t, u, Trail(t, n))
  PROVE  Trail(u, n) = Trail(t, n) /\ UnaliasSym(u, n) = UnaliasSym(t, n)
<1>1. Trail(t, n) \in SUBSET Names /\ Trail(u, n) \in SUBSET Names BY DEF Trail
<1>2. Trail(u, n) \subseteq Trail(t, n)
  <2>1. \A a \in Trail(t, n) : IsAlias(u[a]) => u[a].alias \in Trail(t, n)
    BY <1>1, TrailOn DEF Agree, Falls
  <2> QED BY <1>1, <2>1, TrailSelf, TrailWithin
<1>3. Trail(t, n) \subseteq Trail(u, n)
  <2>1. \A a \in Trail(u, n) : IsAlias(t[a]) => t[a].alias \in Trail(u, n)
    BY <1>1, <1>2, TrailOn DEF Agree, Falls
  <2> QED BY <1>1, <2>1, TrailSelf, TrailWithin
<1>4. Trail(u, n) = Trail(t, n) BY <1>2, <1>3
<1>5. Stops(u, n) = Stops(t, n) BY <1>4 DEF Stops, Agree
<1> QED BY <1>4, <1>5 DEF UnaliasSym

AgreeBut(t, u, n) == Agree(t, u, Names \ {n})

LEMMA Rerouted ==
  ASSUME NEW t, NEW u, NEW rank \in [Names -> Nat], Falls(t, rank), Falls(u, rank), NEW n \in Names,
         AgreeBut(t, u, n), NEW x \in Names
  PROVE  /\ n \in Trail(t, x) => UnaliasSym(u, x) = UnaliasSym(u, n)
         /\ n \notin Trail(t, x) => UnaliasSym(u, x) = UnaliasSym(t, x)
<1>1. Trail(t, x) \in SUBSET Names /\ Trail(u, x) \in SUBSET Names BY DEF Trail
<1>2. CASE n \notin Trail(t, x)
  <2>1. Agree(t, u, Trail(t, x)) BY <1>1, <1>2 DEF Agree, AgreeBut
  <2> QED BY <1>2, <2>1, SameTrail
<1>3. CASE n \in Trail(t, x)
  <2>1. n \in Trail(u, x)
    <3> SUFFICES ASSUME n \notin Trail(u, x) PROVE FALSE OBVIOUS
    <3>1. Agree(u, t, Trail(u, x)) BY <1>1 DEF Agree, AgreeBut
    <3>2. Trail(t, x) = Trail(u, x) BY <3>1, SameTrail
    <3> QED BY <1>3, <3>2
  <2> QED BY <1>3, <2>1, Resolved
<1> QED BY <1>2, <1>3

-----------------------------------------------------------------------------
(* What a step does to aliases and, with R one of the sets of references     *)
(* with a default, to those: nothing but MakeSymAlias makes an alias or       *)
(* changes what it holds, and one ends when it gets an address.              *)
Tame(s, t, R) ==
  /\ t.type = "alias" => s.type = "alias" /\ t.alias = s.alias
  /\ s.type = "alias" => t.type = "alias" \/ t.placed
  /\ t.type \in R => s.type \in R
AllTame(st, new, R) == \A n \in Names : Tame(st.tab[n], new.tab[n], R)
Making(R) == IF R = Refs THEN {"lazy", "weak", "vf", "pure"} ELSE {"weak", "vf", "pure"}

LEMMA TameItself == ASSUME NEW st, NEW new, NEW R, new.tab = st.tab PROVE AllTame(st, new, R)
BY DEF AllTame, Tame

LEMMA TameUpdate ==
  ASSUME NEW st, Good(st), NEW n \in Names, NEW s, NEW R, Tame(st.tab[n], s, R)
  PROVE  AllTame(st, Update(st, n, s), R)
<1>1. st \in Table BY DEF Good
<1>2. Update(st, n, s).tab = [st.tab EXCEPT ![n] = s] BY <1>1 DEF Update, Table
<1>3. \A m \in Names : Tame(st.tab[m], st.tab[m], R) BY DEF Tame
<1> QED BY <1>1, <1>2, <1>3 DEF AllTame, Table

LEMMA TameDefineSymbol ==
  ASSUME NEW st, Good(st), NEW n \in Names, NEW R, R = WeakRefs \/ R = Refs
  PROVE  AllTame(st, DefineSymbol(st, n), R)
<1> DEFINE mid == AddSym(st, n)
           o == st.tab[n]
           s == IF o.placed THEN [o EXCEPT !.defined = TRUE]
                ELSE [o EXCEPT !.type = "regular", !.alias = Nil, !.conds = {},
                               !.defined = TRUE, !.placed = TRUE, !.marked = FALSE]
<1>1. Good(mid) /\ mid.tab = st.tab BY KeepsAddSym DEF Keeps
<1>2. o \in Symbol BY DEF Good, SymOK
<1>3. Tame(o, s, R)
  <2>1. CASE o.placed
    <3>1. s = [o EXCEPT !.defined = TRUE] BY <2>1
    <3>2. s.type = o.type /\ s.alias = o.alias BY <1>2, <3>1 DEF Symbol
    <3> QED BY <3>2 DEF Tame
  <2>2. CASE ~o.placed
    <3>1. s = [o EXCEPT !.type = "regular", !.alias = Nil, !.conds = {},
                        !.defined = TRUE, !.placed = TRUE, !.marked = FALSE] BY <2>2
    <3>2. s.type = "regular" /\ s.placed BY <1>2, <3>1 DEF Symbol
    <3> QED BY <3>2 DEF Tame, Refs, WeakRefs, VFRefs
  <2> QED BY <2>1, <2>2
<1>4. DefineSymbol(st, n) = Update(mid, n, s) BY DEF DefineSymbol
<1> HIDE DEF mid, s
<1>5. AllTame(mid, Update(mid, n, s), R) BY <1>1, <1>3, TameUpdate
<1> QED BY <1>1, <1>4, <1>5 DEF AllTame

LEMMA TameMakeCommunalSym ==
  ASSUME NEW st, Good(st), NEW n \in Names, NEW R, R = WeakRefs \/ R = Refs
  PROVE  AllTame(st, MakeCommunalSym(st, n), R)
<1> DEFINE s == [st.tab[n] EXCEPT !.type = "communal", !.conds = {}, !.defined = TRUE]
<1>1. st.tab[n] \in Symbol /\ (st.tab[n].type = "alias" => st.tab[n].defined) BY DEF Good, SymOK
<1>2. s.type = "communal" BY <1>1 DEF Symbol
<1>3. \/ MakeCommunalSym(st, n) = st
      \/ MakeCommunalSym(st, n) = Update(st, n, s) /\ st.tab[n].type # "alias"
  BY <1>1 DEF MakeCommunalSym
<1> HIDE DEF s
<1>4. st.tab[n].type # "alias" => Tame(st.tab[n], s, R) BY <1>2 DEF Tame, Refs, WeakRefs, VFRefs
<1> QED BY <1>3, <1>4, TameUpdate, TameItself

LEMMA TameHandleImport ==
  ASSUME NEW st, Good(st), NEW n \in Names, NEW R, R = WeakRefs \/ R = Refs
  PROVE  AllTame(st, HandleImport(st, n), R)
<1> DEFINE s == [st.tab[n] EXCEPT !.type = "imported", !.conds = {}, !.defined = TRUE]
<1>1. st.tab[n] \in Symbol /\ (st.tab[n].type = "alias" => st.tab[n].defined) BY DEF Good, SymOK
<1>2. s.type = "imported" BY <1>1 DEF Symbol
<1>3. \/ HandleImport(st, n) = st
      \/ HandleImport(st, n) = Update(st, n, s) /\ st.tab[n].type # "alias"
  BY <1>1 DEF HandleImport
<1> HIDE DEF s
<1>4. st.tab[n].type # "alias" => Tame(st.tab[n], s, R) BY <1>2 DEF Tame, Refs, WeakRefs, VFRefs
<1> QED BY <1>3, <1>4, TameUpdate, TameItself

LEMMA TameDefineLazyExtdef ==
  ASSUME NEW st, Good(st), NEW n \in Names, NEW def
  PROVE  AllTame(st, DefineLazyExtdef(st, n, def, FALSE), WeakRefs)
<1> DEFINE s == [st.tab[n] EXCEPT !.type = IF FALSE THEN "weak" ELSE "lazy", !.def = def]
<1>1. st.tab[n] \in Symbol /\ (st.tab[n].type = "alias" => st.tab[n].defined) BY DEF Good, SymOK
<1>2. s.type = "lazy" BY <1>1 DEF Symbol
<1>3. \/ DefineLazyExtdef(st, n, def, FALSE) = st
      \/ DefineLazyExtdef(st, n, def, FALSE) = Update(st, n, s) /\ st.tab[n].type # "alias"
  BY <1>1 DEF DefineLazyExtdef, HasPlace
<1> HIDE DEF s
<1>4. st.tab[n].type # "alias" => Tame(st.tab[n], s, WeakRefs) BY <1>2 DEF Tame, WeakRefs, VFRefs
<1> QED BY <1>3, <1>4, TameUpdate, TameItself

LEMMA TameMarkVF ==
  ASSUME NEW st, Good(st), NEW n \in Names, NEW R PROVE AllTame(st, MarkVF(st, n), R)
<1> DEFINE s == [st.tab[n] EXCEPT !.marked = TRUE]
<1>1. st.tab[n] \in Symbol BY DEF Good, SymOK
<1>2. s.type = st.tab[n].type /\ s.alias = st.tab[n].alias BY <1>1 DEF Symbol
<1>3. MarkVF(st, n) = st \/ MarkVF(st, n) = Update(st, n, s) BY DEF MarkVF
<1> HIDE DEF s
<1>4. Tame(st.tab[n], s, R) BY <1>2 DEF Tame
<1> QED BY <1>3, <1>4, TameUpdate, TameItself

(* The other kind of step *)
AliasStep ==
  \E p \in Aliases, stale \in Names \cup {Nil} :
    /\ p[1] # p[2] /\ (phase = "directives" \/ ~tab[p[1]].defined)
    /\ UNCHANGED virtual
    /\ syms' = MakeSymAlias(syms, p[1], p[2], stale)

LEMMA AliasOrSame ==
  ASSUME NEW p \in Aliases, NEW stale \in Names \cup {Nil}, NEW R, UNCHANGED virtual,
         phase = "directives" \/ ~tab[p[1]].defined, syms' = MakeSymAlias(syms, p[1], p[2], stale)
  PROVE  AllTame(syms, syms', R) \/ AliasStep
<1>1. CASE p[1] = p[2]
  <2>1. syms' = syms BY <1>1 DEF MakeSymAlias
  <2> QED BY <2>1, TameItself
<1>2. CASE p[1] # p[2] BY <1>2 DEF AliasStep
<1> QED BY <1>1, <1>2

LEMMA ReadRecordTame ==
  ASSUME Good(syms), ModOK, NEW R, R = WeakRefs \/ R = Refs, Records \cap Making(R) = {}, ReadRecord
  PROVE  virtual' = virtual /\ (AllTame(syms, syms', R) \/ AliasStep)
<1>1. ASSUME NEW n \in Names, ExtDef(n) \/ PubDef(n) \/ ComDef(n) \/ ImpDef(n)
      PROVE  virtual' = virtual /\ AllTame(syms, syms', R)
  <2> DEFINE new == SymOp(syms, n)
             m   == UnaliasSym(tab, n)
  <2>0. Good(new) /\ new.tab = syms.tab /\ m \in Names
    BY KeepsSymOp, UnaliasName DEF Keeps, tab
  <2>1. /\ virtual' = virtual
        /\ \/ syms' = new \/ syms' = DefineSymbol(syms, n)
           \/ syms' = MakeCommunalSym(new, m) \/ syms' = HandleImport(new, m)
    BY <1>1 DEF ExtDef, PubDef, ComDef, ImpDef
  <2> HIDE DEF new, m
  <2>2. CASE syms' = new BY <2>0, <2>1, <2>2, TameItself
  <2>3. CASE syms' = DefineSymbol(syms, n) BY <2>1, <2>3, TameDefineSymbol
  <2>4. CASE syms' = MakeCommunalSym(new, m)
    <3>1. AllTame(new, syms', R) BY <2>0, <2>4, TameMakeCommunalSym
    <3> QED BY <2>0, <2>1, <3>1 DEF AllTame
  <2>5. CASE syms' = HandleImport(new, m)
    <3>1. AllTame(new, syms', R) BY <2>0, <2>5, TameHandleImport
    <3> QED BY <2>0, <2>1, <3>1 DEF AllTame
  <2> QED BY <2>1, <2>2, <2>3, <2>4, <2>5
<1>2. ASSUME NEW p \in Aliases, Alias(p[1], p[2])
      PROVE  virtual' = virtual /\ (AllTame(syms, syms', R) \/ AliasStep)
  <2>1. /\ virtual' = virtual
        /\ syms' = IF tab[p[1]].defined THEN syms ELSE MakeSymAlias(syms, p[1], p[2], Nil)
    BY <1>2 DEF Alias
  <2>2. CASE tab[p[1]].defined BY <2>1, <2>2, TameItself
  <2>3. CASE ~tab[p[1]].defined
    <3>1. Nil \in Names \cup {Nil} OBVIOUS
    <3> QED BY <2>1, <2>3, <3>1, AliasOrSame
  <2> QED BY <2>2, <2>3
<1>3. ASSUME NEW i \in DOMAIN mod.exts, NEW j \in DOMAIN mod.exts, NEW kind \in {"lazy", "weak"},
             LazyExtdef(kind, i, j)
      PROVE  virtual' = virtual /\ AllTame(syms, syms', R)
  <2>1. /\ kind \in Records /\ virtual' = virtual
        /\ syms' = DefineLazyExtdef(syms, mod.exts[i].entry, mod.exts[j].entry, kind = "weak")
    BY <1>3 DEF LazyExtdef, Record
  <2>2. R = WeakRefs /\ kind = "lazy" BY <2>1 DEF Making
  <2>3. PICK n \in Names : n = mod.exts[i].entry BY EntryKnown
  <2>4. (kind = "weak") = FALSE BY <2>2
  <2>5. syms' = DefineLazyExtdef(syms, n, mod.exts[j].entry, FALSE) BY <2>1, <2>3, <2>4
  <2> QED BY <2>1, <2>2, <2>5, TameDefineLazyExtdef
<1>4. ASSUME NEW i \in DOMAIN mod.exts, NEW j \in DOMAIN mod.exts, NEW kind \in {"vf", "pure"},
             NEW c \in Names, VFTable(kind, i, j, c)
      PROVE  FALSE
  <2>1. kind \in Records BY <1>4 DEF VFTable, Record
  <2> QED BY <2>1 DEF Making
<1>5. ASSUME NEW i \in DOMAIN mod.exts, VFReference(i) PROVE virtual' = virtual /\ AllTame(syms, syms', R)
  <2>1. virtual' = virtual /\ syms' = MarkVF(syms, mod.exts[i].entry) BY <1>5 DEF VFReference
  <2>2. mod.exts[i].entry \in Names BY EntryKnown
  <2> QED BY <2>1, <2>2, TameMarkVF
<1>6. ASSUME NEW l \in Libs, DefaultLib(l) PROVE virtual' = virtual /\ AllTame(syms, syms', R)
  BY <1>6, TameItself DEF DefaultLib
<1> QED BY <1>1, <1>2, <1>3, <1>4, <1>5, <1>6 DEF ReadRecord

(* Without references with a default there is nothing to convert. *)
LEMMA NoRefsSame ==
  ASSUME NEW st, Good(st), \A n \in Names : st.tab[n].type \notin Refs PROVE ConvertLazyRefs(st).tab = st.tab
<1> DEFINE f == [n \in Names |-> IF n \in Known(st) /\ st.tab[n].type \in Refs
                                 THEN [WeldSyms(st, n).tab[n] EXCEPT !.conds = {}] ELSE st.tab[n]]
<1>1. st \in Table BY DEF Good
<1>2. ConvertLazyRefs(st) = [st EXCEPT !.tab = f] BY DEF ConvertLazyRefs
<1>3. f = st.tab
  <2>1. \A n \in Names : f[n] = st.tab[n] OBVIOUS
  <2>2. DOMAIN st.tab = Names /\ DOMAIN f = Names /\ st.tab = [n \in Names |-> st.tab[n]] BY <1>1 DEF Table
  <2>3. f = [n \in Names |-> st.tab[n]] OBVIOUS
  <2> QED BY <2>2, <2>3
<1> HIDE DEF f
<1> QED BY <1>1, <1>2, <1>3 DEF Table

LEMMA StepTame ==
  ASSUME Inv, NEW R, R = WeakRefs \/ R = Refs, Records \cap Making(R) = {}, virtual = {},
         Convert => \A n \in Names : tab[n].type \notin Refs, [Next]_vars
  PROVE  virtual' = {} /\ (AllTame(syms, syms', R) \/ AliasStep)
<1>0. Good(syms) /\ ModOK /\ NoVF(syms) BY DEF Inv, Search
<1>1. ASSUME NEW n \in Names, Reference(n) PROVE virtual' = {} /\ AllTame(syms, syms', R)
  <2>1. syms' = SymOp(syms, n) /\ virtual' = virtual BY <1>1 DEF Reference, Directive
  <2>2. SymOp(syms, n).tab = syms.tab BY <1>0, KeepsSymOp
  <2> QED BY <2>1, <2>2, TameItself
<1>2. ASSUME NEW p \in Aliases, NEW stale \in Replaced(p[1]), AddAlias(p[1], p[2], stale)
      PROVE  virtual' = {} /\ (AllTame(syms, syms', R) \/ AliasStep)
  <2>1. /\ virtual' = virtual /\ phase = "directives" /\ syms' = MakeSymAlias(syms, p[1], p[2], stale)
    BY <1>2 DEF AddAlias, Directive
  <2>2. stale \in Names \cup {Nil}
    <3>1. p[1] \in Names BY AliasesAssumption
    <3>2. tab[p[1]] \in Symbol BY <1>0, <3>1 DEF Good, SymOK, tab
    <3> QED BY <3>2 DEF Replaced, Symbol
  <2> QED BY <2>1, <2>2, AliasOrSame
<1>3. CASE mod.open /\ ReadRecord BY <1>0, <1>3, ReadRecordTame
<1>4. CASE EndModule
  <2>1. virtual' = virtual BY <1>4 DEF EndModule
  <2>2. ASSUME NEW n \in Names PROVE Tame(tab[n], tab'[n], R)
    <3>1. /\ tab'[n].type = IF n \in Lost THEN "regular" ELSE tab[n].type
          /\ tab'[n].alias = tab[n].alias
      BY <1>0, <1>4, EndModuleTab
    <3>2. n \in Lost => tab[n].type # "alias" BY DEF Lost, Refs, WeakRefs, VFRefs
    <3> QED BY <3>1, <3>2 DEF Tame, Refs, WeakRefs, VFRefs
  <2> QED BY <2>1, <2>2 DEF AllTame, tab
<1>5. CASE EndObjects \/ EndSweep
  <2>1. virtual' = virtual /\ (syms' = syms \/ syms' = ResolveVFExtdefs(syms))
    BY <1>5 DEF EndObjects, EndSweep
  <2>2. ResolveVFExtdefs(syms) = syms BY <1>0, NoVFSame
  <2> QED BY <2>1, <2>2, TameItself
<1>6. CASE PassSymbol
  <2>1. /\ syms' = Update(syms, syms.order[pos], [tab[syms.order[pos]] EXCEPT !.checked = TRUE])
        /\ virtual' = virtual /\ pos \in 1..Len(syms.order)
    BY <1>6 DEF PassSymbol, AtSymbol
  <2>2. PICK n \in Names : n = syms.order[pos] BY <1>0, <2>1 DEF Good, Table
  <2> DEFINE s == [tab[n] EXCEPT !.checked = TRUE]
  <2>3. tab[n] \in Symbol BY <1>0 DEF Good, SymOK, tab
  <2>4. s.type = tab[n].type /\ s.alias = tab[n].alias BY <2>3 DEF Symbol
  <2>5. syms' = Update(syms, n, s) BY <2>1, <2>2
  <2> HIDE DEF s
  <2>6. Tame(syms.tab[n], s, R) BY <2>4 DEF Tame, tab
  <2> QED BY <1>0, <2>1, <2>5, <2>6, TameUpdate
<1>7. CASE Convert
  <2>1. virtual' = virtual /\ syms' = ConvertLazyRefs(syms) BY <1>7 DEF Convert
  <2>2. ConvertLazyRefs(syms).tab = syms.tab BY <1>0, <1>7, NoRefsSame DEF tab
  <2> QED BY <2>1, <2>2, TameItself
<1>8. CASE (\E l \in Libs : Library(l)) \/ EndDirectives \/ LoadObjFile \/ BeginSweep \/ LoadLibModule
             \/ Linked \/ UNCHANGED vars
  <2>1. UNCHANGED <<syms, virtual>>
    BY <1>8 DEF Library, Directive, EndDirectives, LoadObjFile, BeginSweep, LoadLibModule, AtSymbol, Linked, vars
  <2> QED BY <2>1, TameItself
<1> QED BY <1>1, <1>2, <1>3, <1>4, <1>5, <1>6, <1>7, <1>8 DEF Next

(* With names that are not cut off, an alias holds the name its target is    *)
(* resolved to, and that symbol is in the list.                              *)
LEMMA AliasForm ==
  ASSUME NEW st, Good(st), NEW n \in Names, NEW t \in Names, n # t, NEW stale,
         \A r, x \in Names : Clip(r, x) = r, NEW new \in {MakeSymAlias(st, n, t, stale)}
  PROVE  \/ new.tab = st.tab
         \/ /\ ~st.tab[n].defined \/ st.tab[n].type = "alias"
            /\ new.tab[n].type = "alias" /\ new.tab[n].alias = AliasTarget(st.tab, n, t, stale)
            /\ new.tab[n].placed = st.tab[n].placed
            /\ \A m \in Names \ {n} : new.tab[m] = st.tab[m]
            /\ AliasTarget(st.tab, n, t, stale) \in Known(new)
<1> DEFINE targ == AliasTarget(st.tab, n, t, stale)
           a == AddSym(st, n)
           b == AddSym(a, t)
           c == AddSym(b, targ)
           s == [c.tab[n] EXCEPT !.type = "alias", !.alias = targ, !.defined = TRUE]
<1>1. targ \in Names BY DEF AliasTarget, UnaliasSym, Stops, Trail
<1>2. Good(a) /\ a.tab = st.tab BY KeepsAddSym DEF Keeps
<1>3. Good(b) /\ b.tab = st.tab
  <2> HIDE DEF a
  <2> QED BY <1>2, KeepsAddSym DEF Keeps
<1>4. Good(c) /\ c.tab = st.tab /\ targ \in Known(c)
  <2> HIDE DEF b, targ
  <2> QED BY <1>1, <1>3, KeepsAddSym DEF Keeps
<1>5. new = MakeSymAlias(st, n, t, stale) OBVIOUS
<1>6. Clip(targ, t) = targ BY <1>1
<1>7. \/ new = a /\ st.tab[n].defined /\ st.tab[n].type # "alias"
      \/ new = Update(c, n, s) /\ (~st.tab[n].defined \/ st.tab[n].type = "alias")
  BY <1>5, <1>6 DEF MakeSymAlias, SetSymAlias
<1>8. CASE new = a BY <1>2, <1>8
<1>9. CASE new = Update(c, n, s) /\ (~st.tab[n].defined \/ st.tab[n].type = "alias")
  <2>1. c.tab[n] \in Symbol /\ c \in Table BY <1>4 DEF Good, SymOK
  <2>2. s.type = "alias" /\ s.alias = targ /\ s.placed = st.tab[n].placed
    <3>1. c.tab[n] = st.tab[n] BY <1>4
    <3> HIDE DEF c, targ
    <3> QED BY <2>1, <3>1 DEF Symbol
  <2> HIDE DEF s, c
  <2>3. new.tab = [c.tab EXCEPT ![n] = s] /\ new.order = c.order /\ DOMAIN c.tab = Names
    BY <1>9, <2>1 DEF Update, Table
  <2>4. Known(new) = Known(c) BY <2>3 DEF Known
  <2> HIDE DEF targ
  <2>5. new.tab[n] = s /\ \A m \in Names \ {n} : new.tab[m] = st.tab[m] BY <1>4, <2>3
  <2>6. targ \in Known(new) BY <1>4, <2>4
  <2>7. /\ ~st.tab[n].defined \/ st.tab[n].type = "alias"
        /\ new.tab[n].type = "alias" /\ new.tab[n].alias = targ /\ new.tab[n].placed = st.tab[n].placed
    BY <1>9, <2>2, <2>5
  <2> QED BY <2>5, <2>6, <2>7 DEF targ
<1> QED BY <1>7, <1>8, <1>9

LEMMA StaysLinked == ASSUME Inv, [Next]_vars, phase = "linked" PROVE phase' = "linked"
<1>1. ~mod.open BY DEF Inv, Control, ModOK
<1>2. CASE UNCHANGED vars BY <1>2 DEF vars
<1> QED BY <1>1, <1>2 DEF Next, Reference, AddAlias, Library, Directive, EndDirectives, LoadObjFile,
             EndModule, EndObjects, BeginSweep, LoadLibModule, AtSymbol, PassSymbol, EndSweep, Convert, Linked, vars

(* What an alias holds is in the list, so that a sweep comes by it. *)
Tied == \A n \in Names : tab[n].type = "alias" => tab[n].alias \in Known(syms)
NoneWeak == \A n \in Names : tab[n].type \notin WeakRefs

LEMMA StepTied ==
  ASSUME \A r, x \in Names : Clip(r, x) = r, Good(syms), Keeps(syms, syms'), Tied, NoneWeak,
         AllTame(syms, syms', WeakRefs) \/ AliasStep
  PROVE  Tied' /\ NoneWeak'
<1>0. Known(syms) \subseteq Known(syms') BY KnownGrows
<1>1. CASE AllTame(syms, syms', WeakRefs)
  <2>1. \A n \in Names : Tame(tab[n], tab'[n], WeakRefs) BY <1>1 DEF AllTame, tab
  <2> QED BY <1>0, <2>1 DEF Tame, Tied, NoneWeak
<1>2. CASE AliasStep
  <2>1. PICK p \in Aliases, stale \in Names \cup {Nil} :
          p[1] # p[2] /\ syms' = MakeSymAlias(syms, p[1], p[2], stale)
    BY <1>2 DEF AliasStep
  <2>2. PICK n \in Names, t \in Names : n = p[1] /\ t = p[2] BY AliasesAssumption
  <2>3. syms' \in {MakeSymAlias(syms, n, t, stale)} /\ n # t BY <2>1, <2>2
  <2>4. PICK targ : targ = AliasTarget(tab, n, t, stale) OBVIOUS
  <2>5. \/ tab' = tab
        \/ /\ tab'[n].type = "alias" /\ tab'[n].alias = targ /\ targ \in Known(syms')
           /\ \A m \in Names \ {n} : tab'[m] = tab[m]
    BY <2>3, <2>4, AliasForm DEF tab
  <2>6. CASE tab' = tab BY <1>0, <2>6 DEF Tied, NoneWeak
  <2>7. CASE /\ tab'[n].type = "alias" /\ tab'[n].alias = targ /\ targ \in Known(syms')
             /\ \A m \in Names \ {n} : tab'[m] = tab[m]
    <3>1. ASSUME NEW m \in Names
          PROVE  (tab'[m].type = "alias" => tab'[m].alias \in Known(syms')) /\ tab'[m].type \notin WeakRefs
      <4>1. CASE m = n BY <2>7, <4>1 DEF WeakRefs, VFRefs
      <4>2. CASE m # n BY <1>0, <2>7, <4>2 DEF Tied, NoneWeak
      <4> QED BY <4>1, <4>2
    <3> QED BY <3>1 DEF Tied, NoneWeak
  <2> QED BY <2>5, <2>6, <2>7
<1> QED BY <1>1, <1>2

(* In a link without weak references and virtual functions an alias is all   *)
(* it takes for its target to be looked for: when the search is over, the     *)
(* target is defined or no library has it, whatever aliases lead to it and    *)
(* in whatever order they come (MakeSymAlias, ResolveUndefined).               *)
THEOREM TargetsLookedFor ==
  ASSUME \A r, t \in Names : Clip(r, t) = r, Records \cap {"weak", "vf", "pure"} = {}
  PROVE  Spec => []TargetsPulled
<1> DEFINE All == Inv /\ virtual = {} /\ (phase # "linked" => Tied /\ NoneWeak)
<1>1. Init => All
  <2> SUFFICES ASSUME Init PROVE All OBVIOUS
  <2>1. Inv BY InitInv
  <2>2. virtual = {} /\ syms = NoSymbols BY DEF Init
  <2>3. \A n \in Names : tab[n].type = "regular" BY <2>2 DEF NoSymbols, tab, Fresh
  <2> QED BY <2>1, <2>2, <2>3 DEF Tied, NoneWeak, WeakRefs, VFRefs
<1>2. All /\ [Next]_vars => All'
  <2> SUFFICES ASSUME All, [Next]_vars PROVE All' OBVIOUS
  <2>1. Inv' /\ Good(syms) /\ ModOK BY StepInv DEF Inv
  <2>2. Keeps(syms, syms') BY <2>1, StepFine DEF Fine
  <2>3. Records \cap Making(WeakRefs) = {}
    <3>1. WeakRefs # Refs BY DEF Refs, WeakRefs, VFRefs
    <3> QED BY <3>1 DEF Making
  <2>4. CASE Convert
    <3>1. phase' = "linked" /\ virtual' = {} BY <2>4 DEF Convert
    <3> QED BY <2>1, <3>1
  <2>5. CASE phase = "linked"
    <3>1. phase' = "linked" BY <2>1, <2>5, StaysLinked DEF Inv
    <3>2. virtual' = {}
      <4>1. ~mod.open BY <2>5 DEF Inv, Control, ModOK
      <4> QED BY <2>5, <4>1 DEF Next, Reference, AddAlias, Library, Directive, EndDirectives, LoadObjFile,
             EndModule, EndObjects, BeginSweep, LoadLibModule, AtSymbol, PassSymbol, EndSweep, Convert, Linked, vars
    <3> QED BY <2>1, <3>1, <3>2
  <2>6. CASE ~Convert /\ phase # "linked"
    <3>1. virtual' = {} /\ (AllTame(syms, syms', WeakRefs) \/ AliasStep) BY <2>3, <2>6, StepTame
    <3>2. Tied' /\ NoneWeak' BY <2>1, <2>2, <2>6, <3>1, StepTied
    <3> QED BY <2>1, <3>1, <3>2
  <2> QED BY <2>4, <2>5, <2>6
<1>3. All => TargetsPulled
  <2> SUFFICES ASSUME All, phase = "convert", NEW n \in Names, tab[n].type = "alias"
               PROVE  tab[UnaliasSym(tab, n)].defined \/ ~Provided(UnaliasSym(tab, n))
    BY DEF TargetsPulled
  <2>0. Good(syms) BY DEF Inv
  <2>1. n \in Known(syms) /\ Known(syms) \in SUBSET Names
    <3>1. tab[n] # Fresh BY DEF Fresh
    <3> QED BY <2>0, <3>1, KnownNames DEF Good, tab
  <2>2. Trail(tab, n) \subseteq Known(syms)
    <3>1. \A a \in Known(syms) : IsAlias(tab[a]) => tab[a].alias \in Known(syms) BY <2>1 DEF Tied, IsAlias
    <3> QED BY <2>1, <3>1, TrailWithin
  <2>3. PICK t : t = UnaliasSym(tab, n) OBVIOUS
  <2>4. t = n \/ (t \in Trail(tab, n) /\ ~IsAlias(tab[t])) BY <2>3 DEF UnaliasSym, Stops
  <2>5. CASE t = n
    <3>1. tab[n].defined BY <2>0 DEF Good, SymOK, tab
    <3> QED BY <2>3, <2>5, <3>1
  <2>6. CASE t \in Trail(tab, n)
    <3>1. t \in Known(syms) /\ t \in Names BY <2>1, <2>2, <2>6
    <3>2. tab[t].type \notin WeakRefs BY <3>1 DEF NoneWeak
    <3>3. NothingMissed BY DEF Inv, Search
    <3>4. ~tab[t].defined => ~Provided(t) BY <3>1, <3>2, <3>3 DEF NothingMissed, Wanted
    <3> QED BY <2>3, <3>4
  <2> QED BY <2>4, <2>5, <2>6
<1> HIDE DEF All
<1> QED BY <1>1, <1>2, <1>3, PTL DEF Spec

-----------------------------------------------------------------------------
(* What an alias means. Aliases do not lead in a circle: rank falls along    *)
(* them. Made: what is an alias was named one. Meant: an alias and its        *)
(* target lead to the same symbol, or one leads to an alias that got an       *)
(* address. As long as there are directives, nothing has one.                 *)
NotCut == \A r, x \in Names : Clip(r, x) = r
Named(n) == \E p \in Aliases : p[1] = n
OneTarget == \A p, q \in Aliases : p[1] = q[1] => p[2] = q[2]
Ranked(rank) == \A p \in Aliases : p[1] # p[2] => rank[p[2]] < rank[p[1]]
Over(t, n) == t[n].placed /\ Named(n)
Made(t) == \A n \in Names : IsAlias(t[n]) => Named(n)
Means(t, p) ==
  \/ UnaliasSym(t, p[1]) = UnaliasSym(t, p[2])
  \/ Over(t, UnaliasSym(t, p[1])) \/ Over(t, UnaliasSym(t, p[2]))
Meant(t) == \A p \in Aliases : IsAlias(t[p[1]]) /\ p[1] # p[2] => Means(t, p)
NonePlaced(t) == \A n \in Names : ~t[n].placed
Aliased(rank) ==
  /\ Falls(tab, rank) /\ Made(tab) /\ Meant(tab)
  /\ phase = "directives" => NonePlaced(tab)

(* A step that makes no alias *)
LEMMA TameFalls ==
  ASSUME NEW st, NEW new, NEW rank \in [Names -> Nat], NEW R, Falls(st.tab, rank), AllTame(st, new, R)
  PROVE  Falls(new.tab, rank)
BY DEF Falls, AllTame, Tame, IsAlias

LEMMA TameLeads ==
  ASSUME NEW st, NEW new, NEW rank \in [Names -> Nat], NEW R, Falls(st.tab, rank), Made(st.tab),
         AllTame(st, new, R), NEW x \in Names
  PROVE  UnaliasSym(new.tab, x) = UnaliasSym(st.tab, x) \/ Over(new.tab, UnaliasSym(new.tab, x))
<1>1. PICK y : y = UnaliasSym(new.tab, x) OBVIOUS
<1>2. Falls(new.tab, rank) BY TameFalls
<1>3. y \in Trail(new.tab, x) /\ ~IsAlias(new.tab[y]) /\ y \in Names BY <1>1, <1>2, Resolved
<1>4. Trail(new.tab, x) \subseteq Trail(st.tab, x)
  <2>1. Trail(st.tab, x) \in SUBSET Names /\ x \in Trail(st.tab, x) BY TrailSelf DEF Trail
  <2>2. \A a \in Trail(st.tab, x) : IsAlias(new.tab[a]) => new.tab[a].alias \in Trail(st.tab, x)
    <3> TAKE a \in Trail(st.tab, x)
    <3> HAVE IsAlias(new.tab[a])
    <3>1. IsAlias(st.tab[a]) /\ new.tab[a].alias = st.tab[a].alias BY <2>1 DEF AllTame, Tame, IsAlias
    <3> QED BY <2>1, <3>1, TrailOn DEF Falls
  <2> QED BY <2>1, <2>2, TrailWithin
<1>5. CASE ~IsAlias(st.tab[y])
  <2>1. y \in Stops(st.tab, x) BY <1>3, <1>4, <1>5 DEF Stops
  <2>2. y = UnaliasSym(st.tab, x) BY <2>1, Resolved
  <2> QED BY <1>1, <2>2
<1>6. CASE IsAlias(st.tab[y])
  <2>1. new.tab[y].placed BY <1>3, <1>6 DEF AllTame, Tame, IsAlias
  <2>2. Named(y) BY <1>3, <1>6 DEF Made
  <2> QED BY <1>1, <2>1, <2>2 DEF Over
<1> QED BY <1>5, <1>6

LEMMA TameMeans ==
  ASSUME NEW st, NEW new, Good(st), Keeps(st, new), NEW rank \in [Names -> Nat], NEW R, Falls(st.tab, rank),
         Made(st.tab), Meant(st.tab), AllTame(st, new, R)
  PROVE  Falls(new.tab, rank) /\ Made(new.tab) /\ Meant(new.tab)
<1>1. Falls(new.tab, rank) BY TameFalls
<1>2. Made(new.tab) BY DEF Made, AllTame, Tame, IsAlias
<1>3. ASSUME NEW p \in Aliases, IsAlias(new.tab[p[1]]), p[1] # p[2] PROVE Means(new.tab, p)
  <2>1. p[1] \in Names /\ p[2] \in Names BY AliasesAssumption
  <2>2. IsAlias(st.tab[p[1]]) BY <1>3, <2>1 DEF AllTame, Tame, IsAlias
  <2>3. Means(st.tab, p) BY <1>3, <2>2 DEF Meant
  <2>4. PICK x \in Names, y \in Names, u \in Names, v \in Names :
          /\ x = UnaliasSym(st.tab, p[1]) /\ y = UnaliasSym(st.tab, p[2])
          /\ u = UnaliasSym(new.tab, p[1]) /\ v = UnaliasSym(new.tab, p[2])
    BY <1>1, <2>1, Resolved
  <2>5. (u = x \/ Over(new.tab, u)) /\ (v = y \/ Over(new.tab, v)) BY <2>1, <2>4, TameLeads
  <2>6. \A n \in Names : Over(st.tab, n) => Over(new.tab, n) BY DEF Over, Keeps, Stays
  <2>7. x = y \/ Over(st.tab, x) \/ Over(st.tab, y) BY <2>3, <2>4 DEF Means
  <2>8. u = v \/ Over(new.tab, u) \/ Over(new.tab, v) BY <2>4, <2>5, <2>6, <2>7
  <2> QED BY <2>4, <2>8 DEF Means
<1> QED BY <1>1, <1>2, <1>3 DEF Meant

(* A step that makes one *)
LEMMA AliasMeans ==
  ASSUME NotCut, OneTarget, NEW rank \in [Names -> Nat], Ranked(rank), NEW st, NEW new, Good(st), Good(new),
         Keeps(st, new), Falls(st.tab, rank), Made(st.tab), Meant(st.tab),
         NEW p \in Aliases, p[1] # p[2], NEW stale \in Names \cup {Nil},
         NonePlaced(st.tab) \/ ~st.tab[p[1]].defined,
         new = MakeSymAlias(st, p[1], p[2], stale)
  PROVE  /\ Falls(new.tab, rank) /\ Made(new.tab) /\ Meant(new.tab)
         /\ NonePlaced(st.tab) => NonePlaced(new.tab)
<1>1. PICK n \in Names, t \in Names : n = p[1] /\ t = p[2] BY AliasesAssumption
<1>2. PICK old, u : old = st.tab /\ u = new.tab OBVIOUS
<1>3. PICK c : c = UnaliasSym(old, t) OBVIOUS
<1>4. Falls(old, rank) BY <1>2
<1>5. c \in Names /\ c \in Trail(old, t) /\ ~IsAlias(old[c]) /\ rank[c] <= rank[t] /\ rank[t] < rank[n]
  BY <1>1, <1>3, <1>4, Resolved, TrailFrom DEF Ranked
<1>6. n \notin Trail(old, t) /\ n \notin Trail(old, c) /\ c # n /\ rank[c] < rank[n]
  <2>1. \A m \in Trail(old, t) : rank[m] <= rank[t] BY <1>4, TrailFrom
  <2>2. rank[n] \in Nat /\ rank[t] \in Nat /\ rank[c] \in Nat BY <1>5
  <2>3. n \notin Trail(old, t)
    <3> SUFFICES ASSUME n \in Trail(old, t) PROVE FALSE OBVIOUS
    <3>1. rank[n] <= rank[t] BY <2>1
    <3> QED BY <1>5, <2>2, <3>1
  <2>4. Trail(old, c) \subseteq Trail(old, t) BY <1>4, <1>5, TrailFrom
  <2>5. rank[c] < rank[n] BY <1>5, <2>2
  <2> QED BY <1>5, <2>3, <2>4, <2>5
<1>7. AliasTarget(old, n, t, stale) = c
  <2>1. CASE old[n].type = "alias"
    <3> DEFINE f == Freed(old, n, stale)
    <3>1. \A m \in Names \ {n} : f[m] = old[m] BY <1>2 DEF Freed, Good, Table
    <3>2. Agree(old, f, Trail(old, t)) BY <1>6, <3>1 DEF Agree, Trail
    <3> HIDE DEF f
    <3>3. UnaliasSym(f, t) = UnaliasSym(old, t) BY <1>4, <3>2, SameTrail
    <3> QED BY <1>3, <2>1, <3>3 DEF AliasTarget, f
  <2>2. CASE old[n].type # "alias" BY <1>3, <2>2 DEF AliasTarget
  <2> QED BY <2>1, <2>2
<1>8. \/ u = old
      \/ /\ ~old[n].defined \/ IsAlias(old[n])
         /\ IsAlias(u[n]) /\ u[n].alias = c /\ u[n].placed = old[n].placed
         /\ \A m \in Names \ {n} : u[m] = old[m]
  <2>1. new \in {MakeSymAlias(st, n, t, stale)} /\ n # t BY <1>1
  <2>2. \A r, x \in Names : Clip(r, x) = r BY DEF NotCut
  <2> QED BY <1>2, <1>7, <2>1, <2>2, AliasForm DEF IsAlias
<1>9. CASE u = old BY <1>2, <1>9
<1>10. CASE /\ ~old[n].defined \/ IsAlias(old[n])
            /\ IsAlias(u[n]) /\ u[n].alias = c /\ u[n].placed = old[n].placed
            /\ \A m \in Names \ {n} : u[m] = old[m]
  <2>1. Falls(u, rank)
    <3>1. ASSUME NEW m \in Names, IsAlias(u[m]) PROVE u[m].alias \in Names /\ rank[u[m].alias] < rank[m]
      <4>1. CASE m = n BY <1>5, <1>6, <1>10, <4>1
      <4>2. CASE m # n BY <1>4, <1>10, <3>1, <4>2 DEF Falls
      <4> QED BY <4>1, <4>2
    <3> QED BY <3>1 DEF Falls
  <2>2. Made(u)
    <3>1. Made(old) BY <1>2
    <3>2. Named(n) BY <1>1 DEF Named
    <3> QED BY <1>10, <3>1, <3>2 DEF Made
  <2>3. NonePlaced(old) => NonePlaced(u) BY <1>10 DEF NonePlaced
  <2>4. AgreeBut(old, u, n) BY <1>10 DEF Agree, AgreeBut
  <2>5. UnaliasSym(old, c) = c
    <3>1. UnaliasSym(old, c) \in Trail(old, c) BY <1>4, <1>5, Resolved
    <3> QED BY <1>5, <3>1, TrailOfStop
  <2>6. UnaliasSym(u, n) = c
    <3>1. u[n].alias \in Trail(u, n)
      <4>1. n \in Trail(u, n) /\ u[n].alias \in Names BY <1>5, <1>10, TrailSelf
      <4> QED BY <1>10, <4>1, TrailOn
    <3>2. UnaliasSym(u, c) = UnaliasSym(u, n) BY <1>10, <2>1, <3>1, Resolved
    <3>3. UnaliasSym(u, c) = UnaliasSym(old, c)
      <4>1. c \in Names /\ n \notin Trail(old, c) BY <1>5, <1>6
      <4> QED BY <1>4, <2>1, <2>4, <4>1, Rerouted
    <3> QED BY <2>5, <3>2, <3>3
  \* What led to n leads to c now.
  <2>7. \A x \in Names : UnaliasSym(u, x) = IF n \in Trail(old, x) THEN c ELSE UnaliasSym(old, x)
    <3> TAKE x \in Names
    <3>1. /\ n \in Trail(old, x) => UnaliasSym(u, x) = UnaliasSym(u, n)
          /\ n \notin Trail(old, x) => UnaliasSym(u, x) = UnaliasSym(old, x)
      BY <1>4, <2>1, <2>4, Rerouted
    <3> QED BY <2>6, <3>1
  <2>8. \A x \in Names : n \in Trail(old, x) => UnaliasSym(old, x) = UnaliasSym(old, n)
    BY <1>4, Resolved
  <2>9. UnaliasSym(u, t) = c BY <1>3, <1>6, <2>7
  <2>10. ASSUME NEW q \in Aliases, IsAlias(u[q[1]]), q[1] # q[2] PROVE Means(u, q)
    <3>1. q[1] \in Names /\ q[2] \in Names BY AliasesAssumption
    <3>2. CASE q[1] = n
      <4>1. q[2] = t BY <1>1, <3>2 DEF OneTarget
      <4> QED BY <2>6, <2>9, <3>2, <4>1 DEF Means
    <3>3. CASE q[1] # n
      <4>1. IsAlias(old[q[1]]) BY <1>10, <2>10, <3>1, <3>3
      <4>2. Means(old, q) BY <1>2, <2>10, <4>1 DEF Meant
      <4>3. CASE IsAlias(old[n])
        <5>1. NonePlaced(old) BY <1>1, <1>2, <4>3 DEF Good, SymOK, IsAlias
        <5>2. Means(old, p) BY <1>1, <1>2, <4>3 DEF Meant
        <5>3. UnaliasSym(old, n) = c BY <1>1, <1>3, <1>4, <5>1, <5>2, Resolved DEF Means, Over, NonePlaced
        <5>4. \A x \in Names : UnaliasSym(u, x) = UnaliasSym(old, x) BY <2>7, <2>8, <5>3
        <5>5. UnaliasSym(old, q[1]) = UnaliasSym(old, q[2])
          BY <1>4, <3>1, <4>2, <5>1, Resolved DEF Means, Over, NonePlaced
        <5> QED BY <3>1, <5>4, <5>5 DEF Means
      <4>4. CASE ~IsAlias(old[n])
        <5>1. ~old[n].placed /\ UnaliasSym(old, n) = n
          <6>1. ~old[n].defined BY <1>10, <4>4
          <6>2. SymOK(old[n]) BY <1>2 DEF Good
          <6>3. UnaliasSym(old, n) \in Trail(old, n) BY <1>4, Resolved
          <6> QED BY <4>4, <6>1, <6>2, <6>3, TrailOfStop DEF SymOK
        <5>2. \A x \in Names : UnaliasSym(u, x) = IF UnaliasSym(old, x) = n THEN c ELSE UnaliasSym(old, x)
          <6> TAKE x \in Names
          <6>1. CASE n \in Trail(old, x) BY <2>7, <2>8, <5>1, <6>1
          <6>2. CASE n \notin Trail(old, x)
            <7>1. UnaliasSym(old, x) \in Trail(old, x) BY <1>4, Resolved
            <7> QED BY <2>7, <6>2, <7>1
          <6> QED BY <6>1, <6>2
        <5>3. \A x \in Names : Over(old, x) => x # n /\ Over(u, x) BY <1>10, <5>1 DEF Over
        <5>4. PICK x \in Names, y \in Names : x = UnaliasSym(old, q[1]) /\ y = UnaliasSym(old, q[2])
          BY <1>4, <3>1, Resolved
        <5>5. /\ UnaliasSym(u, q[1]) = IF x = n THEN c ELSE x
              /\ UnaliasSym(u, q[2]) = IF y = n THEN c ELSE y
          BY <3>1, <5>2, <5>4
        <5>6. x = y \/ Over(old, x) \/ Over(old, y) BY <4>2, <5>4 DEF Means
        <5> QED BY <5>3, <5>5, <5>6 DEF Means
      <4> QED BY <4>3, <4>4
    <3> QED BY <3>2, <3>3
  <2>11. Meant(u) BY <2>10 DEF Meant
  <2> QED BY <1>2, <2>1, <2>2, <2>3, <2>11
<1> QED BY <1>8, <1>9, <1>10

(* In a link without references with a default an alias is another name of  *)
(* its target, whatever chain of aliases this leads to and in whatever order *)
(* directives and modules make them, until a module gives one of them an     *)
(* address. It holds if an alias has one target, if names are not cut off    *)
(* and if aliases do not lead in a circle (MakeSymAlias, UnaliasSym).          *)
THEOREM AliasesMeanTargets ==
  ASSUME \A r, t \in Names : Clip(r, t) = r, Records \cap {"lazy", "weak", "vf", "pure"} = {},
         \A p, q \in Aliases : p[1] = q[1] => p[2] = q[2],
         NEW rank \in [Names -> Nat], \A p \in Aliases : p[1] # p[2] => rank[p[2]] < rank[p[1]]
  PROVE  Spec => [](AliasMeansTarget /\ LookupsEnd)
<1> DEFINE NoRefs == \A n \in Names : tab[n].type \notin Refs
           All == Inv /\ virtual = {} /\ NoRefs /\ Aliased(rank)
<1>0. NotCut /\ OneTarget /\ Ranked(rank) BY DEF NotCut, OneTarget, Ranked
<1>1. Init => All
  <2> SUFFICES ASSUME Init PROVE All OBVIOUS
  <2>1. Inv BY InitInv
  <2>2. virtual = {} /\ syms = NoSymbols BY DEF Init
  <2>3. \A n \in Names : tab[n].type = "regular" /\ ~tab[n].placed BY <2>2 DEF NoSymbols, tab, Fresh
  <2>4. \A n \in Names : ~IsAlias(tab[n]) BY <2>3 DEF IsAlias
  <2>5. Meant(tab) BY <2>4, AliasesAssumption DEF Meant
  <2> QED BY <2>1, <2>2, <2>3, <2>4, <2>5 DEF Aliased, Falls, Made, NonePlaced, Refs, WeakRefs, VFRefs
<1>2. All /\ [Next]_vars => All'
  <2> SUFFICES ASSUME All, [Next]_vars PROVE All' OBVIOUS
  <2>1. Inv' /\ Good(syms) /\ Good(syms') /\ ModOK BY StepInv DEF Inv
  <2>2. Keeps(syms, syms') BY <2>1, StepFine DEF Fine
  <2>3. Records \cap Making(Refs) = {} BY DEF Making
  <2>4. virtual' = {} /\ (AllTame(syms, syms', Refs) \/ AliasStep) BY <2>3, StepTame
  <2>5. Falls(tab, rank) /\ Made(tab) /\ Meant(tab) BY DEF Aliased
  <2>6. CASE AllTame(syms, syms', Refs)
    <3>1. Falls(tab', rank) /\ Made(tab') /\ Meant(tab') BY <2>1, <2>2, <2>5, <2>6, TameMeans DEF tab
    <3>2. NoRefs' BY <2>6 DEF AllTame, Tame, tab
    <3>3. phase' = "directives" => NonePlaced(tab')
      <4> SUFFICES ASSUME phase' = "directives" PROVE NonePlaced(tab') OBVIOUS
      <4>1. phase = "directives" /\ ~mod.open
        <5>1. phase = "directives"
          BY DEF Next, Reference, AddAlias, Library, Directive, EndDirectives, LoadObjFile, ReadRecord, ExtDef,
                 PubDef, ComDef, ImpDef, Alias, LazyExtdef, VFTable, VFReference, DefaultLib, Record,
                 EndModule, EndObjects, BeginSweep, LoadLibModule, AtSymbol, PassSymbol, EndSweep, Convert, Linked, vars
        <5> QED BY <5>1 DEF Inv, Control, ModOK
      <4>2. tab' = tab \/ (\E p \in Aliases : \E stale \in Replaced(p[1]) : AddAlias(p[1], p[2], stale))
        <5>1. ASSUME NEW n \in Names, Reference(n) PROVE tab' = tab
          <6>1. syms' = SymOp(syms, n) BY <5>1 DEF Reference
          <6> QED BY <2>1, <6>1, KeepsSymOp DEF tab
        <5>2. CASE (\E l \in Libs : Library(l)) \/ EndDirectives \/ UNCHANGED vars
          BY <5>2 DEF Library, EndDirectives, vars, tab
        <5> QED BY <4>1, <5>1, <5>2 DEF Next, LoadObjFile, EndModule, EndObjects, BeginSweep, LoadLibModule, AtSymbol,
               PassSymbol, EndSweep, Convert, Linked
      <4>3. NonePlaced(tab) BY <4>1 DEF Aliased
      <4>4. ASSUME NEW p \in Aliases, NEW stale \in Replaced(p[1]), AddAlias(p[1], p[2], stale)
            PROVE  NonePlaced(tab')
        <5>1. syms' = MakeSymAlias(syms, p[1], p[2], stale) BY <4>4 DEF AddAlias
        <5>2. PICK n \in Names, t \in Names : n = p[1] /\ t = p[2] BY AliasesAssumption
        <5>3. CASE n = t BY <4>3, <5>1, <5>2, <5>3 DEF MakeSymAlias, tab
        <5>4. CASE n # t
          <6>1. syms' \in {MakeSymAlias(syms, n, t, stale)} BY <5>1, <5>2
          <6>2. \/ tab' = tab
                \/ tab'[n].placed = tab[n].placed /\ \A m \in Names \ {n} : tab'[m] = tab[m]
            BY <2>1, <5>4, <6>1, AliasForm DEF tab
          <6> QED BY <4>3, <6>2 DEF NonePlaced
        <5> QED BY <5>3, <5>4
      <4> QED BY <4>2, <4>3, <4>4
    <3> QED BY <2>1, <2>4, <3>1, <3>2, <3>3 DEF Aliased
  <2>7. CASE AliasStep
    <3>1. PICK p \in Aliases, stale \in Names \cup {Nil} :
            /\ p[1] # p[2] /\ (phase = "directives" \/ ~tab[p[1]].defined)
            /\ syms' = MakeSymAlias(syms, p[1], p[2], stale)
      BY <2>7 DEF AliasStep
    <3>2. NonePlaced(tab) \/ ~tab[p[1]].defined BY <3>1 DEF Aliased
    <3>3. /\ Falls(tab', rank) /\ Made(tab') /\ Meant(tab')
          /\ NonePlaced(tab) => NonePlaced(tab')
      BY <1>0, <2>1, <2>2, <2>5, <3>1, <3>2, AliasMeans DEF tab
    <3>4. NoRefs'
      <4>1. PICK n \in Names, t \in Names : n = p[1] /\ t = p[2] BY AliasesAssumption
      <4>2. syms' \in {MakeSymAlias(syms, n, t, stale)} /\ n # t BY <3>1, <4>1
      <4>3. \/ tab' = tab
            \/ tab'[n].type = "alias" /\ \A m \in Names \ {n} : tab'[m] = tab[m]
        BY <2>1, <4>2, AliasForm DEF tab
      <4>4. "alias" \notin Refs BY DEF Refs, WeakRefs, VFRefs
      <4> QED BY <4>3, <4>4
    <3>5. phase' = "directives" => NonePlaced(tab')
      <4>1. phase' = "directives" => phase = "directives"
        BY DEF Next, Reference, AddAlias, Library, Directive, EndDirectives, LoadObjFile, ReadRecord, ExtDef,
               PubDef, ComDef, ImpDef, Alias, LazyExtdef, VFTable, VFReference, DefaultLib, Record,
               EndModule, EndObjects, BeginSweep, LoadLibModule, AtSymbol, PassSymbol, EndSweep, Convert, Linked, vars
      <4> QED BY <3>3, <4>1 DEF Aliased
    <3> QED BY <2>1, <2>4, <3>3, <3>4, <3>5 DEF Aliased
  <2> QED BY <2>4, <2>6, <2>7
<1>3. All => AliasMeansTarget /\ LookupsEnd
  <2> SUFFICES ASSUME All PROVE AliasMeansTarget /\ LookupsEnd OBVIOUS
  <2>1. Falls(tab, rank) /\ Meant(tab) BY DEF Aliased
  <2>2. AliasMeansTarget
    BY <2>1 DEF AliasMeansTarget, Meant, Means, Over, Named, Overtaken, IsAlias
  <2>3. \A n \in Names : Stops(tab, n) # {} BY <2>1, Resolved DEF Stops
  <2> QED BY <2>2, <2>3 DEF LookupsEnd, Ends
<1> HIDE DEF All
<1> QED BY <1>1, <1>2, <1>3, PTL DEF Spec
=============================================================================
