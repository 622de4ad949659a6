------------------------------- MODULE Comdat -------------------------------
(****************************************************************************)
(* Names that several modules define: COMDEF and COMDAT records against     *)
(* each other and against public symbols (c/wcomdef.c, c/objpass1.c).       *)
(*                                                                          *)
(* A communal symbol gets storage when it first comes, and later modules    *)
(* may ask for more. The first COMDAT of a name takes its place, and the    *)
(* first public symbol that of either; what made way must not stay in the   *)
(* program. The data of a COMDAT may come in several records, and is stored *)
(* when its module ends. COMDATs for which the linker has to find a segment *)
(* are put together by kind (CDatSegments). After pass 1 CalcSegSizes puts  *)
(* the segments of one name behind each other.                              *)
(*                                                                          *)
(* The model has OMF modules and ordinary links. A legal module declares a  *)
(* name once. Left out are messages, static and imported symbols, edges     *)
(* for dead code (ObjStrip) and fixups (Lidata).                            *)
(****************************************************************************)
EXTENDS Naturals, Sequences, FiniteSets, SequencesExt

CONSTANTS Names,       \* the symbols
          Sizes,       \* what communal symbols there may be: <<size, far>>
          Selections,  \* how COMDAT records may start: <<place, align, length>>
          More,        \* lengths of the records that continue one
          MaxSegment,  \* 64K
          MaxMods, MaxRecords, MaxPieces  \* bounds: modules; declarations in all; records of a COMDAT

(* What records there may be. *)
LegalRecords ==
  /\ MaxSegment \in Nat \ {0} /\ MaxMods \in Nat
  /\ Sizes \subseteq Nat \X BOOLEAN /\ More \subseteq Nat
  /\ Selections \subseteq {"explicit", "code", "far data", "code32", "data32"} \X Nat \X Nat

VARIABLES mod,           \* CurrMod; MaxMods + 1 after pass 1
          sym,           \* the symbols
          publist,       \* publist of modules: <<module, name>>
          segs,          \* the segdata that are in lists, in the order they were made
          cdatSegments,  \* CDatSegments: the segment COMDATs of a kind go to, 0 for none
          cdatSegNum,    \* CDatSegNum
          infos,         \* CDatList: what is known of the COMDATs of this module
          size,          \* seg_leader's size, for those that have one
          delta,         \* where in its segment each segdata is, once that is known
          came           \* the declarations so far: [of, kind, mod, size]

vars == <<mod, sym, publist, segs, cdatSegments, cdatSegNum, infos, size, delta, came>>

Kinds == {"undefined", "communal", "comdat", "public"}
\* Where COMDATs go: the segment the record names, or one for their kind.
Automatic == {"code", "far data", "code32", "data32"}
NoInfo == [seg |-> 0, pieces |-> << >>]

Init ==
  /\ mod = 1
  /\ sym = [n \in Names |-> [kind |-> "undefined", seg |-> 0, mod |-> 0]]
  /\ publist = {} /\ segs = << >>
  /\ cdatSegments = [p \in Automatic |-> 0] /\ cdatSegNum = 0
  /\ infos = [n \in Names |-> NoInfo]
  /\ size = << >> /\ delta = << >> /\ came = {}

-----------------------------------------------------------------------------
(* Symbols *)

Reading == mod <= MaxMods
Declare(n, kind, s) ==
  /\ Reading /\ Cardinality(came) < MaxRecords
  /\ \A c \in came : <<c.of, c.mod>> # <<n, mod>>
  /\ came' = came \cup {[of |-> n, kind |-> kind, mod |-> mod, size |-> s]}

Communal(n) == sym[n].kind \in {"communal", "comdat"}

(* HashReplace: what a communal symbol was goes. *)
\* Mutant: its segment stays.
ReplaceKeepsSegment(n) == segs
Replaced(n) == IF Communal(n) THEN [segs EXCEPT ![sym[n].seg].dead = TRUE] ELSE segs
Publish(n) == (publist \ {<<sym[n].mod, n>>}) \cup {<<mod, n>>}
Become(n, kind, s) == sym' = [sym EXCEPT ![n] = [kind |-> kind, seg |-> s, mod |-> mod]]

(* DefineSymbol: the first public symbol is the one that counts. *)
PubDef(n) ==
  /\ Declare(n, "public", 0)
  /\ IF sym[n].kind = "public" THEN UNCHANGED <<sym, publist, segs>>
     ELSE Become(n, "public", 0) /\ publist' = Publish(n) /\ segs' = Replaced(n)
  /\ UNCHANGED <<mod, cdatSegments, cdatSegNum, infos, size, delta>>

-----------------------------------------------------------------------------
(* Communal symbols *)

Segdata(n, length, align, leader) ==
  [of |-> n, length |-> length, align |-> align, leader |-> leader, rest |-> FALSE, dead |-> FALSE, data |-> << >>]

(* NearAllocCommunal; FarAllocCommunal, which makes as many segments as it  *)
(* takes, the last of them shorter than 64K.                                *)
Parts(s) == s \div MaxSegment
Near(n, s) == << Segdata(n, s, 2, <<"c_common">>) >>
Far(n, s) ==
  [i \in 1 .. Parts(s) + 1 |->
     [Segdata(n, IF i > Parts(s) THEN s % MaxSegment ELSE MaxSegment, 0, <<"far", Len(segs) + i>>)
        EXCEPT !.rest = i > 1]]

(* MakeCommunalSym *)
Grow(n, s) ==
  IF sym[n].kind = "communal" /\ segs[sym[n].seg].length < s
  THEN [segs EXCEPT ![sym[n].seg].length = s] ELSE segs
ComDef(n, s, far) ==
  /\ Declare(n, "communal", s)
  /\ IF sym[n].kind # "undefined" THEN segs' = Grow(n, s) /\ UNCHANGED <<sym, publist>>
     ELSE /\ segs' = segs \o (IF far THEN Far(n, s) ELSE Near(n, s))
          /\ Become(n, "communal", Len(segs) + 1) /\ publist' = Publish(n)
  /\ UNCHANGED <<mod, cdatSegments, cdatSegNum, infos, size, delta>>

-----------------------------------------------------------------------------
(* COMDATs *)

CAlign(off, align) == ((off + 2 ^ align - 1) \div 2 ^ align) * 2 ^ align
SizeOf(leader) == IF leader \in DOMAIN size THEN size[leader] ELSE 0
CdatLeader(k) == <<"COMDAT_SEG", k>>

(* AddToLinkerComdat: whether the segment of that kind has no room left.    *)
(* Sizes are known after pass 1 only, so that it always has.                *)
NeedsSegment(place, align, length) ==
  \/ cdatSegments[place] = 0
  \/ CAlign(SizeOf(CdatLeader(cdatSegments[place])), align) + length >= MaxSegment /\ align <= 1
AddToLinkerComdat(n, place, align, length) ==
  IF place \notin Automatic
  THEN /\ segs' = Replaced(n) \o << Segdata(n, length, align, <<place>>) >>
       /\ UNCHANGED <<cdatSegments, cdatSegNum>>
  ELSE LET new == NeedsSegment(place, align, length)
           num == IF new THEN cdatSegNum + 1 ELSE cdatSegments[place]
       IN  /\ segs' = Replaced(n) \o << Segdata(n, length, align, CdatLeader(num)) >>
           /\ cdatSegments' = [cdatSegments EXCEPT ![place] = num]
           /\ cdatSegNum' = IF new THEN num ELSE cdatSegNum

(* ProcComdat, for the first record of a COMDAT, SetComdatSym. One that     *)
(* comes after another, or after a public symbol, is only kept track of.    *)
Taken(n) == sym[n].kind \in {"comdat", "public"}
ComDat(n, place, align, length) ==
  /\ Declare(n, "comdat", length)
  /\ infos' = [infos EXCEPT ![n] = [seg |-> IF Taken(n) THEN 0 ELSE Len(segs) + 1, pieces |-> <<length>>]]
  /\ IF Taken(n) THEN UNCHANGED <<sym, publist, segs, cdatSegments, cdatSegNum>>
     ELSE /\ AddToLinkerComdat(n, place, align, length)
          /\ Become(n, "comdat", Len(segs) + 1) /\ publist' = Publish(n)
  /\ UNCHANGED <<mod, size, delta>>

(* ProcComdat, CDAT_CONTINUATION *)
Continues(n, length) ==
  /\ Reading /\ Len(infos[n].pieces) \in 1 .. MaxPieces - 1
  /\ infos' = [infos EXCEPT ![n].pieces = Append(@, length)]
  /\ came' = {IF <<c.of, c.mod>> = <<n, mod>> THEN [c EXCEPT !.size = @ + length] ELSE c : c \in came}
  /\ UNCHANGED <<mod, sym, publist, cdatSegments, cdatSegNum, size, delta>>
Longer(i, length) == IF i = 0 THEN segs ELSE [segs EXCEPT ![i].length = @ + length]
Continue(n, length) == Continues(n, length) /\ segs' = Longer(infos[n].seg, length)

(* ResolveComdats, StoreInfoData: the data of those that are kept. *)
Stored(i) ==
  IF \E n \in Names : infos[n].seg = i
  THEN [segs[i] EXCEPT !.data = infos[CHOOSE n \in Names : infos[n].seg = i].pieces]
  ELSE segs[i]
ResolveComdats ==
  /\ Reading
  /\ segs' = [i \in DOMAIN segs |-> Stored(i)]
  /\ infos' = [n \in Names |-> NoInfo]
  /\ mod' = mod + 1
  /\ UNCHANGED <<sym, publist, cdatSegments, cdatSegNum, size, delta, came>>

(* CalcSegSizes, AddUpSegData *)
AddUp(t, s) ==
  LET at == CAlign(IF s.leader \in DOMAIN t.size THEN t.size[s.leader] ELSE 0, s.align)
      larger == [l \in DOMAIN t.size \cup {s.leader} |-> IF l = s.leader THEN at + s.length ELSE t.size[l]]
  IN  IF s.dead THEN [t EXCEPT !.delta = Append(@, 0)]
      ELSE [size |-> larger, delta |-> Append(t.delta, at)]
CalcSegSizes ==
  /\ ~Reading /\ delta = << >> /\ segs # << >>
  /\ LET t == FoldLeft(AddUp, [size |-> << >>, delta |-> << >>], segs)
     IN  size' = t.size /\ delta' = t.delta
  /\ UNCHANGED <<mod, sym, publist, segs, cdatSegments, cdatSegNum, infos, came>>

Next ==
  \/ \E n \in Names : PubDef(n)
  \/ \E n \in Names, c \in Sizes : ComDef(n, c[1], c[2])
  \/ \E n \in Names, s \in Selections : ComDat(n, s[1], s[2], s[3])
  \/ \E n \in Names, l \in More : Continue(n, l)
  \/ ResolveComdats
  \/ CalcSegSizes

Spec == Init /\ [][Next]_vars

-----------------------------------------------------------------------------
Symbol == [kind : Kinds, seg : Nat, mod : 0 .. MaxMods]
Leader == {<<"c_common">>, <<"explicit">>} \cup ({"far", "COMDAT_SEG"} \X Nat)
Segment == [of : Names, length : Nat, align : Nat, leader : Leader, rest : BOOLEAN, dead : BOOLEAN, data : Seq(Nat)]
Declaration == [of : Names, kind : Kinds \ {"undefined"}, mod : 1 .. MaxMods, size : Nat]
\* Symbols, segments and declarations are of the kinds above.
TypeOK ==
  /\ mod \in 1 .. MaxMods + 1
  /\ sym \in [Names -> Symbol]
  /\ publist \subseteq (1 .. MaxMods) \X Names
  /\ segs \in Seq(Segment)
  /\ cdatSegNum \in Nat /\ cdatSegments \in [Automatic -> 0 .. cdatSegNum]
  /\ infos \in [Names -> [seg : 0 .. Len(segs), pieces : Seq(Nat)]]
  /\ came \subseteq Declaration

(* What a name means: the first public symbol, without one the first COMDAT, *)
(* and without that the first communal symbol (DefineSymbol, ProcComdat,     *)
(* MakeCommunalSym), whatever order the modules bring them in.               *)
Said(n, kind) == {c \in came : c.of = n /\ c.kind = kind}
Means(n) ==
  IF Said(n, "public") # {} THEN "public"
  ELSE IF Said(n, "comdat") # {} THEN "comdat"
  ELSE IF Said(n, "communal") # {} THEN "communal" ELSE "undefined"
OneDefinition ==
  \A n \in Names :
    /\ sym[n].kind = Means(n)
    /\ Means(n) # "undefined" =>
         /\ \E c \in Said(n, Means(n)) : c.mod = sym[n].mod
         /\ \A c \in Said(n, Means(n)) : c.mod >= sym[n].mod

(* A symbol is in the list of the module that defines it and in no other:    *)
(* those lists are rings, and one that is in two breaks both                 *)
(* (c/ring.c:96).                                                            *)
InOneList == publist = {<<sym[n].mod, n>> : n \in {k \in Names : sym[k].kind # "undefined"}}

(* Of all the segments made for a name that of its definition stays, and no  *)
(* other (HashReplace, FinishComdat). Of a far communal symbol of 64K or     *)
(* more HashReplace forgets the segments after the first.                    *)
OnlyDefinitionStays ==
  /\ \A i \in DOMAIN segs : ~segs[i].rest => (segs[i].dead <=> sym[segs[i].of].seg # i)
  /\ \A n \in Names : Communal(n) => sym[n].seg \in DOMAIN segs /\ segs[sym[n].seg].of = n

(* A COMDAT has the data of all its records, and of no other module's        *)
(* (ProcComdat, StoreInfoData). There is room for a communal symbol as large *)
(* as any module takes it to be (MakeCommunalSym).                           *)
Total(lengths) == FoldLeft(+, 0, lengths)
Room(n) == Total([i \in DOMAIN segs |-> IF segs[i].of = n /\ ~segs[i].dead THEN segs[i].length ELSE 0])
ComdatWhole ==
  \A n \in Names : sym[n].kind = "comdat" =>
    \E c \in came :
      /\ c.of = n /\ c.mod = sym[n].mod /\ segs[sym[n].seg].length = c.size
      /\ c.mod < mod => Total(segs[sym[n].seg].data) = c.size
CommunalHolds ==
  \A n \in Names : sym[n].kind = "communal" => \A c \in Said(n, "communal") : Room(n) >= c.size

(* Segments with one name do not overlap (AddUpSegData).                     *)
PiecesApart ==
  \A i \in DOMAIN delta : ~segs[i].dead =>
    /\ delta[i] % 2 ^ segs[i].align = 0
    /\ delta[i] + segs[i].length <= size[segs[i].leader]
    /\ \A k \in 1 .. i - 1 : ~segs[k].dead /\ segs[k].leader = segs[i].leader =>
         delta[k] + segs[k].length <= delta[i]
=============================================================================
