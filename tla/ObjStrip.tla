------------------------------ MODULE ObjStrip ------------------------------
(****************************************************************************)
(* Dead code elimination, OPTION ELIMINATE (c/objstrip.c).                  *)
(*                                                                          *)
(* While pass 1 reads fixups and symbols in whatever order the modules have *)
(* them, the linker keeps a graph: a segment is refd, or it remembers the   *)
(* segments it would make refd (a.refs). A symbol that is not defined yet   *)
(* remembers the segments that refer to it (p.edges), or only that something *)
(* that stays does (SYM_DCE_REF). Data always stays. After pass 1 the code  *)
(* that is not refd is dead, and so are the symbols in it.                  *)
(*                                                                          *)
(* The model has OMF modules of a PE image. Left out are virtual function   *)
(* references (edges from symbols to symbols), aliases that are not         *)
(* defaults, FAR call comments that turn data into code, COMMON segments    *)
(* and incremental links.                                                   *)
(****************************************************************************)
EXTENDS Naturals

CONSTANTS Names,   \* the names of symbols
          Segs,    \* the segments there may be
          Nil,     \* no symbol, no segment
          Ways(_)  \* the records that may come for a name

ASSUME NilAssumption == Nil \notin Names /\ Nil \notin Segs /\ Names \cap Segs = {}

VARIABLES phase,  \* "pass1", "done", or "wild": a pointer was taken for what it is not
          class,  \* what each segment is, "none" before it is made
          mine,   \* the segments of the module that is being read
          sym,    \* the symbols
          graph,  \* the segments that are refd, and those the others would make refd
          dead,   \* the segments with isdead
          start,  \* a start address is known
          uses,   \* fixups seen, from code segments to symbols
          roots   \* symbols and segments that have to stay whatever code does

vars == <<phase, class, mine, sym, graph, dead, start, uses, roots>>

Code == {s \in Segs : class[s] = "code"}
Kinds == {"undefined", "lazy", "public", "absolute", "communal", "comdat", "imported", "alias"}

Symbol == [kind : Kinds, seg : Segs \cup {Nil}, from : SUBSET Segs, ref : BOOLEAN,
           def : Names \cup {Nil}, dead : BOOLEAN]
Undefined(s) == s.kind \in {"undefined", "lazy"}
Placed(s) == s.seg # Nil

(* Directives may have asked for symbols to be kept (AddReference, exports). *)
Init ==
  /\ phase = "pass1"
  /\ class = [s \in Segs |-> "none"]
  /\ mine = {} /\ dead = {} /\ uses = {}
  /\ start = FALSE
  /\ graph = [refd |-> {}, refs |-> [s \in Segs |-> {}]]
  /\ roots \in SUBSET Names
  /\ sym = [n \in Names |-> [kind |-> "undefined", seg |-> Nil, from |-> {}, ref |-> n \in roots,
                             def |-> Nil, dead |-> FALSE]]

-----------------------------------------------------------------------------
(* The graph *)

(* RefSeg marks a segment and chases through the segments it points to. The *)
(* segments it comes to are those in every set that is closed that way.     *)
Chase(g, t) ==
  {s \in Segs : \A S \in SUBSET Segs :
     t \in S /\ (\A a \in S \ g.refd : g.refs[a] \subseteq S) => s \in S}
\* Mutant: the edges that were followed stay.
RefSegKeepsEdges(g, t) == IF t \in g.refd THEN g ELSE [g EXCEPT !.refd = @ \cup Chase(g, t)]
RefSeg(g, t) ==
  IF t \in g.refd THEN g
  ELSE [refd |-> g.refd \cup Chase(g, t),
        refs |-> [s \in Segs |-> IF s \in Chase(g, t) \ g.refd THEN {} ELSE g.refs[s]]]

(* An edge to a segment that is refd already is of no use and not made. *)
Point(g, from, t) ==
  IF t \in g.refd THEN g
  ELSE [g EXCEPT !.refs = [s \in Segs |-> IF s \in from THEN @[s] \cup {t} ELSE @[s]]]

(* DefStripSym: the symbol gets its segment. What waited for it refers to   *)
(* the segment from now on.                                                 *)
\* Mutant: that a segment waiting for the symbol has become refd is not seen.
DefStripSymLate(g, s, t) == IF s.ref THEN RefSeg(g, t) ELSE Point(g, s.from \ g.refd, t)
\* Mutant: whatever refers to the symbol, the segment stays.
DefStripSymKeeps(g, s, t) == IF s.ref \/ s.from # {} THEN RefSeg(g, t) ELSE g
DefStripSym(g, s, t) ==
  IF s.ref \/ s.from \cap g.refd # {} THEN RefSeg(g, t) ELSE Point(g, s.from, t)

-----------------------------------------------------------------------------
(* References *)

Reading == phase = "pass1"

(* The segments SEGDEF records made: no record names those of COMDATs. *)
Communal(s) == s.kind \in {"communal", "comdat"}
SegNodes == {s \in mine \ dead : \A n \in Names : Communal(sym[n]) => sym[n].seg # s}

(* AddEdge( seg, sym ) for a fixup in code: what the symbol and what the    *)
(* graph remember of it.                                                    *)
AddEdgeSym(s, e) ==
  IF ~Undefined(e) THEN e
  ELSE IF s \in graph.refd THEN [e EXCEPT !.ref = TRUE, !.from = {}]
  ELSE [e EXCEPT !.from = @ \cup {s}]
AddEdgeGraph(s, n) ==
  LET t == sym[n].seg
  IN  IF ~Placed(sym[n]) \/ t = s THEN graph
      ELSE IF s \in graph.refd THEN RefSeg(graph, t)
      ELSE Point(graph, {s}, t)

(* DCERelocRef, from code *)
AddEdge(s, n) ==
  /\ Reading /\ s \in mine \cap Code
  /\ sym' = [sym EXCEPT ![n] = AddEdgeSym(s, @)]
  /\ graph' = AddEdgeGraph(s, n)
  /\ uses' = uses \cup {<<s, n>>}
  /\ UNCHANGED <<phase, class, mine, dead, start, roots>>

(* DataRef: what data, an export or a start address refers to stays. For an *)
(* absolute symbol it follows a null pointer.                               *)
DataRef(n) ==
  /\ phase' = IF sym[n].kind = "absolute" THEN "wild" ELSE phase
  /\ graph' = IF Placed(sym[n]) THEN RefSeg(graph, sym[n].seg) ELSE graph
  /\ roots' = roots \cup {n}
Flagged(s) == [s EXCEPT !.ref = TRUE]

(* DCERelocRef, from anything but code; MSExportKeyword *)
DataFixup(n) ==
  /\ Reading /\ mine \ Code # {}
  /\ DataRef(n)
  /\ sym' = [sym EXCEPT ![n] = Flagged(@)]
  /\ UNCHANGED <<class, mine, dead, start, uses>>

(* TraceFixup: a fixup that names a code segment, not a symbol, keeps it    *)
(* whatever holds the fixup.                                                *)
SegFixup(s, t) ==
  /\ Reading /\ s \in mine /\ t \in (SegNodes \cap Code) \ {s}
  /\ graph' = RefSeg(graph, t)
  /\ roots' = roots \cup {t}
  /\ UNCHANGED <<phase, class, mine, sym, dead, start, uses>>

(* ProcModuleEnd, SetStartSym: the first start address counts. *)
StartSeg(t) ==
  /\ Reading /\ ~start /\ t \in SegNodes \cap Code
  /\ start' = TRUE
  /\ graph' = RefSeg(graph, t)
  /\ roots' = roots \cup {t}
  /\ UNCHANGED <<phase, class, mine, sym, dead, uses>>
SetStartSym(n) ==
  /\ Reading /\ ~start
  /\ start' = TRUE
  /\ DataRef(n)
  /\ sym' = [sym EXCEPT ![n] = Flagged(@)]
  /\ UNCHANGED <<class, mine, dead, uses>>

-----------------------------------------------------------------------------
(* Definitions *)

SegDef(s, c) ==
  /\ Reading /\ class[s] = "none"
  /\ class' = [class EXCEPT ![s] = c]
  /\ mine' = mine \cup {s}
  /\ UNCHANGED <<phase, sym, graph, dead, start, uses, roots>>

Define(way, n) ==
  /\ Reading /\ way \in Ways(n)
  /\ UNCHANGED <<start, uses>>

(* HashReplace: a communal symbol or COMDAT that makes way for another      *)
(* definition takes its segment with it.                                    *)
HashReplace(s) == IF Communal(s) THEN dead \cup {s.seg} ELSE dead
Forgotten(s) == [s EXCEPT !.seg = Nil, !.from = {}]
Become(kind, s, t) == [s EXCEPT !.kind = kind, !.seg = t, !.from = {}]

(* DefineSymbol. A public symbol stays what it is, and the other definition *)
(* is reported.                                                             *)
Open(s) == s.kind \notin {"public", "absolute", "alias"}
Waiting(s) == IF Communal(s) THEN Forgotten(s) ELSE s
PubDef(n, t) ==
  /\ Define("public", n)
  /\ Open(sym[n]) /\ t \in SegNodes
  /\ dead' = HashReplace(sym[n])
  /\ graph' = DefStripSym(graph, Waiting(sym[n]), t)
  /\ sym' = [sym EXCEPT ![n] = Become("public", @, t)]
  /\ UNCHANGED <<phase, class, mine, roots>>
AbsDef(n) ==
  /\ Define("absolute", n)
  /\ Open(sym[n])
  /\ dead' = HashReplace(sym[n])
  /\ sym' = [sym EXCEPT ![n] = Become("absolute", @, Nil)]
  /\ UNCHANGED <<phase, class, mine, graph, roots>>

(* MakeCommunalSym, AllocCommunal: a segment of its own, of data *)
Made(t, c) == class[t] = "none" /\ class' = [class EXCEPT ![t] = c]
ComDef(n, t) ==
  /\ Define("communal", n)
  /\ Undefined(sym[n]) \/ sym[n].kind = "imported"
  /\ Made(t, "data")
  /\ sym' = [sym EXCEPT ![n] = Become("communal", @, t)]
  /\ UNCHANGED <<phase, mine, graph, dead, roots>>

(* ProcComdat, SetComdatSym: the first COMDAT counts, and none does once    *)
(* the symbol is public. Where a communal symbol has its segment the code   *)
(* COMDAT looks for edges.                                                  *)
ComDat(n, t, c) ==
  /\ Define("comdat", n)
  /\ Open(sym[n]) /\ sym[n].kind # "comdat"
  /\ Made(t, c)
  /\ mine' = mine \cup {t}
  /\ dead' = HashReplace(sym[n])
  /\ phase' = IF c = "code" /\ Communal(sym[n]) THEN "wild" ELSE phase
  /\ graph' = IF c = "code" THEN DefStripSym(graph, sym[n], t) ELSE graph
  /\ sym' = [sym EXCEPT ![n] = Become("comdat", @, t)]
  /\ UNCHANGED roots

(* MSImportKeyword, DefStripImpSym *)
Import(n) ==
  /\ Define("imported", n)
  /\ Undefined(sym[n])
  /\ sym' = [sym EXCEPT ![n] = Flagged(Become("imported", @, Nil))]
  /\ roots' = roots \cup {n}
  /\ UNCHANGED <<phase, class, mine, graph, dead>>

(* DefineLazyExtdef: the default has to stay, too. SymTab says which        *)
(* symbols can still get one; here any that is undefined may.                *)
Default(s, d) == [s EXCEPT !.kind = "lazy", !.def = d]
\* Mutant: the default may go.
LazyExtdefLoose(n, d) ==
  /\ Define("lazy", n)
  /\ sym[n].kind = "undefined" /\ n # d
  /\ sym' = [sym EXCEPT ![n] = Default(@, d)]
  /\ UNCHANGED <<phase, class, mine, graph, dead, roots>>
LazyExtdef(n, d) ==
  /\ Define("lazy", n)
  /\ sym[n].kind = "undefined" /\ n # d
  /\ DataRef(d)
  /\ sym' = [sym EXCEPT ![n] = Default(@, d), ![d] = Flagged(@)]
  /\ UNCHANGED <<class, mine, dead>>

EndModule ==
  /\ Reading /\ mine # {}
  /\ mine' = {}
  /\ UNCHANGED <<phase, class, sym, graph, dead, start, uses, roots>>

-----------------------------------------------------------------------------
(* After pass 1 *)

(* ConvertLazyRefs: what nobody defined is an alias of its default. *)
WeldSyms(s) == [s EXCEPT !.kind = "alias", !.seg = Nil, !.from = {}]
ConvertLazyRefs(s) == IF s.kind = "lazy" THEN WeldSyms(s) ELSE s

(* MarkDead: code goes, and in a PE image unwind tables *)
MarkDead == {s \in Segs \ graph.refd : class[s] \in {"code", "unwind"}}

(* KillUnrefedSyms: a symbol of a dead segment is dead, or an alias of the  *)
(* default it once had.                                                     *)
KillUnrefedSyms(s, gone) ==
  IF s.seg \notin gone THEN s
  ELSE IF s.def # Nil THEN WeldSyms(s)
  ELSE [s EXCEPT !.dead = TRUE]

(* ConvertLazyRefs, SetSegments *)
SetSegments ==
  /\ Reading
  /\ phase' = "done" /\ mine' = {}
  /\ dead' = dead \cup MarkDead
  /\ sym' = [n \in Names |-> KillUnrefedSyms(ConvertLazyRefs(sym[n]), dead')]
  /\ UNCHANGED <<class, graph, start, uses, roots>>

Next ==
  \/ \E s \in Segs, c \in {"code", "data", "unwind"} : SegDef(s, c)
  \/ \E s \in Segs, n \in Names : AddEdge(s, n)
  \/ \E n \in Names : DataFixup(n) \/ SetStartSym(n)
  \/ \E s, t \in Segs : SegFixup(s, t)
  \/ \E t \in Segs : StartSeg(t)
  \/ \E n \in Names, t \in Segs : PubDef(n, t) \/ ComDef(n, t)
  \/ \E n \in Names, t \in Segs, c \in {"code", "data"} : ComDat(n, t, c)
  \/ \E n \in Names : AbsDef(n) \/ Import(n)
  \/ \E n, d \in Names : LazyExtdef(n, d)
  \/ EndModule
  \/ SetSegments

Spec == Init /\ [][Next]_vars

-----------------------------------------------------------------------------
(* Properties *)

Graph == [refd : SUBSET Segs, refs : [Segs -> SUBSET Segs]]
(* The variables have their types, a segment that is refd points to none,   *)
(* and a communal symbol has a segment.                                     *)
TypeOK ==
  /\ phase \in {"pass1", "done", "wild"}
  /\ class \in [Segs -> {"none", "code", "data", "unwind"}]
  /\ mine \in SUBSET Segs /\ dead \in SUBSET Segs
  /\ sym \in [Names -> Symbol]
  /\ graph \in Graph
  /\ start \in BOOLEAN
  /\ uses \in SUBSET (Segs \X Names)
  /\ roots \in SUBSET (Names \cup Segs)
  /\ \A s \in graph.refd : graph.refs[s] = {}
  /\ \A n \in Names : Communal(sym[n]) => Placed(sym[n])

(* What the fixups mean, whatever order they were seen in: the segments     *)
(* that have to stay are those the roots are or lie in, and those a segment  *)
(* that has to stay refers to.                                              *)
Home(n) == {sym[n].seg} \ {Nil}
Calls(s) == UNION {Home(n) : n \in {m \in Names : <<s, m>> \in uses}}
Rooted == (roots \cap Segs) \cup UNION {Home(n) : n \in roots \cap Names}
Live == {t \in Segs : \A S \in SUBSET Segs :
           Rooted \subseteq S /\ (\A s \in S : Calls(s) \subseteq S) => t \in S}

(* Code that is used stays: no segment of code that an export, a start      *)
(* address or data needs, directly or through other code, is ever left      *)
(* unmarked, so none is eliminated.                                         *)
LiveCodeStays ==
  phase # "wild" => /\ Live \cap Code \subseteq graph.refd
                    /\ Live \cap Code \cap dead = {}

(* Only code that is used stays: the marks do not depend on the order in    *)
(* which the modules define and use symbols, and what nothing needs goes.   *)
UnusedCodeGoes ==
  /\ phase # "wild" => graph.refd \cap Code \subseteq Live
  /\ phase = "done" => Code \ Live \subseteq dead

(* What a name means once the defaults are in place *)
Meaning(n) ==
  {m \in Names : \A S \in SUBSET Names :
     n \in S /\ (\A a \in S \cap Names : sym[a].kind = "alias" => sym[a].def \in S) => m \in S}
(* No fixup that is left refers to what was eliminated: neither a symbol    *)
(* that data or code that stays refers to, nor the default it fell back on, *)
(* is dead.                                                                 *)
NoDanglingFixup ==
  phase = "done" =>
    \A n \in {u[2] : u \in {v \in uses : v[1] \notin dead}} \cup (roots \cap Names) :
      \A m \in Meaning(n) : ~sym[m].dead
=============================================================================
