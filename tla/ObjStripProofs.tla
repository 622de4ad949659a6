--------------------------- MODULE ObjStripProofs ---------------------------
(****************************************************************************)
(* Proofs about ObjStrip: whatever the modules hold and in whatever order,  *)
(* code that is used is not eliminated, code that nothing needs is, and     *)
(* what stays refers to nothing that went, as long as no COMDAT or communal *)
(* symbol is replaced by a public one.                                      *)
(*                                                                          *)
(* The inductive invariant says of every fixup that was seen where it is    *)
(* remembered: at the segment that holds it, as long as that is not refd,    *)
(* at the symbol, as long as that is not defined, or nowhere, because the   *)
(* segment it leads to is refd already. The graph only ever Grows, and what *)
(* is remembered in a graph is remembered in one that has grown.             *)
(*                                                                          *)
(* The second half is the converse: what the graph and the symbols remember *)
(* are fixups that were seen. So RefSeg comes to nothing that is not Live,  *)
(* and it remains to show that what is Live once stays so: uses and roots   *)
(* only grow, and a symbol stays in the segment it has.                     *)
(****************************************************************************)
EXTENDS ObjStrip, TLAPS

(* No definition takes the place of a COMDAT or a communal symbol. *)
Steady == \A n \in Names : {"communal", "comdat"} \cap Ways(n) # {} => {"public", "absolute"} \cap Ways(n) = {}

GraphOK(g) == g \in Graph /\ \A s \in g.refd : g.refs[s] = {}

(* What a segment was to make refd is refd when it is, and is not forgotten before. *)
Grows(g, h) ==
  /\ GraphOK(h)
  /\ g.refd \subseteq h.refd
  /\ \A s \in Segs : g.refs[s] \subseteq (IF s \in h.refd THEN h.refd ELSE h.refs[s])

-----------------------------------------------------------------------------
(* The operators of the graph *)

LEMMA GrowsItself == ASSUME NEW g, GraphOK(g) PROVE Grows(g, g)
BY DEF Grows, GraphOK, Graph

(* RefSeg marks the segment it is called for, and all that it would have made refd. *)
LEMMA RefSegGrows ==
  ASSUME NEW g, GraphOK(g), NEW t \in Segs
  PROVE  Grows(g, RefSeg(g, t)) /\ t \in RefSeg(g, t).refd
<1>1. CASE t \in g.refd
  BY <1>1, GrowsItself DEF RefSeg
<1>2. CASE t \notin g.refd
  <2> DEFINE C == Chase(g, t)
             h == RefSeg(g, t)
  <2>1. C \subseteq Segs /\ t \in C
    BY DEF Chase
  <2>2. ASSUME NEW a \in C \ g.refd PROVE g.refs[a] \subseteq C
    <3> SUFFICES ASSUME NEW s \in g.refs[a] PROVE s \in C
      OBVIOUS
    <3>1. s \in Segs /\ a \in Segs BY <2>1 DEF GraphOK, Graph
    <3>2. ASSUME NEW S \in SUBSET Segs, t \in S, \A b \in S \ g.refd : g.refs[b] \subseteq S
          PROVE  s \in S
      <4>1. a \in S BY <3>2 DEF Chase
      <4> QED BY <4>1, <2>2, <3>2
    <3> QED BY <3>1, <3>2 DEF Chase
  <2>3. h = [refd |-> g.refd \cup C, refs |-> [s \in Segs |-> IF s \in C \ g.refd THEN {} ELSE g.refs[s]]]
    BY <1>2 DEF RefSeg
  <2>4. GraphOK(h)
    BY <2>1, <2>3 DEF GraphOK, Graph
  <2>5. ASSUME NEW s \in Segs
        PROVE  g.refs[s] \subseteq (IF s \in h.refd THEN h.refd ELSE h.refs[s])
    BY <2>2, <2>3 DEF GraphOK, Graph
  <2> QED BY <2>1, <2>3, <2>4, <2>5 DEF Grows
<1> QED BY <1>1, <1>2

LEMMA PointGrows ==
  ASSUME NEW g, GraphOK(g), NEW F \in SUBSET Segs, F \cap g.refd = {}, NEW t \in Segs
  PROVE  /\ Grows(g, Point(g, F, t))
         /\ t \in Point(g, F, t).refd
            \/ (\A s \in F : s \notin Point(g, F, t).refd /\ t \in Point(g, F, t).refs[s])
BY GrowsItself DEF Point, Grows, GraphOK, Graph

(* After DefStripSym nothing that waited for the symbol has forgotten it. *)
LEMMA DefStripSymGrows ==
  ASSUME NEW g, GraphOK(g), NEW s \in Symbol, NEW t \in Segs
  PROVE  LET h == DefStripSym(g, s, t)
         IN  /\ Grows(g, h)
             /\ s.ref => t \in h.refd
             /\ \A a \in s.from : t \in h.refd \/ (a \notin h.refd /\ t \in h.refs[a])
<1>1. s.from \in SUBSET Segs BY DEF Symbol
<1>2. CASE s.ref \/ s.from \cap g.refd # {}
  BY <1>2, RefSegGrows DEF DefStripSym
<1>3. CASE ~(s.ref \/ s.from \cap g.refd # {})
  <2>1. DefStripSym(g, s, t) = Point(g, s.from, t) BY <1>3 DEF DefStripSym
  <2> QED BY <1>1, <1>3, <2>1, PointGrows
<1> QED BY <1>2, <1>3

-----------------------------------------------------------------------------
(* The invariant *)

(* What is known of one symbol, and of a fixup in segment a to it, with the *)
(* classes c and the graph g *)
SymFine(c, g, s, n) ==
  /\ s.seg # Nil => c[s.seg] # "none"
  /\ Communal(s) => {"public", "absolute"} \cap Ways(n) = {}
  /\ s.kind = "communal" => s.seg # Nil /\ c[s.seg] = "data"
  /\ s.kind = "imported" => s.ref
  /\ Undefined(s) => s.seg = Nil
  /\ s.ref /\ s.seg # Nil /\ c[s.seg] # "data" => s.seg \in g.refd
EdgeFine(c, g, s, a) ==
  /\ s.seg # Nil /\ c[s.seg] # "data" =>
       s.seg = a \/ s.seg \in g.refd \/ (a \notin g.refd /\ s.seg \in g.refs[a])
  /\ Undefined(s) => s.ref \/ a \in s.from

TypesFine ==
  /\ phase \in {"pass1", "done", "wild"}
  /\ class \in [Segs -> {"none", "code", "data", "unwind"}]
  /\ mine \in SUBSET Segs /\ dead \in SUBSET Segs
  /\ sym \in [Names -> Symbol]
  /\ GraphOK(graph)
  /\ start \in BOOLEAN
  /\ uses \in SUBSET (Segs \X Names)
  /\ roots \in SUBSET (Names \cup Segs)
  /\ \A n \in Names : Communal(sym[n]) => Placed(sym[n])

Marks ==
  /\ \A t \in roots \cap Segs : t \in graph.refd
  /\ \A n \in roots \cap Names : sym[n].ref
  /\ \A s \in mine : class[s] # "none"
  /\ \A s \in dead : class[s] # "none" /\ (phase = "pass1" => class[s] = "data")
                     /\ (class[s] # "data" => s \notin graph.refd)
  /\ \A n \in Names : SymFine(class, graph, sym[n], n)
  /\ \A u \in uses : class[u[1]] = "code" /\ EdgeFine(class, graph, sym[u[2]], u[1])

IInv == TypesFine /\ (phase # "wild" => Marks)

LEMMA TypesAreTypeOK == TypesFine <=> TypeOK
BY DEF TypesFine, TypeOK, GraphOK

(* A segment that is made changes the class of no other. *)
ClassGrows(c, d) == \A s \in Segs : c[s] # "none" => d[s] = c[s]

LEMMA FineStays ==
  ASSUME NEW c, NEW d, ClassGrows(c, d),
         NEW g, GraphOK(g), NEW h, Grows(g, h),
         NEW s \in Symbol, NEW n \in Names, SymFine(c, g, s, n)
  PROVE  SymFine(d, h, s, n)
BY DEF SymFine, Grows, ClassGrows, Symbol, Communal, Undefined

LEMMA EdgeStays ==
  ASSUME NEW c, NEW d, ClassGrows(c, d),
         NEW g, GraphOK(g), NEW h, Grows(g, h),
         NEW s \in Symbol, NEW n \in Names, SymFine(c, g, s, n), NEW a \in Segs, EdgeFine(c, g, s, a)
  PROVE  EdgeFine(d, h, s, a)
BY DEF SymFine, EdgeFine, Grows, GraphOK, Graph, ClassGrows, Symbol, Undefined

(* It is enough to look at the symbols N that a step changes. *)
LEMMA OthersStay ==
  ASSUME TypesFine, Marks, TypesFine',
         ClassGrows(class, class'), Grows(graph, graph'),
         NEW N \in SUBSET Names,
         \A m \in Names \ N : sym'[m] = sym[m],
         \A n \in N : SymFine(class', graph', sym'[n], n),
         \A u \in uses' : u \in uses \/ u[2] \in N,
         \A n \in N, a \in Segs : <<a, n>> \in uses' => class'[a] = "code" /\ EdgeFine(class', graph', sym'[n], a),
         \A t \in roots' \cap Segs : t \in graph'.refd,
         \A m \in roots' \cap Names : sym'[m].ref,
         \A s \in mine' : class'[s] # "none",
         \A s \in dead' : class'[s] = "data"
  PROVE  Marks'
<1>1. ASSUME NEW m \in Names PROVE SymFine(class', graph', sym'[m], m)
  <2>1. CASE m \in N BY <2>1
  <2>2. CASE m \notin N
    <3>1. SymFine(class, graph, sym[m], m) BY DEF Marks
    <3>2. sym[m] \in Symbol /\ GraphOK(graph) BY DEF TypesFine
    <3>3. SymFine(class', graph', sym[m], m) BY <3>1, <3>2, FineStays
    <3> QED BY <2>2, <3>3
  <2> QED BY <2>1, <2>2
<1>2. ASSUME NEW u \in uses' PROVE class'[u[1]] = "code" /\ EdgeFine(class', graph', sym'[u[2]], u[1])
  <2>1. PICK a \in Segs, m \in Names : u = <<a, m>> BY DEF TypesFine
  <2>2. CASE m \in N BY <2>1, <2>2
  <2>3. CASE m \notin N
    <3>1. class[a] = "code" /\ EdgeFine(class, graph, sym[m], a) BY <2>1, <2>3 DEF Marks
    <3>2. class'[a] = "code" BY <3>1 DEF ClassGrows
    <3>3. SymFine(class, graph, sym[m], m) BY DEF Marks
    <3>4. sym[m] \in Symbol /\ GraphOK(graph) BY DEF TypesFine
    <3>5. EdgeFine(class', graph', sym[m], a) BY <3>1, <3>3, <3>4, EdgeStays
    <3> QED BY <2>1, <2>3, <3>2, <3>5
  <2> QED BY <2>2, <2>3
<1>3. ASSUME NEW s \in dead'
      PROVE  class'[s] # "none" /\ (phase' = "pass1" => class'[s] = "data")
             /\ (class'[s] # "data" => s \notin graph'.refd)
  OBVIOUS
<1> QED BY <1>1, <1>2, <1>3 DEF Marks

LEMMA SymChanges ==
  ASSUME TypesFine, Marks, TypesFine',
         ClassGrows(class, class'), Grows(graph, graph'),
         NEW n \in Names, NEW new, sym' = [sym EXCEPT ![n] = new],
         SymFine(class', graph', new, n),
         \A u \in uses' : u \in uses \/ u[2] = n,
         \A a \in Segs : <<a, n>> \in uses' => class'[a] = "code" /\ EdgeFine(class', graph', new, a),
         \A t \in roots' \cap Segs : t \in graph'.refd,
         \A m \in roots' \cap Names : m \in roots \/ m = n,
         n \in roots' \/ sym[n].ref => new.ref,
         \A s \in mine' : class'[s] # "none",
         \A s \in dead' : class'[s] = "data"
  PROVE  Marks'
<1> DEFINE N == {n}
<1>1. N \in SUBSET Names OBVIOUS
<1>2. sym'[n] = new /\ \A m \in Names \ N : sym'[m] = sym[m] BY DEF TypesFine
<1>3. \A m \in N : SymFine(class', graph', sym'[m], m) BY <1>2
<1>4. \A u \in uses' : u \in uses \/ u[2] \in N OBVIOUS
<1>5. \A m \in N, a \in Segs : <<a, m>> \in uses' => class'[a] = "code" /\ EdgeFine(class', graph', sym'[m], a)
  BY <1>2
<1>6. \A m \in roots' \cap Names : sym'[m].ref BY <1>2 DEF Marks
<1> HIDE DEF N
<1> QED BY <1>1, <1>2, <1>3, <1>4, <1>5, <1>6, OthersStay, Zenon

LEMMA OneChanges ==
  ASSUME TypesFine, Marks, TypesFine',
         class' = class, mine' = mine, dead' = dead, phase = "pass1",
         Grows(graph, graph'),
         NEW n \in Names, NEW new, sym' = [sym EXCEPT ![n] = new],
         SymFine(class, graph', new, n),
         \A u \in uses' : u \in uses \/ u[2] = n,
         \A a \in Segs : <<a, n>> \in uses' => class[a] = "code" /\ EdgeFine(class, graph', new, a),
         \A t \in roots' \cap Segs : t \in graph'.refd,
         \A m \in roots' \cap Names : m \in roots \/ m = n,
         n \in roots' \/ sym[n].ref => new.ref
  PROVE  Marks'
<1>1. ClassGrows(class, class') BY DEF ClassGrows
<1>2. \A s \in mine' : class'[s] # "none" BY DEF Marks
<1>3. \A s \in dead' : class'[s] = "data" BY DEF Marks
<1>4. SymFine(class', graph', new, n) OBVIOUS
<1>5. \A a \in Segs : <<a, n>> \in uses' => class'[a] = "code" /\ EdgeFine(class', graph', new, a) OBVIOUS
<1> QED BY <1>1, <1>2, <1>3, <1>4, <1>5, SymChanges, Zenon

LEMMA NoneChanges ==
  ASSUME TypesFine, Marks, TypesFine',
         ClassGrows(class, class'), Grows(graph, graph'),
         sym' = sym, uses' = uses,
         \A t \in roots' \cap Segs : t \in graph'.refd,
         roots' \cap Names = roots \cap Names,
         \A s \in mine' : class'[s] # "none",
         \A s \in dead' : class'[s] = "data"
  PROVE  Marks'
<1> DEFINE N == {}
<1>1. \A m \in roots' \cap Names : sym'[m].ref BY DEF Marks
<1>2. N \in SUBSET Names OBVIOUS
<1>3. \A m \in Names \ N : sym'[m] = sym[m] OBVIOUS
<1>4. \A n \in N : SymFine(class', graph', sym'[n], n) OBVIOUS
<1>5. \A u \in uses' : u \in uses \/ u[2] \in N OBVIOUS
<1>6. \A n \in N, a \in Segs : <<a, n>> \in uses' => class'[a] = "code" /\ EdgeFine(class', graph', sym'[n], a)
  OBVIOUS
<1> HIDE DEF N
<1> QED BY <1>1, <1>2, <1>3, <1>4, <1>5, <1>6, OthersStay, Zenon

-----------------------------------------------------------------------------
(* Types *)

LEMMA RefSegOK == ASSUME NEW g, GraphOK(g), NEW t \in Segs PROVE GraphOK(RefSeg(g, t))
BY RefSegGrows DEF Grows

LEMMA DataRefTypes ==
  ASSUME TypesFine, NEW n \in Names, DataRef(n)
  PROVE  /\ phase' \in {phase, "wild"}
         /\ GraphOK(graph')
         /\ Grows(graph, graph')
         /\ Placed(sym[n]) => sym[n].seg \in graph'.refd
         /\ roots' = roots \cup {n}
<1>1. sym[n] \in Symbol /\ GraphOK(graph) BY DEF TypesFine
<1>2. Placed(sym[n]) => sym[n].seg \in Segs BY <1>1 DEF Symbol, Placed
<1> QED BY <1>1, <1>2, RefSegGrows, GrowsItself DEF DataRef, Grows

LEMMA RecordTypes ==
  ASSUME NEW s \in Symbol
  PROVE  /\ Flagged(s) \in Symbol /\ Forgotten(s) \in Symbol /\ WeldSyms(s) \in Symbol
         /\ \A kind \in Kinds, t \in Segs \cup {Nil} : Become(kind, s, t) \in Symbol
         /\ \A d \in Names : Default(s, d) \in Symbol
         /\ \A a \in Segs : AddEdgeSym(a, s) \in Symbol
BY DEF Flagged, Forgotten, WeldSyms, Become, Default, AddEdgeSym, Symbol, Kinds

LEMMA HashReplaceTypes ==
  ASSUME TypesFine, NEW n \in Names PROVE HashReplace(sym[n]) \in SUBSET Segs
BY DEF HashReplace, TypesFine, Symbol, Placed

LEMMA TypesStay == ASSUME TypesFine, [Next]_vars PROVE TypesFine'
<1> USE NilAssumption
<1> DEFINE Placings(f) == \A n \in Names : Communal(f[n]) => Placed(f[n])
<1>0. /\ \A n \in Names : sym[n] \in Symbol
      /\ GraphOK(graph)
      /\ Placings(sym)
  BY DEF TypesFine
<1>1. CASE UNCHANGED vars
  BY <1>1 DEF vars, TypesFine, GraphOK
<1>2. ASSUME NEW s \in Segs, NEW c \in {"code", "data", "unwind"}, SegDef(s, c) PROVE TypesFine'
  BY <1>2 DEF SegDef, TypesFine, Reading
<1>3. ASSUME NEW s \in Segs, NEW n \in Names, AddEdge(s, n) PROVE TypesFine'
  <2>2. sym' \in [Names -> Symbol] /\ Placings(sym')
    <3>1. AddEdgeSym(s, sym[n]) \in Symbol BY <1>0, RecordTypes
    <3>2. Communal(AddEdgeSym(s, sym[n])) => Placed(AddEdgeSym(s, sym[n]))
      BY <1>0 DEF AddEdgeSym, Symbol, Communal, Placed
    <3> QED BY <1>3, <1>0, <3>1, <3>2 DEF AddEdge, TypesFine
  <2>3. GraphOK(graph')
    <3> DEFINE t == sym[n].seg
    <3>1. CASE ~Placed(sym[n]) \/ t = s
      BY <1>0, <1>3, <3>1 DEF AddEdge, AddEdgeGraph
    <3>2. CASE Placed(sym[n]) /\ t # s /\ s \in graph.refd
      <4>1. t \in Segs BY <1>0, <3>2 DEF Symbol, Placed
      <4> QED BY <1>0, <1>3, <3>2, <4>1, RefSegOK DEF AddEdge, AddEdgeGraph
    <3>3. CASE Placed(sym[n]) /\ t # s /\ s \notin graph.refd
      <4>1. t \in Segs BY <1>0, <3>3 DEF Symbol, Placed
      <4>2. Grows(graph, Point(graph, {s}, t))
        BY <1>0, <3>3, <4>1, PointGrows
      <4>3. graph' = Point(graph, {s}, t) BY <1>3, <3>3 DEF AddEdge, AddEdgeGraph
      <4> QED BY <4>2, <4>3 DEF Grows
    <3> QED BY <3>1, <3>2, <3>3
  <2> QED BY <1>3, <2>2, <2>3 DEF AddEdge, TypesFine, Reading
<1>4. ASSUME NEW n \in Names, DataFixup(n) \/ SetStartSym(n) PROVE TypesFine'
  <2>1. DataRef(n) BY <1>4 DEF DataFixup, SetStartSym
  <2>2. sym' = [sym EXCEPT ![n] = Flagged(sym[n])] BY <1>4 DEF DataFixup, SetStartSym
  <2>3. sym' \in [Names -> Symbol]
    BY <1>0, <2>2, RecordTypes DEF TypesFine
  <2>4. Placings(sym')
    BY <1>0, <2>2 DEF Flagged, TypesFine, Symbol, Communal, Placed
  <2> QED BY <1>4, <2>1, <2>3, <2>4, DataRefTypes DEF DataFixup, SetStartSym, TypesFine, Reading
<1>5. ASSUME NEW s \in Segs, NEW t \in Segs, SegFixup(s, t) PROVE TypesFine'
  BY <1>5, RefSegOK DEF SegFixup, TypesFine, Reading
<1>6. ASSUME NEW t \in Segs, StartSeg(t) PROVE TypesFine'
  BY <1>6, RefSegOK DEF StartSeg, TypesFine, Reading
<1>7. ASSUME NEW n \in Names, NEW t \in Segs, PubDef(n, t) PROVE TypesFine'
  <2>2. sym' \in [Names -> Symbol] /\ Placings(sym')
    <3>1. Become("public", sym[n], t) \in Symbol BY <1>0, RecordTypes DEF Kinds
    <3> QED BY <1>7, <1>0, <3>1 DEF PubDef, TypesFine, Become, Communal, Placed
  <2>3. GraphOK(graph')
    <3>1. Waiting(sym[n]) \in Symbol BY <1>0, RecordTypes DEF Waiting
    <3> QED BY <1>7, <1>0, <3>1, DefStripSymGrows DEF PubDef, Grows
  <2>4. dead' \in SUBSET Segs BY <1>7, HashReplaceTypes DEF PubDef
  <2> QED BY <1>7, <2>2, <2>3, <2>4 DEF PubDef, Define, TypesFine, Reading
<1>8. ASSUME NEW n \in Names, AbsDef(n) PROVE TypesFine'
  <2>1. Become("absolute", sym[n], Nil) \in Symbol BY <1>0, RecordTypes DEF Kinds
  <2>2. sym' \in [Names -> Symbol] /\ Placings(sym')
    BY <1>8, <1>0, <2>1 DEF AbsDef, TypesFine, Become, Communal, Placed
  <2>3. dead' \in SUBSET Segs BY <1>8, HashReplaceTypes DEF AbsDef
  <2> QED BY <1>8, <2>2, <2>3 DEF AbsDef, Define, TypesFine, Reading
<1>9. ASSUME NEW n \in Names, NEW t \in Segs, ComDef(n, t) PROVE TypesFine'
  <2>1. Become("communal", sym[n], t) \in Symbol BY <1>0, RecordTypes DEF Kinds
  <2>2. sym' \in [Names -> Symbol] /\ Placings(sym')
    BY <1>9, <1>0, <2>1 DEF ComDef, TypesFine, Become, Communal, Placed, Symbol
  <2> QED BY <1>9, <2>2 DEF ComDef, Made, Define, TypesFine, Reading
<1>10. ASSUME NEW n \in Names, NEW t \in Segs, NEW c \in {"code", "data"}, ComDat(n, t, c) PROVE TypesFine'
  <2>1. Become("comdat", sym[n], t) \in Symbol BY <1>0, RecordTypes DEF Kinds
  <2>2. sym' \in [Names -> Symbol] /\ Placings(sym')
    BY <1>10, <1>0, <2>1 DEF ComDat, TypesFine, Become, Communal, Placed, Symbol
  <2>3. dead' \in SUBSET Segs BY <1>10, HashReplaceTypes DEF ComDat
  <2>4. GraphOK(graph') BY <1>10, <1>0, DefStripSymGrows DEF ComDat, Grows
  <2> QED BY <1>10, <2>2, <2>3, <2>4 DEF ComDat, Made, Define, TypesFine, Reading
<1>11. ASSUME NEW n \in Names, Import(n) PROVE TypesFine'
  <2>1. Flagged(Become("imported", sym[n], Nil)) \in Symbol BY <1>0, RecordTypes DEF Kinds
  <2>2. sym' \in [Names -> Symbol] /\ Placings(sym')
    BY <1>11, <1>0, <2>1 DEF Import, TypesFine, Flagged, Become, Communal, Placed, Symbol
  <2> QED BY <1>11, <2>2 DEF Import, Define, TypesFine, Reading
<1>12. ASSUME NEW n \in Names, NEW d \in Names, LazyExtdef(n, d) PROVE TypesFine'
  <2>1. DataRef(d) BY <1>12 DEF LazyExtdef
  <2>2. sym' \in [Names -> Symbol] /\ Placings(sym')
    <3>1. Default(sym[n], d) \in Symbol /\ Flagged(sym[d]) \in Symbol BY <1>0, RecordTypes
    <3>2. ~Communal(Default(sym[n], d)) /\ (Communal(Flagged(sym[d])) => Placed(Flagged(sym[d])))
      BY <1>0 DEF Default, Flagged, Communal, Placed, Symbol
    <3> QED BY <1>12, <1>0, <3>1, <3>2 DEF LazyExtdef, TypesFine
  <2> QED BY <1>12, <2>1, <2>2, DataRefTypes DEF LazyExtdef, Define, TypesFine, Reading
<1>13. CASE EndModule
  BY <1>13 DEF EndModule, TypesFine, Reading
<1>14. CASE SetSegments
  <2>1. ASSUME NEW n \in Names
        PROVE  /\ ConvertLazyRefs(sym[n]) \in Symbol
               /\ Communal(ConvertLazyRefs(sym[n])) => Placed(ConvertLazyRefs(sym[n]))
    BY <1>0 DEF ConvertLazyRefs, WeldSyms, Symbol, Communal, Placed, Kinds
  <2>2. ASSUME NEW s \in Symbol, Communal(s) => Placed(s), NEW D
        PROVE  /\ KillUnrefedSyms(s, D) \in Symbol
               /\ Communal(KillUnrefedSyms(s, D)) => Placed(KillUnrefedSyms(s, D))
    BY <2>2 DEF KillUnrefedSyms, WeldSyms, Symbol, Communal, Placed, Kinds
  <2>3. sym' \in [Names -> Symbol] /\ Placings(sym')
    BY <1>14, <2>1, <2>2 DEF SetSegments
  <2>4. dead' \in SUBSET Segs BY <1>14 DEF SetSegments, MarkDead, TypesFine
  <2> QED BY <1>14, <2>3, <2>4 DEF SetSegments, TypesFine, Reading
<1> QED
  BY <1>1, <1>2, <1>3, <1>4, <1>5, <1>6, <1>7, <1>8, <1>9, <1>10, <1>11, <1>12, <1>13, <1>14 DEF Next

-----------------------------------------------------------------------------
(* Every step keeps the marks *)

LEMMA DataRefRoots ==
  ASSUME TypesFine, Marks, NEW n \in Names, DataRef(n)
  PROVE  \A t \in roots' \cap Segs : t \in graph'.refd
BY DataRefTypes, NilAssumption DEF Marks, Grows

LEMMA FlaggedFine ==
  ASSUME TypesFine, Marks, NEW n \in Names, DataRef(n)
  PROVE  /\ SymFine(class, graph', Flagged(sym[n]), n)
         /\ \A a \in Segs : <<a, n>> \in uses => class[a] = "code" /\ EdgeFine(class, graph', Flagged(sym[n]), a)
<1>1. sym[n] \in Symbol /\ GraphOK(graph) /\ ClassGrows(class, class) BY DEF TypesFine, ClassGrows
<1>2. Grows(graph, graph') /\ (sym[n].seg # Nil => sym[n].seg \in graph'.refd)
  BY DataRefTypes DEF Placed
<1>3. SymFine(class, graph, sym[n], n) BY DEF Marks
<1>4. SymFine(class, graph', sym[n], n) BY <1>1, <1>2, <1>3, FineStays
<1>5. SymFine(class, graph', Flagged(sym[n]), n)
  BY <1>1, <1>2, <1>4 DEF SymFine, Flagged, Communal, Symbol, Undefined
<1>6. ASSUME NEW a \in Segs, <<a, n>> \in uses
      PROVE  class[a] = "code" /\ EdgeFine(class, graph', Flagged(sym[n]), a)
  <2>1. class[a] = "code" /\ EdgeFine(class, graph, sym[n], a) BY <1>6 DEF Marks
  <2> QED BY <1>1, <1>2, <2>1 DEF EdgeFine, Flagged, Symbol, Undefined
<1> QED BY <1>5, <1>6

(* A definition in code that nothing took the edges of *)
LEMMA DefinedFine ==
  ASSUME TypesFine, Marks, NEW n \in Names, ~Communal(sym[n]), sym[n].kind \notin {"absolute", "alias", "public"},
         NEW c, ClassGrows(class, c), NEW t \in Segs, c[t] # "none",
         NEW kind \in {"public", "comdat", "communal"},
         kind # "public" => {"public", "absolute"} \cap Ways(n) = {},
         kind = "communal" => c[t] = "data",
         NEW h, h = DefStripSym(graph, sym[n], t) \/ (c[t] = "data" /\ h = graph)
  PROVE  /\ Grows(graph, h)
         /\ SymFine(c, h, Become(kind, sym[n], t), n)
         /\ \A a \in Segs : <<a, n>> \in uses => c[a] = "code" /\ EdgeFine(c, h, Become(kind, sym[n], t), a)
<1> DEFINE s == sym[n]
           new == Become(kind, s, t)
<1>1. s \in Symbol /\ GraphOK(graph) BY DEF TypesFine
<1>2. Grows(graph, h)
  BY <1>1, DefStripSymGrows, GrowsItself
<1>3. c[t] # "data" => /\ s.ref => t \in h.refd
                       /\ \A a \in s.from : t \in h.refd \/ (a \notin h.refd /\ t \in h.refs[a])
  BY <1>1, DefStripSymGrows
<1>4. new.kind = kind /\ new.seg = t /\ new.ref = s.ref
  BY <1>1 DEF Become, Symbol
<1>5. t # Nil BY NilAssumption
<1>6. SymFine(c, h, new, n)
  BY <1>3, <1>4, <1>5 DEF SymFine, Communal, Undefined
<1>7. ASSUME NEW a \in Segs, <<a, n>> \in uses PROVE c[a] = "code" /\ EdgeFine(c, h, new, a)
  <2>1. class[a] = "code" /\ EdgeFine(class, graph, s, a) /\ SymFine(class, graph, s, n) BY <1>7 DEF Marks
  <2>2. c[a] = "code" BY <2>1 DEF ClassGrows
  <2>3. s.ref \/ a \in s.from
    BY <1>1, <2>1 DEF EdgeFine, SymFine, Undefined, Communal, Symbol, Kinds
  <2> QED BY <1>3, <1>4, <2>2, <2>3 DEF EdgeFine, Undefined
<1> QED BY <1>2, <1>6, <1>7

LEMMA MarksStay ==
  ASSUME Steady, TypesFine, TypesFine', Marks, Next, phase' # "wild"
  PROVE  Marks'
<1> USE NilAssumption
<1>0. /\ \A n \in Names : sym[n] \in Symbol
      /\ GraphOK(graph) /\ Grows(graph, graph)
      /\ ClassGrows(class, class)
  BY GrowsItself DEF TypesFine, ClassGrows
<1>1. ASSUME NEW s \in Segs, NEW c \in {"code", "data", "unwind"}, SegDef(s, c) PROVE Marks'
  <2>1. ClassGrows(class, class') /\ class'[s] # "none"
    BY <1>1 DEF SegDef, ClassGrows, TypesFine
  <2>2. \A d \in mine' : class'[d] # "none"
    BY <1>1, <2>1 DEF SegDef, Marks, ClassGrows, TypesFine
  <2>3. \A d \in dead' : class'[d] = "data"
    BY <1>1, <2>1 DEF SegDef, Marks, ClassGrows, TypesFine, Reading
  <2>4. Grows(graph, graph') /\ graph' = graph /\ sym' = sym /\ uses' = uses /\ roots' = roots
    BY <1>0, <1>1 DEF SegDef
  <2> QED BY <2>1, <2>2, <2>3, <2>4, NoneChanges DEF Marks
<1>2. ASSUME NEW s \in Segs, NEW n \in Names, AddEdge(s, n) PROVE Marks'
  <2> DEFINE e == sym[n]
             new == AddEdgeSym(s, e)
  <2>1. class' = class /\ mine' = mine /\ dead' = dead /\ roots' = roots /\ uses' = uses \cup {<<s, n>>}
        /\ sym' = [sym EXCEPT ![n] = new] /\ class[s] = "code" /\ phase = "pass1"
    BY <1>2 DEF AddEdge, Code, Reading
  <2>2. sym'[n] = new /\ \A m \in Names \ {n} : sym'[m] = sym[m]
    BY <2>1 DEF TypesFine
  <2>3. /\ new.kind = e.kind /\ new.seg = e.seg
        /\ e.ref => new.ref
        /\ ~Undefined(e) => new = e
        /\ Undefined(e) => /\ new.ref \/ s \in new.from
                           /\ \A a \in e.from : new.ref \/ a \in new.from
    BY <1>0 DEF AddEdgeSym, Symbol
  <2>4. SymFine(class, graph, e, n) BY DEF Marks
  <2>5. /\ Grows(graph, graph')
        /\ Placed(e) => e.seg = s \/ e.seg \in graph'.refd \/ (s \notin graph'.refd /\ e.seg \in graph'.refs[s])
    <3>1. CASE ~Placed(e) \/ e.seg = s
      BY <1>0, <1>2, <3>1 DEF AddEdge, AddEdgeGraph
    <3>2. CASE Placed(e) /\ e.seg # s
      <4>1. e.seg \in Segs BY <1>0, <3>2 DEF Symbol, Placed
      <4>2. CASE s \in graph.refd
        BY <1>0, <1>2, <3>2, <4>1, <4>2, RefSegGrows DEF AddEdge, AddEdgeGraph
      <4>3. CASE s \notin graph.refd
        <5>1. graph' = Point(graph, {s}, e.seg) BY <1>2, <3>2, <4>3 DEF AddEdge, AddEdgeGraph
        <5> QED BY <1>0, <4>1, <4>3, <5>1, PointGrows
      <4> QED BY <4>2, <4>3
    <3> QED BY <3>1, <3>2
  <2>6. SymFine(class, graph', new, n)
    <3>1. SymFine(class, graph', e, n) BY <1>0, <2>4, <2>5, FineStays
    <3>2. CASE ~Undefined(e) BY <2>3, <3>1, <3>2
    <3>3. CASE Undefined(e) /\ ~Placed(e)
      BY <2>3, <3>1, <3>3 DEF SymFine, Communal, Placed, Undefined
    <3> QED BY <3>1, <3>2, <3>3 DEF SymFine, Placed
  <2>7. ASSUME NEW a \in Segs, <<a, n>> \in uses' PROVE class[a] = "code" /\ EdgeFine(class, graph', new, a)
    <3>1. CASE a = s
      BY <2>1, <2>3, <2>5, <3>1 DEF EdgeFine, Placed, Undefined
    <3>2. CASE a # s
      <4>1. class[a] = "code" /\ EdgeFine(class, graph, e, a) BY <2>1, <2>7, <3>2 DEF Marks
      <4>2. EdgeFine(class, graph', e, a) BY <1>0, <2>4, <2>5, <4>1, EdgeStays
      <4> QED BY <2>3, <4>1, <4>2 DEF EdgeFine, Undefined
    <3> QED BY <3>1, <3>2
  <2>8. \A t \in roots' \cap Segs : t \in graph'.refd
    BY <2>1, <2>5 DEF Marks, Grows
  <2>9. n \in roots' \/ e.ref => new.ref
    BY <2>1, <2>3 DEF Marks
  <2>10. \A u \in uses' : u \in uses \/ u[2] = n
    BY <2>1
  <2> HIDE DEF new
  <2> QED BY <2>1, <2>5, <2>6, <2>7, <2>8, <2>9, <2>10, OneChanges
<1>3. ASSUME NEW n \in Names, DataFixup(n) \/ SetStartSym(n) PROVE Marks'
  <2>1. DataRef(n) /\ class' = class /\ mine' = mine /\ dead' = dead /\ uses' = uses
        /\ sym' = [sym EXCEPT ![n] = Flagged(sym[n])] /\ phase = "pass1"
    BY <1>3 DEF DataFixup, SetStartSym, Reading
  <2>2. Grows(graph, graph') /\ roots' = roots \cup {n} BY <2>1, DataRefTypes
  <2>3. \A t \in roots' \cap Segs : t \in graph'.refd BY <2>1, DataRefRoots
  <2>4. Flagged(sym[n]).ref BY <1>0 DEF Flagged, Symbol
  <2>5. /\ SymFine(class, graph', Flagged(sym[n]), n)
        /\ \A a \in Segs : <<a, n>> \in uses => class[a] = "code" /\ EdgeFine(class, graph', Flagged(sym[n]), a)
    BY <2>1, FlaggedFine
  <2> QED BY <2>1, <2>2, <2>3, <2>4, <2>5, OneChanges
<1>4. ASSUME NEW t \in Segs, (\E s \in Segs : SegFixup(s, t)) \/ StartSeg(t) PROVE Marks'
  <2>1. /\ class' = class /\ mine' = mine /\ dead' = dead /\ uses' = uses /\ sym' = sym
        /\ graph' = RefSeg(graph, t) /\ roots' = roots \cup {t} /\ phase = "pass1"
    BY <1>4 DEF SegFixup, StartSeg, Reading
  <2>2. Grows(graph, graph') /\ t \in graph'.refd BY <1>0, <2>1, RefSegGrows
  <2>3. /\ \A d \in dead' : class'[d] = "data"
        /\ \A d \in mine' : class'[d] # "none"
        /\ \A s \in roots' \cap Segs : s \in graph'.refd
        /\ roots' \cap Names = roots \cap Names
    BY <2>1, <2>2 DEF Marks, Grows
  <2> QED BY <1>0, <2>1, <2>2, <2>3, NoneChanges
<1>5. ASSUME NEW n \in Names, NEW t \in Segs, PubDef(n, t) PROVE Marks'
  <2>1. ~Communal(sym[n])
    BY <1>5 DEF Marks, SymFine, PubDef, Define
  <2>2. /\ class' = class /\ mine' = mine /\ dead' = dead /\ uses' = uses /\ roots' = roots
        /\ graph' = DefStripSym(graph, sym[n], t) /\ phase = "pass1"
        /\ sym' = [sym EXCEPT ![n] = Become("public", sym[n], t)]
        /\ t \in mine /\ sym[n].kind \notin {"absolute", "alias", "public"}
    BY <1>5, <2>1 DEF PubDef, Define, HashReplace, Waiting, Reading, SegNodes, Open
  <2>3. class[t] # "none" BY <2>2 DEF Marks
  <2>4. /\ Grows(graph, graph')
        /\ SymFine(class, graph', Become("public", sym[n], t), n)
        /\ \A a \in Segs : <<a, n>> \in uses =>
             class[a] = "code" /\ EdgeFine(class, graph', Become("public", sym[n], t), a)
    <3>1. ClassGrows(class, class) BY DEF ClassGrows
    <3>2. graph' = DefStripSym(graph, sym[n], t) /\ sym[n].kind \notin {"absolute", "alias", "public"} BY <2>2
    <3> QED BY <1>0, <2>1, <2>3, <3>1, <3>2, DefinedFine
  <2>5. n \in roots' \/ sym[n].ref => Become("public", sym[n], t).ref
    BY <1>0, <2>2 DEF Marks, Become, Symbol
  <2>6. \A s \in roots' \cap Segs : s \in graph'.refd
    BY <2>2, <2>4 DEF Marks, Grows
  <2> QED BY <2>2, <2>4, <2>5, <2>6, OneChanges
<1>6. ASSUME NEW n \in Names, AbsDef(n) PROVE Marks'
  <2> DEFINE new == Become("absolute", sym[n], Nil)
  <2>1. ~Communal(sym[n])
    BY <1>6 DEF Marks, SymFine, AbsDef, Define
  <2>2. /\ class' = class /\ mine' = mine /\ dead' = dead /\ uses' = uses /\ roots' = roots
        /\ graph' = graph /\ phase = "pass1"
        /\ sym' = [sym EXCEPT ![n] = new]
    BY <1>6, <2>1 DEF AbsDef, Define, HashReplace, Reading
  <2>3. new.kind = "absolute" /\ new.seg = Nil /\ new.ref = sym[n].ref
    BY <1>0 DEF Become, Symbol
  <2>4. SymFine(class, graph', new, n)
    BY <2>3 DEF SymFine, Communal, Undefined
  <2>5. \A a \in Segs : <<a, n>> \in uses' => class[a] = "code" /\ EdgeFine(class, graph', new, a)
    BY <2>2, <2>3 DEF EdgeFine, Undefined, Marks
  <2>6. n \in roots' \/ sym[n].ref => new.ref
    BY <2>2, <2>3 DEF Marks
  <2>7. \A s \in roots' \cap Segs : s \in graph'.refd
    BY <2>2 DEF Marks
  <2> HIDE DEF new
  <2> QED BY <1>0, <2>2, <2>4, <2>5, <2>6, <2>7, OneChanges
<1>7. ASSUME NEW n \in Names, NEW t \in Segs, ComDef(n, t) PROVE Marks'
  <2> DEFINE new == Become("communal", sym[n], t)
  <2>1. /\ class[t] = "none" /\ class' = [class EXCEPT ![t] = "data"] /\ mine' = mine /\ dead' = dead
        /\ uses' = uses /\ roots' = roots /\ graph' = graph /\ phase = "pass1"
        /\ sym' = [sym EXCEPT ![n] = new]
        /\ Undefined(sym[n]) \/ sym[n].kind = "imported"
        /\ "communal" \in Ways(n)
    BY <1>7 DEF ComDef, Define, Made, Reading
  <2>2. class'[t] = "data" /\ ClassGrows(class, class')
    BY <2>1 DEF ClassGrows, TypesFine
  <2>3. /\ ~Communal(sym[n]) /\ sym[n].kind \notin {"absolute", "alias", "public"}
        /\ {"public", "absolute"} \cap Ways(n) = {}
    BY <2>1 DEF Steady, Communal, Undefined
  <2>4. /\ SymFine(class', graph', new, n)
        /\ \A a \in Segs : <<a, n>> \in uses' => class'[a] = "code" /\ EdgeFine(class', graph', new, a)
    <3>1. class'[t] # "none" BY <2>2
    <3>2. graph' = DefStripSym(graph, sym[n], t) \/ (class'[t] = "data" /\ graph' = graph) BY <2>1, <2>2
    <3>3. /\ SymFine(class', graph', new, n)
          /\ \A a \in Segs : <<a, n>> \in uses => class'[a] = "code" /\ EdgeFine(class', graph', new, a)
      BY <2>2, <2>3, <3>1, <3>2, DefinedFine
    <3> QED BY <2>1, <3>3
  <2>5. n \in roots' \/ sym[n].ref => new.ref
    BY <1>0, <2>1 DEF Marks, Become, Symbol
  <2>6. /\ \A s \in roots' \cap Segs : s \in graph'.refd
        /\ \A s \in mine' : class'[s] # "none"
        /\ \A s \in dead' : class'[s] = "data"
    BY <2>1, <2>2 DEF Marks, ClassGrows, TypesFine
  <2> HIDE DEF new
  <2> QED BY <1>0, <2>1, <2>2, <2>4, <2>5, <2>6, SymChanges
<1>8. ASSUME NEW n \in Names, NEW t \in Segs, NEW c \in {"code", "data"}, ComDat(n, t, c) PROVE Marks'
  <2> DEFINE new == Become("comdat", sym[n], t)
  <2>1. /\ class[t] = "none" /\ class' = [class EXCEPT ![t] = c] /\ mine' = mine \cup {t}
        /\ dead' = HashReplace(sym[n])
        /\ uses' = uses /\ roots' = roots /\ phase = "pass1"
        /\ graph' = (IF c = "code" THEN DefStripSym(graph, sym[n], t) ELSE graph)
        /\ sym' = [sym EXCEPT ![n] = new]
        /\ sym[n].kind \notin {"absolute", "alias", "public", "comdat"}
        /\ "comdat" \in Ways(n)
        /\ Communal(sym[n]) => c = "data"
    BY <1>8 DEF ComDat, Define, Made, Reading, Open
  <2>2. class'[t] = c /\ ClassGrows(class, class')
    BY <2>1 DEF ClassGrows, TypesFine
  <2>3. {"public", "absolute"} \cap Ways(n) = {}
    BY <2>1 DEF Steady
  <2>4. new.kind = "comdat" /\ new.seg = t /\ new.ref = sym[n].ref
    BY <1>0 DEF Become, Symbol
  <2>5. /\ Grows(graph, graph')
        /\ SymFine(class', graph', new, n)
        /\ \A a \in Segs : <<a, n>> \in uses' => class'[a] = "code" /\ EdgeFine(class', graph', new, a)
        /\ \A s \in dead' : class'[s] = "data"
    <3>1. CASE Communal(sym[n])
      <4>1. /\ graph' = graph /\ c = "data" /\ dead' = dead \cup {sym[n].seg}
            /\ sym[n].kind = "communal"
        BY <2>1, <3>1 DEF HashReplace, Communal
      <4>2. sym[n].seg \in Segs /\ class[sym[n].seg] = "data"
        BY <1>0, <4>1 DEF Marks, SymFine, Symbol
      <4>3. \A s \in dead' : class'[s] = "data"
        BY <2>1, <2>2, <4>1, <4>2 DEF Marks, ClassGrows, TypesFine
      <4>4. SymFine(class', graph', new, n)
        BY <2>2, <2>3, <2>4, <4>1 DEF SymFine, Communal, Undefined
      <4>5. \A a \in Segs : <<a, n>> \in uses' => class'[a] = "code" /\ EdgeFine(class', graph', new, a)
        BY <2>1, <2>2, <2>4, <4>1 DEF EdgeFine, Undefined, Marks, ClassGrows
      <4> QED BY <1>0, <4>1, <4>3, <4>4, <4>5
    <3>2. CASE ~Communal(sym[n])
      <4>1. dead' = dead BY <2>1, <3>2 DEF HashReplace
      <4>2. \A s \in dead' : class'[s] = "data"
        BY <2>1, <2>2, <4>1 DEF Marks, ClassGrows, TypesFine
      <4>3. /\ Grows(graph, graph')
            /\ SymFine(class', graph', new, n)
            /\ \A a \in Segs : <<a, n>> \in uses => class'[a] = "code" /\ EdgeFine(class', graph', new, a)
        <5>1. graph' = DefStripSym(graph, sym[n], t) \/ (class'[t] = "data" /\ graph' = graph)
          BY <2>1, <2>2
        <5>2. class'[t] # "none" BY <2>2
        <5>3. sym[n].kind \notin {"absolute", "alias", "public"} BY <2>1
        <5> QED BY <2>2, <2>3, <3>2, <5>1, <5>2, <5>3, DefinedFine
      <4> QED BY <2>1, <4>2, <4>3
    <3> QED BY <3>1, <3>2
  <2>6. n \in roots' \/ sym[n].ref => new.ref
    BY <2>1, <2>4 DEF Marks
  <2>7. /\ \A s \in roots' \cap Segs : s \in graph'.refd
        /\ \A s \in mine' : class'[s] # "none"
    BY <2>1, <2>2, <2>5 DEF Marks, ClassGrows, TypesFine, Grows
  <2> HIDE DEF new
  <2> QED BY <2>1, <2>2, <2>5, <2>6, <2>7, SymChanges
<1>9. ASSUME NEW n \in Names, Import(n) PROVE Marks'
  <2> DEFINE new == Flagged(Become("imported", sym[n], Nil))
  <2>1. /\ class' = class /\ mine' = mine /\ dead' = dead /\ uses' = uses /\ roots' = roots \cup {n}
        /\ graph' = graph /\ phase = "pass1"
        /\ sym' = [sym EXCEPT ![n] = new]
    BY <1>9 DEF Import, Define, Reading
  <2>2. new.kind = "imported" /\ new.seg = Nil /\ new.ref
    BY <1>0 DEF Flagged, Become, Symbol
  <2>3. SymFine(class, graph', new, n)
    BY <2>2 DEF SymFine, Communal, Undefined
  <2>4. \A a \in Segs : <<a, n>> \in uses' => class[a] = "code" /\ EdgeFine(class, graph', new, a)
    BY <2>1, <2>2 DEF EdgeFine, Undefined, Marks
  <2>5. \A s \in roots' \cap Segs : s \in graph'.refd
    BY <2>1 DEF Marks
  <2> HIDE DEF new
  <2> QED BY <1>0, <2>1, <2>2, <2>3, <2>4, <2>5, OneChanges
<1>10. ASSUME NEW n \in Names, NEW d \in Names, LazyExtdef(n, d) PROVE Marks'
  <2> DEFINE N == {n, d}
             f == Flagged(sym[d])
             l == Default(sym[n], d)
  <2>1. /\ DataRef(d) /\ class' = class /\ mine' = mine /\ dead' = dead /\ uses' = uses /\ phase = "pass1"
        /\ sym' = [sym EXCEPT ![n] = l, ![d] = f]
        /\ n # d /\ sym[n].kind = "undefined"
    BY <1>10 DEF LazyExtdef, Define, Reading
  <2>2. Grows(graph, graph') /\ roots' = roots \cup {d} BY <2>1, DataRefTypes
  <2>3. sym'[n] = l /\ sym'[d] = f /\ \A m \in Names \ N : sym'[m] = sym[m]
    BY <2>1 DEF TypesFine
  <2>4. SymFine(class, graph', sym[n], n)
    BY <1>0, <2>2, FineStays DEF Marks
  <2>5. l.kind = "lazy" /\ l.seg = sym[n].seg /\ l.ref = sym[n].ref /\ l.from = sym[n].from /\ f.ref
    BY <1>0 DEF Default, Flagged, Symbol
  <2>6. SymFine(class, graph', l, n)
    BY <2>1, <2>4, <2>5 DEF SymFine, Communal, Undefined
  <2>7. ASSUME NEW a \in Segs, <<a, n>> \in uses PROVE class[a] = "code" /\ EdgeFine(class, graph', l, a)
    <3>1. class[a] = "code" /\ EdgeFine(class, graph, sym[n], a) BY <2>7 DEF Marks
    <3>2. SymFine(class, graph, sym[n], n) BY DEF Marks
    <3>3. EdgeFine(class, graph', sym[n], a) BY <1>0, <2>2, <3>1, <3>2, EdgeStays
    <3> QED BY <2>1, <2>5, <3>1, <3>3 DEF EdgeFine, Undefined
  <2>8. /\ SymFine(class, graph', f, d)
        /\ \A a \in Segs : <<a, d>> \in uses => class[a] = "code" /\ EdgeFine(class, graph', f, a)
    BY <2>1, FlaggedFine
  <2>9. \A t \in roots' \cap Segs : t \in graph'.refd BY <2>1, DataRefRoots
  <2>10. \A m \in roots' \cap Names : sym'[m].ref
    BY <2>2, <2>3, <2>5 DEF Marks
  <2>11. /\ \A s \in mine' : class'[s] # "none"
         /\ \A s \in dead' : class'[s] = "data"
    BY <2>1 DEF Marks
  <2>12. ClassGrows(class, class') /\ N \in SUBSET Names BY <1>0, <2>1
  <2>13. \A m \in N : SymFine(class', graph', sym'[m], m)
    BY <2>1, <2>3, <2>6, <2>8
  <2>14. \A m \in N, a \in Segs : <<a, m>> \in uses' => class'[a] = "code" /\ EdgeFine(class', graph', sym'[m], a)
    BY <2>1, <2>3, <2>7, <2>8
  <2>15. \A u \in uses' : u \in uses \/ u[2] \in N BY <2>1
  <2>16. \A m \in Names \ N : sym'[m] = sym[m] BY <2>3
  <2> HIDE DEF N, f, l
  <2> QED BY <2>2, <2>9, <2>10, <2>11, <2>12, <2>13, <2>14, <2>15, <2>16, OthersStay, Zenon
<1>11. CASE EndModule
  <2>1. /\ class' = class /\ mine' = {} /\ dead' = dead /\ uses' = uses /\ roots' = roots
        /\ graph' = graph /\ sym' = sym /\ phase = "pass1"
    BY <1>11 DEF EndModule, Reading
  <2>2. /\ \A s \in roots' \cap Segs : s \in graph'.refd
        /\ \A s \in dead' : class'[s] = "data"
    BY <2>1 DEF Marks
  <2> QED BY <1>0, <2>1, <2>2, NoneChanges
<1>12. CASE SetSegments
  <2>1. /\ class' = class /\ mine' = {} /\ dead' = dead \cup MarkDead /\ uses' = uses /\ roots' = roots
        /\ graph' = graph /\ phase = "pass1" /\ phase' = "done"
        /\ sym' = [n \in Names |-> KillUnrefedSyms(ConvertLazyRefs(sym[n]), dead')]
    BY <1>12 DEF SetSegments, Reading
  <2>2. ASSUME NEW s \in dead'
        PROVE  class'[s] # "none" /\ (class'[s] # "data" => s \notin graph'.refd)
    BY <2>1 DEF Marks, MarkDead
  <2>3. ASSUME NEW s \in Symbol, NEW D
        PROVE  LET r == KillUnrefedSyms(ConvertLazyRefs(s), D)
               IN  /\ \/ r.kind = s.kind /\ r.seg = s.seg /\ r.from = s.from
                      \/ r.kind = "alias" /\ r.seg = Nil
                   /\ r.ref = s.ref
    BY DEF KillUnrefedSyms, ConvertLazyRefs, WeldSyms, Symbol
  <2>4. ASSUME NEW n \in Names
        PROVE  /\ \/ sym'[n].kind = sym[n].kind /\ sym'[n].seg = sym[n].seg /\ sym'[n].from = sym[n].from
                  \/ sym'[n].kind = "alias" /\ sym'[n].seg = Nil
               /\ sym'[n].ref = sym[n].ref
    BY <1>0, <2>1, <2>3
  <2>5. ASSUME NEW n \in Names PROVE SymFine(class', graph', sym'[n], n)
    <3>1. SymFine(class, graph, sym[n], n) BY DEF Marks
    <3> QED BY <2>1, <2>4, <3>1 DEF SymFine, Communal, Undefined
  <2>6. ASSUME NEW u \in uses' PROVE class'[u[1]] = "code" /\ EdgeFine(class', graph', sym'[u[2]], u[1])
    <3>1. u[2] \in Names BY <2>1 DEF TypesFine
    <3>2. class[u[1]] = "code" /\ EdgeFine(class, graph, sym[u[2]], u[1]) BY <2>1 DEF Marks
    <3> QED BY <2>1, <2>4, <3>1, <3>2 DEF EdgeFine, Undefined
  <2>7. /\ \A s \in roots' \cap Segs : s \in graph'.refd
        /\ \A n \in roots' \cap Names : sym'[n].ref
    BY <2>1, <2>4 DEF Marks
  <2> QED BY <2>1, <2>2, <2>5, <2>6, <2>7 DEF Marks
<1> QED
  BY <1>1, <1>2, <1>3, <1>4, <1>5, <1>6, <1>7, <1>8, <1>9, <1>10, <1>11, <1>12 DEF Next

-----------------------------------------------------------------------------
(* The theorems *)

LEMMA InitFine == Init => IInv
<1> USE NilAssumption
<1> SUFFICES ASSUME Init PROVE IInv
  OBVIOUS
<1>1. ASSUME NEW n \in Names
      PROVE  sym[n] \in Symbol /\ sym[n].kind = "undefined" /\ sym[n].seg = Nil /\ (n \in roots => sym[n].ref)
  <2> DEFINE b == n \in roots
  <2>1. b \in BOOLEAN OBVIOUS
  <2>2. sym[n] = [kind |-> "undefined", seg |-> Nil, from |-> {}, ref |-> b, def |-> Nil, dead |-> FALSE]
    BY DEF Init
  <2>3. n \in roots => b OBVIOUS
  <2> HIDE DEF b
  <2> QED BY <2>1, <2>2, <2>3 DEF Symbol, Kinds
<1>2. \A n \in Names : sym[n].kind = "undefined" /\ sym[n].seg = Nil
  BY <1>1
<1>3. sym \in [Names -> Symbol]
  BY <1>1 DEF Init
<1>4. TypesFine
  BY <1>2, <1>3 DEF Init, TypesFine, GraphOK, Graph, Communal
<1>5. \A n \in Names : SymFine(class, graph, sym[n], n)
  BY <1>2 DEF SymFine, Communal
<1>6. \A n \in roots \cap Names : sym[n].ref BY <1>1
<1> QED BY <1>4, <1>5, <1>6 DEF IInv, Init, Marks

(* Once a pointer was taken for something else nothing is read any more. *)
LEMMA InvStays == ASSUME Steady, IInv, [Next]_vars PROVE IInv'
<1>1. TypesFine' BY TypesStay DEF IInv
<1>2. CASE UNCHANGED vars
  BY <1>1, <1>2 DEF vars, IInv, Marks
<1>3. CASE Next
  <2>1. phase = "pass1"
    BY <1>3 DEF Next, SegDef, AddEdge, DataFixup, SetStartSym, SegFixup, StartSeg, PubDef, ComDef, ComDat,
                AbsDef, Import, LazyExtdef, EndModule, SetSegments, Define, Reading
  <2> QED BY <1>1, <1>3, <2>1, MarksStay DEF IInv
<1> QED BY <1>2, <1>3

(* What the roots need lies in what is refd or is not code: that is a set   *)
(* which holds the roots and what a segment in it refers to.                *)
LEMMA MarksKeepLive == ASSUME IInv PROVE LiveCodeStays
<1> USE NilAssumption
<1> SUFFICES ASSUME phase # "wild" PROVE /\ Live \cap Code \subseteq graph.refd
                                        /\ Live \cap Code \cap dead = {}
  BY DEF LiveCodeStays
<1>0. TypesFine /\ Marks BY DEF IInv
<1> DEFINE K == graph.refd \cup (Segs \ Code)
<1>1. K \in SUBSET Segs BY <1>0 DEF TypesFine, GraphOK, Graph
<1>2. Rooted \subseteq K
  <2>1. ASSUME NEW n \in roots \cap Names, sym[n].seg # Nil PROVE sym[n].seg \in K
    <3>1. sym[n].seg \in Segs BY <1>0, <2>1 DEF TypesFine, Symbol
    <3>2. sym[n].ref /\ SymFine(class, graph, sym[n], n) BY <1>0 DEF Marks
    <3> QED BY <2>1, <3>1, <3>2 DEF SymFine, Code
  <2>2. roots \cap Segs \subseteq K BY <1>0 DEF Marks
  <2> QED BY <2>1, <2>2 DEF Rooted, Home
<1>3. ASSUME NEW s \in K PROVE Calls(s) \subseteq K
  <2> SUFFICES ASSUME NEW t \in Calls(s) PROVE t \in K
    OBVIOUS
  <2>0. PICK m \in Names : <<s, m>> \in uses /\ t \in Home(m)
    BY DEF Calls
  <2>1. class[s] = "code" /\ EdgeFine(class, graph, sym[m], s) BY <1>0, <2>0 DEF Marks
  <2>2. s \in graph.refd BY <1>1, <2>1 DEF Code
  <2>3. t = sym[m].seg /\ t # Nil BY <2>0 DEF Home
  <2>4. t \in Segs BY <1>0, <2>3 DEF TypesFine, Symbol
  <2> QED BY <2>1, <2>2, <2>3, <2>4 DEF EdgeFine, Code
<1>4. Live \subseteq K BY <1>1, <1>2, <1>3 DEF Live
<1>5. \A s \in dead : class[s] # "data" => s \notin graph.refd BY <1>0 DEF Marks
<1> QED BY <1>4, <1>5 DEF Code

(* The graph and the symbols are always what their types say, also when the *)
(* linker goes on after definitions that replace each other.                *)
THEOREM TypeCorrect == Spec => []TypeOK
<1>1. Init => TypesFine BY InitFine DEF IInv
<1>2. TypesFine /\ [Next]_vars => TypesFine' BY TypesStay
<1> QED BY <1>1, <1>2, TypesAreTypeOK, PTL DEF Spec

(* Code that an export, a start address or data needs, directly or through  *)
(* other code, is marked as soon as its use is known and is not eliminated, *)
(* whatever the order of fixups and definitions (RefSeg, DefStripSym and    *)
(* AddEdge of objstrip.c), as long as no COMDAT or communal symbol is       *)
(* replaced by a public one.                                                *)
THEOREM LiveCodeKept == ASSUME Steady PROVE Spec => []LiveCodeStays
<1>1. Init => IInv BY InitFine
<1>2. IInv /\ [Next]_vars => IInv' BY InvStays
<1>3. IInv => LiveCodeStays BY MarksKeepLive
<1> QED BY <1>1, <1>2, <1>3, PTL DEF Spec
-----------------------------------------------------------------------------
(* The converse: what is marked is needed *)

(* Segments that nobody asks for, because they never go or, unwind tables,  *)
(* hold no code                                                             *)
Soft == {s \in Segs : class[s] \in {"data", "unwind"}}
CallsOf == [s \in Segs |-> Calls(s)]

(* Of the graph g, with the segments L that are needed, the calls C and the *)
(* soft segments D: what is refd is needed, and its edges are calls.        *)
Sound(g, L, C, D) ==
  /\ g.refd \subseteq L \cup D
  /\ \A s \in Segs : g.refs[s] \subseteq C[s] \cup D

(* What a symbol remembers *)
Waits(n) ==
  /\ \A a \in sym[n].from : <<a, n>> \in uses
  /\ sym[n].ref => n \in roots \/ \E a \in Live : <<a, n>> \in uses
  /\ sym[n].kind = "imported" => sym[n].seg = Nil

UsedOnly ==
  /\ graph.refd \subseteq Live \cup Soft
  /\ phase = "pass1" => Sound(graph, Live, CallsOf, Soft) /\ \A n \in Names : Waits(n)
  /\ phase = "done" => MarkDead \subseteq dead

UInv == IInv /\ (phase # "wild" => UsedOnly)

-----------------------------------------------------------------------------
(* The graph *)

LEMMA SoundGrows ==
  ASSUME NEW g, NEW L, NEW M, NEW C, NEW B, NEW D, NEW E,
         Sound(g, L, C, D), L \subseteq M \cup E, D \subseteq E,
         \A s \in Segs : C[s] \subseteq B[s] \cup E
  PROVE  Sound(g, M, B, E)
BY DEF Sound

(* L with D is a set that is closed under the edges, so RefSeg stays in it. *)
LEMMA RefSegSound ==
  ASSUME NEW g, NEW L \in SUBSET Segs, NEW C, NEW D \in SUBSET Segs,
         Sound(g, L, C, D), NEW t \in L \cup D,
         \A s \in L : C[s] \subseteq L,
         \A s \in D : C[s] = {}
  PROVE  Sound(RefSeg(g, t), L, C, D)
<1>1. CASE t \in g.refd
  BY <1>1 DEF RefSeg
<1>2. CASE t \notin g.refd
  <2> DEFINE S == L \cup D
  <2>1. S \in SUBSET Segs /\ t \in S OBVIOUS
  <2>2. \A a \in S \ g.refd : g.refs[a] \subseteq S BY DEF Sound
  <2>3. Chase(g, t) \subseteq S
    <3> HIDE DEF S
    <3> QED BY <2>1, <2>2 DEF Chase
  <2>4. RefSeg(g, t).refd = g.refd \cup Chase(g, t) BY <1>2 DEF RefSeg
  <2>5. \A s \in Segs : RefSeg(g, t).refs[s] \subseteq g.refs[s] BY <1>2 DEF RefSeg
  <2> QED BY <2>3, <2>4, <2>5 DEF Sound
<1> QED BY <1>1, <1>2

LEMMA PointSound ==
  ASSUME NEW g, GraphOK(g), NEW L, NEW C, NEW D,
         Sound(g, L, C, D), NEW F, NEW t, \A s \in F : t \in C[s] \cup D
  PROVE  Sound(Point(g, F, t), L, C, D)
<1>1. CASE t \in g.refd
  BY <1>1 DEF Point
<1>2. CASE t \notin g.refd
  <2>1. /\ Point(g, F, t).refd = g.refd
        /\ \A s \in Segs : Point(g, F, t).refs[s] = IF s \in F THEN g.refs[s] \cup {t} ELSE g.refs[s]
    BY <1>2 DEF Point, GraphOK, Graph
  <2> QED BY <2>1 DEF Sound
<1> QED BY <1>1, <1>2

-----------------------------------------------------------------------------
(* What is needed *)

LEMMA LiveClosed ==
  /\ Live \in SUBSET Segs
  /\ TypesFine => Rooted \subseteq Live
  /\ TypesFine => \A s \in Live : Calls(s) \subseteq Live
<1> USE NilAssumption
<1>1. Live \in SUBSET Segs BY DEF Live
<1>2. ASSUME TypesFine, NEW n \in Names PROVE Home(n) \subseteq Segs
  BY <1>2 DEF Home, TypesFine, Symbol
<1>3. ASSUME TypesFine PROVE Rooted \subseteq Live
  BY <1>2, <1>3 DEF Rooted, Live
<1>4. ASSUME TypesFine, NEW s \in Live PROVE Calls(s) \subseteq Live
  <2>1. Calls(s) \subseteq Segs BY <1>2, <1>4 DEF Calls
  <2>2. ASSUME NEW t \in Calls(s), NEW S \in SUBSET Segs,
               Rooted \subseteq S, \A r \in S : Calls(r) \subseteq S
        PROVE  t \in S
    <3>1. s \in S BY <2>2 DEF Live
    <3> QED BY <2>2, <3>1
  <2> QED BY <2>1, <2>2 DEF Live
<1> QED BY <1>1, <1>3, <1>4

(* Only code refers to anything. *)
LEMMA SoftCallsNothing == TypesFine /\ Marks => \A s \in Soft : Calls(s) = {}
BY DEF Calls, Soft, Marks

(* The same after a step *)
LEMMA LiveClosedThen ==
  ASSUME TypesFine', Marks'
  PROVE  /\ Live' \in SUBSET Segs /\ Soft' \in SUBSET Segs
         /\ Rooted' \subseteq Live'
         /\ \A s \in Live' : CallsOf'[s] \subseteq Live'
         /\ \A s \in Soft' : CallsOf'[s] = {}
<1>1. (/\ Live \in SUBSET Segs
       /\ TypesFine => Rooted \subseteq Live
       /\ TypesFine => \A s \in Live : Calls(s) \subseteq Live)'
  BY LiveClosed, PTL
<1>2. (TypesFine /\ Marks => \A s \in Soft : Calls(s) = {})'
  BY SoftCallsNothing, PTL
<1>3. Soft' \in SUBSET Segs BY DEF Soft
<1>4. \A s \in Segs : CallsOf'[s] = Calls(s)' BY DEF CallsOf
<1> QED BY <1>1, <1>2, <1>3, <1>4

(* What a step of pass 1 does to fixups and to the homes of symbols *)
Onward ==
  /\ TypesFine /\ Marks /\ TypesFine' /\ Marks'
  /\ ClassGrows(class, class')
  /\ uses \subseteq uses' /\ roots \subseteq roots'
  /\ \A n \in Names : sym[n].seg \notin {Nil} \cup Soft => sym'[n].seg = sym[n].seg

LEMMA LiveStays ==
  ASSUME Onward
  PROVE  /\ Soft \subseteq Soft'
         /\ Live \subseteq Live' \cup Soft'
         /\ \A s \in Segs : CallsOf[s] \subseteq CallsOf'[s] \cup Soft'
<1> USE NilAssumption
<1> DEFINE K == Live' \cup Soft'
<1>1. Soft \subseteq Soft' BY DEF Onward, ClassGrows, Soft
<1>2. ASSUME NEW n \in Names, NEW h \in Home(n) PROVE h \in Home(n)' \cup Soft'
  <2>1. h = sym[n].seg /\ h # Nil BY <1>2 DEF Home
  <2>2. CASE h \in Soft BY <1>1, <2>2
  <2>3. CASE h \notin Soft
    <3>1. sym'[n].seg = h BY <2>1, <2>3 DEF Onward
    <3> QED BY <2>1, <3>1 DEF Home
  <2> QED BY <2>2, <2>3
<1>3. ASSUME NEW s \in Segs PROVE Calls(s) \subseteq Calls(s)' \cup Soft'
  <2> SUFFICES ASSUME NEW n \in Names, <<s, n>> \in uses, NEW h \in Home(n) PROVE h \in Calls(s)' \cup Soft'
    BY DEF Calls
  <2>1. <<s, n>> \in uses' BY DEF Onward
  <2>2. h \in Home(n)' \cup Soft' BY <1>2
  <2> QED BY <2>1, <2>2 DEF Calls
<1>4. /\ Live' \in SUBSET Segs /\ Soft' \in SUBSET Segs
      /\ Rooted' \subseteq Live'
      /\ \A s \in Live' : CallsOf'[s] \subseteq Live'
      /\ \A s \in Soft' : CallsOf'[s] = {}
  BY LiveClosedThen DEF Onward
<1>5. K \in SUBSET Segs BY <1>4
<1>6. \A s \in Segs : CallsOf'[s] = Calls(s)' /\ CallsOf[s] = Calls(s) BY DEF CallsOf
<1>7. Rooted \subseteq K
  <2>1. ASSUME NEW n \in roots \cap Names, NEW h \in Home(n) PROVE h \in K
    <3>1. Home(n)' \subseteq Rooted' BY <2>1 DEF Onward, Rooted
    <3> QED BY <1>2, <1>4, <2>1, <3>1
  <2>2. roots \cap Segs \subseteq Rooted' BY DEF Onward, Rooted
  <2> QED BY <1>4, <2>1, <2>2 DEF Rooted
<1>8. \A s \in K : Calls(s) \subseteq K
  BY <1>3, <1>4, <1>6
<1>9. Live \subseteq K
  <2> HIDE DEF K
  <2> QED BY <1>5, <1>7, <1>8 DEF Live
<1> QED BY <1>1, <1>3, <1>6, <1>9

(* A segment that was refd and holds a fixup is needed. *)
LEMMA UserLives ==
  ASSUME Onward, UsedOnly, NEW a \in Segs, NEW n \in Names, <<a, n>> \in uses', a \in graph.refd \cup Live
  PROVE  a \in Live'
<1>1. a \notin Soft' BY DEF Onward, Marks, Soft
<1>2. a \in Live \cup Soft BY DEF UsedOnly
<1> QED BY <1>1, <1>2, LiveStays

LEMMA SoundStays ==
  ASSUME Onward, UsedOnly, phase = "pass1"
  PROVE  Sound(graph, Live', CallsOf', Soft')
BY LiveStays, SoundGrows DEF UsedOnly

LEMMA RefSegThen ==
  ASSUME Onward, UsedOnly, phase = "pass1", NEW t \in Live' \cup Soft'
  PROVE  Sound(RefSeg(graph, t), Live', CallsOf', Soft')
<1>1. /\ Live' \in SUBSET Segs /\ Soft' \in SUBSET Segs
      /\ \A s \in Live' : CallsOf'[s] \subseteq Live'
      /\ \A s \in Soft' : CallsOf'[s] = {}
  BY LiveClosedThen DEF Onward
<1>2. Sound(graph, Live', CallsOf', Soft') BY SoundStays
<1> QED BY <1>1, <1>2, RefSegSound

(* Where a root lies is needed. *)
LEMMA RootLives ==
  ASSUME Onward
  PROVE  /\ roots' \cap Segs \subseteq Live'
         /\ \A n \in roots' \cap Names : sym'[n].seg # Nil => sym'[n].seg \in Live'
<1>1. Rooted' \subseteq Live' BY LiveClosedThen DEF Onward
<1> QED BY <1>1 DEF Rooted, Home

(* So is where a symbol lies that something needed refers to. *)
LEMMA CalledLives ==
  ASSUME Onward, NEW a \in Segs, NEW n \in Names, <<a, n>> \in uses', sym'[n].seg # Nil
  PROVE  /\ sym'[n].seg \in CallsOf'[a]
         /\ a \in Live' => sym'[n].seg \in Live'
<1>1. sym'[n].seg \in Calls(a)' BY DEF Calls, Home
<1>2. CallsOf'[a] = Calls(a)' BY DEF CallsOf
<1>3. a \in Live' => CallsOf'[a] \subseteq Live' BY LiveClosedThen DEF Onward
<1> QED BY <1>1, <1>2, <1>3

LEMMA DataRefThen ==
  ASSUME Onward, UsedOnly, phase = "pass1",
         NEW n \in Names, DataRef(n), sym'[n].seg = sym[n].seg
  PROVE  Sound(graph', Live', CallsOf', Soft')
<1>1. CASE ~Placed(sym[n])
  BY <1>1, SoundStays DEF DataRef
<1>2. CASE Placed(sym[n])
  <2>1. n \in roots' \cap Names BY DEF DataRef
  <2>2. sym[n].seg \in Live' BY <1>2, <2>1, RootLives DEF Placed
  <2> QED BY <1>2, <2>2, RefSegThen DEF DataRef
<1> QED BY <1>1, <1>2

(* DefStripSym reaches what is needed, or makes edges that are calls. *)
LEMMA DefStripSymThen ==
  ASSUME Onward, UsedOnly, phase = "pass1",
         NEW n \in Names, NEW t \in Segs, sym'[n].seg = t, t # Nil
  PROVE  Sound(DefStripSym(graph, sym[n], t), Live', CallsOf', Soft')
<1>0. sym[n].from \subseteq Segs /\ GraphOK(graph) /\ Waits(n) BY DEF Onward, TypesFine, Symbol, UsedOnly
<1>1. \A a \in sym[n].from : <<a, n>> \in uses' BY <1>0 DEF Onward, Waits
<1>2. CASE sym[n].ref \/ sym[n].from \cap graph.refd # {}
  <2>1. n \in roots' \/ \E a \in Live' : <<a, n>> \in uses'
    <3>1. CASE sym[n].ref
      <4>1. CASE n \in roots BY <4>1 DEF Onward
      <4>2. CASE n \notin roots
        <5>1. PICK a \in Live : <<a, n>> \in uses BY <1>0, <3>1, <4>2 DEF Waits
        <5>2. a \in Segs /\ <<a, n>> \in uses' BY <5>1 DEF Live, Onward
        <5>3. a \in Live' BY <5>1, <5>2, UserLives
        <5> QED BY <5>2, <5>3
      <4> QED BY <4>1, <4>2
    <3>2. CASE sym[n].from \cap graph.refd # {}
      <4>1. PICK a \in sym[n].from : a \in graph.refd BY <3>2
      <4>2. a \in Segs /\ <<a, n>> \in uses' BY <1>0, <1>1, <4>1
      <4>3. a \in Live' BY <4>1, <4>2, UserLives
      <4> QED BY <4>2, <4>3
    <3> QED BY <1>2, <3>1, <3>2
  <2>2. Live' \subseteq Segs BY LiveClosedThen DEF Onward
  <2>3. t \in Live'
    <3>1. CASE n \in roots' BY <3>1, RootLives
    <3>2. CASE n \notin roots'
      <4>1. PICK a \in Live' : <<a, n>> \in uses' BY <2>1, <3>2
      <4> QED BY <2>2, <4>1, CalledLives
    <3> QED BY <3>1, <3>2
  <2> QED BY <1>2, <2>3, RefSegThen DEF DefStripSym
<1>3. CASE ~(sym[n].ref \/ sym[n].from \cap graph.refd # {})
  <2>1. DefStripSym(graph, sym[n], t) = Point(graph, sym[n].from, t) BY <1>3 DEF DefStripSym
  <2>2. \A a \in sym[n].from : t \in CallsOf'[a] BY <1>0, <1>1, CalledLives
  <2>3. Sound(graph, Live', CallsOf', Soft') BY SoundStays
  <2> QED BY <1>0, <2>1, <2>2, <2>3, PointSound
<1> QED BY <1>2, <1>3

-----------------------------------------------------------------------------
(* The steps *)

LEMMA StaysWaits ==
  ASSUME Onward, UsedOnly, NEW n \in Names, NEW new \in Symbol, NEW F, F \subseteq sym[n].from,
         Waits(n), sym'[n] = new,
         new.from = F, new.ref => sym[n].ref \/ n \in roots',
         new.kind = "imported" => new.seg = Nil
  PROVE  Waits(n)'
<1>1. \A a \in new.from : <<a, n>> \in uses' BY DEF Waits, Onward
<1>2. new.ref => n \in roots' \/ \E a \in Live' : <<a, n>> \in uses'
  <2> SUFFICES ASSUME sym[n].ref, n \notin roots PROVE \E a \in Live' : <<a, n>> \in uses'
    BY DEF Onward
  <2>1. PICK a \in Live : <<a, n>> \in uses BY DEF Waits
  <2>2. a \in Segs /\ <<a, n>> \in uses' BY <2>1 DEF Live, Onward
  <2> QED BY <2>1, <2>2, UserLives
<1> QED BY <1>1, <1>2 DEF Waits

(* It is enough to look at the graph and at the symbols N a step changes. *)
LEMMA StaysUsed ==
  ASSUME Onward, UsedOnly, phase = "pass1", phase' = "pass1",
         Sound(graph', Live', CallsOf', Soft'),
         NEW N \in SUBSET Names, \A n \in Names \ N : sym'[n] = sym[n],
         \A n \in N : Waits(n)'
  PROVE  UsedOnly'
<1>1. ASSUME NEW n \in Names \ N PROVE Waits(n)'
  <2>1. Waits(n) BY DEF UsedOnly
  <2>2. sym[n] \in Symbol BY DEF Onward, TypesFine
  <2>3. sym'[n] = sym[n] OBVIOUS
  <2>4. sym[n].kind = "imported" => sym[n].seg = Nil BY <2>1 DEF Waits
  <2> QED BY <2>1, <2>2, <2>3, <2>4, StaysWaits
<1>2. \A n \in Names : Waits(n)' BY <1>1
<1>3. graph'.refd \subseteq Live' \cup Soft' BY DEF Sound
<1> QED BY <1>2, <1>3 DEF UsedOnly

(* Where a definition may come, nothing but data is left. *)
LEMMA OpenIsSoft ==
  ASSUME TypesFine, Marks, NEW n \in Names, Waits(n),
         \/ Undefined(sym[n]) \/ sym[n].kind \in {"imported", "communal"}
  PROVE  sym[n].seg \in {Nil} \cup Soft
<1>1. SymFine(class, graph, sym[n], n) BY DEF Marks
<1>2. sym[n] \in Symbol BY DEF TypesFine
<1> QED BY <1>1, <1>2 DEF SymFine, Waits, Soft, Symbol

LEMMA OpenKinds ==
  ASSUME Steady, TypesFine, Marks, NEW n \in Names, Open(sym[n])
  PROVE  /\ {"public", "absolute"} \cap Ways(n) # {} => Undefined(sym[n]) \/ sym[n].kind = "imported"
         /\ sym[n].kind # "comdat" => Undefined(sym[n]) \/ sym[n].kind \in {"imported", "communal"}
<1>1. SymFine(class, graph, sym[n], n) BY DEF Marks
<1>2. sym[n] \in Symbol BY DEF TypesFine
<1> QED BY <1>1, <1>2 DEF SymFine, Open, Undefined, Communal, Symbol, Kinds

(* The step that defines symbol n *)
LEMMA DefinedThen ==
  ASSUME TypesFine, Marks, TypesFine', Marks', UsedOnly, phase = "pass1", phase' = "pass1",
         ClassGrows(class, class'), uses' = uses, roots \subseteq roots',
         NEW n \in Names, Undefined(sym[n]) \/ sym[n].kind \in {"imported", "communal"},
         NEW new \in Symbol, sym' = [sym EXCEPT ![n] = new],
         new.from \subseteq sym[n].from, new.ref => sym[n].ref \/ n \in roots',
         new.kind = "imported" => new.seg = Nil,
         graph' = graph \/ (\E t \in Segs : new.seg = t /\ graph' = DefStripSym(graph, sym[n], t))
  PROVE  UsedOnly'
<1> USE NilAssumption
<1> DEFINE N == {n}
<1>1. sym'[n] = new /\ \A m \in Names \ N : sym'[m] = sym[m] BY DEF TypesFine
<1>2. Waits(n) BY DEF UsedOnly
<1>3. sym[n].seg \in {Nil} \cup Soft BY <1>2, OpenIsSoft
<1>4. Onward BY <1>1, <1>3 DEF Onward
<1>5. Waits(n)'
  <2> DEFINE F == new.from
  <2>1. F \subseteq sym[n].from /\ new.from = F OBVIOUS
  <2> HIDE DEF F
  <2> QED BY <1>1, <1>2, <1>4, <2>1, StaysWaits
<1>6. Sound(graph', Live', CallsOf', Soft')
  <2>1. CASE graph' = graph BY <1>4, <2>1, SoundStays
  <2>2. CASE graph' # graph
    <3>1. PICK t \in Segs : new.seg = t /\ graph' = DefStripSym(graph, sym[n], t) BY <2>2
    <3>2. t # Nil BY <3>1
    <3>3. sym'[n].seg = t BY <1>1, <3>1
    <3>4. Sound(DefStripSym(graph, sym[n], t), Live', CallsOf', Soft') BY <1>4, <3>2, <3>3, DefStripSymThen
    <3> QED BY <3>1, <3>4
  <2> QED BY <2>1, <2>2
<1>7. N \in SUBSET Names /\ \A m \in N : Waits(m)' BY <1>5
<1> HIDE DEF N
<1> QED BY <1>1, <1>4, <1>6, <1>7, StaysUsed

(* The step that only makes a reference plain, of symbols N *)
LEMMA FlaggedThen ==
  ASSUME TypesFine, Marks, TypesFine', Marks', UsedOnly, phase = "pass1", phase' = "pass1",
         class' = class, uses' = uses,
         NEW n \in Names, DataRef(n), NEW N \in SUBSET Names,
         \A m \in Names \ N : sym'[m] = sym[m],
         \A m \in Names : /\ sym'[m].seg = sym[m].seg /\ sym'[m].from = sym[m].from
                          /\ sym'[m].ref => sym[m].ref \/ m \in roots'
                          /\ sym'[m].kind \in {sym[m].kind, "lazy"}
  PROVE  UsedOnly'
<1>1. roots' = roots \cup {n} BY DEF DataRef
<1>2. Onward BY <1>1 DEF Onward, ClassGrows
<1>3. Sound(graph', Live', CallsOf', Soft') BY <1>2, DataRefThen
<1>4. ASSUME NEW m \in N PROVE Waits(m)'
  <2>1. Waits(m) /\ m \in Names BY DEF UsedOnly
  <2>2. sym'[m] \in Symbol BY <2>1 DEF TypesFine
  <2>3. sym'[m].kind = "imported" => sym'[m].seg = Nil BY <2>1 DEF Waits
  <2> DEFINE new == sym'[m]
             F == new.from
  <2>4. F \subseteq sym[m].from /\ new.from = F /\ sym'[m] = new BY <2>1
  <2>5. new \in Symbol /\ (new.ref => sym[m].ref \/ m \in roots') /\ (new.kind = "imported" => new.seg = Nil)
    BY <2>1, <2>2, <2>3
  <2> HIDE DEF new, F
  <2> QED BY <1>2, <2>1, <2>4, <2>5, StaysWaits
<1> QED BY <1>2, <1>3, <1>4, StaysUsed

(* The step that follows the fixups, or makes segments, but no definition *)
LEMMA SegmentsThen ==
  ASSUME TypesFine, Marks, TypesFine', Marks', UsedOnly, phase = "pass1", phase' = "pass1",
         ClassGrows(class, class'), uses' = uses, sym' = sym, roots \subseteq roots',
         graph' = graph \/ \E t \in roots' \cap Segs : graph' = RefSeg(graph, t)
  PROVE  UsedOnly'
<1> DEFINE N == {}
<1>1. Onward BY DEF Onward
<1>2. Sound(graph', Live', CallsOf', Soft')
  <2>1. CASE graph' = graph BY <1>1, <2>1, SoundStays
  <2>2. CASE graph' # graph
    <3>1. PICK t \in roots' \cap Segs : graph' = RefSeg(graph, t) BY <2>2
    <3>2. t \in Live' BY <1>1, RootLives
    <3> QED BY <1>1, <3>1, <3>2, RefSegThen
  <2> QED BY <2>1, <2>2
<1>3. /\ N \in SUBSET Names /\ \A m \in N : Waits(m)'
      /\ \A m \in Names \ N : sym'[m] = sym[m]
  OBVIOUS
<1> HIDE DEF N
<1> QED BY <1>1, <1>2, <1>3, StaysUsed

LEMMA AddEdgeThen ==
  ASSUME TypesFine, Marks, TypesFine', Marks', UsedOnly, NEW s \in Segs, NEW n \in Names, AddEdge(s, n)
  PROVE  UsedOnly'
<1> USE NilAssumption
<1> DEFINE N == {n}
           t == sym[n].seg
<1>1. /\ phase = "pass1" /\ phase' = "pass1" /\ class' = class /\ roots' = roots
      /\ uses' = uses \cup {<<s, n>>} /\ graph' = AddEdgeGraph(s, n)
      /\ sym'[n] = AddEdgeSym(s, sym[n]) /\ \A m \in Names \ N : sym'[m] = sym[m]
  BY DEF AddEdge, Reading, TypesFine
<1>2. sym[n] \in Symbol /\ GraphOK(graph) /\ Waits(n) BY <1>1 DEF TypesFine, UsedOnly
<1>3. /\ sym'[n].seg = t /\ sym'[n].kind = sym[n].kind
      /\ sym'[n].from \subseteq sym[n].from \cup {s}
      /\ sym'[n].ref => sym[n].ref \/ s \in graph.refd
  BY <1>1, <1>2 DEF AddEdgeSym, Symbol
<1>4. Onward BY <1>1, <1>3 DEF Onward, ClassGrows
<1>5. s \in graph.refd => s \in Live' BY <1>1, <1>4, UserLives
<1>6. Waits(n)'
  <2>1. \A a \in sym'[n].from : <<a, n>> \in uses' BY <1>1, <1>2, <1>3 DEF Waits
  <2>2. sym'[n].ref => n \in roots' \/ \E a \in Live' : <<a, n>> \in uses'
    <3>1. CASE s \in graph.refd BY <1>1, <1>5, <3>1
    <3>2. CASE s \notin graph.refd /\ sym'[n].ref /\ n \notin roots
      <4>1. PICK a \in Live : <<a, n>> \in uses BY <1>2, <1>3, <3>2 DEF Waits
      <4>2. a \in Segs /\ <<a, n>> \in uses' BY <1>1, <4>1 DEF Live
      <4>3. a \in Live' BY <1>4, <4>1, <4>2, UserLives
      <4> QED BY <4>2, <4>3
    <3> QED BY <1>1, <3>1, <3>2
  <2>3. sym'[n].kind = "imported" => sym'[n].seg = Nil BY <1>2, <1>3 DEF Waits
  <2> QED BY <2>1, <2>2, <2>3 DEF Waits
<1>7. Sound(graph', Live', CallsOf', Soft')
  <2>1. CASE ~Placed(sym[n]) \/ t = s BY <1>1, <1>4, <2>1, SoundStays DEF AddEdgeGraph
  <2>2. CASE Placed(sym[n]) /\ t # s
    <3>1. t \in Segs /\ t # Nil BY <1>2, <2>2 DEF Symbol, Placed
    <3>2. t \in CallsOf'[s] /\ (s \in Live' => t \in Live') BY <1>1, <1>3, <1>4, <3>1, CalledLives
    <3>3. CASE s \in graph.refd
      <4>1. graph' = RefSeg(graph, t) BY <1>1, <2>2, <3>3 DEF AddEdgeGraph
      <4> QED BY <1>1, <1>4, <1>5, <3>2, <3>3, <4>1, RefSegThen
    <3>4. CASE s \notin graph.refd
      <4> DEFINE F == {s}
      <4>1. graph' = Point(graph, F, t) BY <1>1, <2>2, <3>4 DEF AddEdgeGraph
      <4>2. \A a \in F : t \in CallsOf'[a] \cup Soft' BY <3>2
      <4>3. Sound(graph, Live', CallsOf', Soft') BY <1>1, <1>4, SoundStays
      <4> HIDE DEF F
      <4> QED BY <1>2, <4>1, <4>2, <4>3, PointSound
    <3> QED BY <3>3, <3>4
  <2> QED BY <2>1, <2>2
<1>8. N \in SUBSET Names /\ \A m \in N : Waits(m)' BY <1>6
<1> HIDE DEF N
<1> QED BY <1>1, <1>4, <1>7, <1>8, StaysUsed

(* What is needed is refd and so not eliminated: the symbols that lose their *)
(* homes are not those of needed code.                                      *)
LEMMA SetSegmentsThen ==
  ASSUME TypesFine, Marks, TypesFine', Marks', UsedOnly, SetSegments
  PROVE  UsedOnly'
<1> USE NilAssumption
<1> DEFINE K == (Live' \cap graph.refd) \cup Soft
<1>1. /\ class' = class /\ graph' = graph /\ uses' = uses /\ roots' = roots
      /\ phase = "pass1" /\ phase' = "done" /\ dead' = dead \cup MarkDead
      /\ sym' = [n \in Names |-> KillUnrefedSyms(ConvertLazyRefs(sym[n]), dead')]
  BY DEF SetSegments, Reading
<1>2. Soft' = Soft /\ MarkDead' = MarkDead BY <1>1 DEF Soft, MarkDead
<1>3. /\ Live' \in SUBSET Segs
      /\ Rooted' \subseteq Live'
      /\ \A s \in Live' : CallsOf'[s] \subseteq Live'
  BY LiveClosedThen
<1>4. \A s \in Segs : CallsOf'[s] = Calls(s)' BY DEF CallsOf
<1>5. ASSUME NEW n \in Names, NEW h \in graph.refd, sym[n].seg = h, h \in Code PROVE sym'[n].seg = h
  <2>1. h \notin dead' BY <1>1, <1>5 DEF Marks, Code
  <2>2. sym[n] \in Symbol /\ SymFine(class, graph, sym[n], n) BY DEF TypesFine, Marks
  <2>3. h \in Segs BY <1>5 DEF TypesFine, GraphOK, Graph
  <2>4. ~Undefined(sym[n]) BY <1>5, <2>2, <2>3 DEF SymFine
  <2>5. ConvertLazyRefs(sym[n]) = sym[n] BY <2>4 DEF ConvertLazyRefs, Undefined
  <2> QED BY <1>1, <1>5, <2>1, <2>5 DEF KillUnrefedSyms
<1>6. ASSUME NEW n \in Names, sym[n].seg # Nil
      PROVE  sym[n].seg \in Segs /\ sym[n].seg \in Soft \cup Code
  <2>1. sym[n] \in Symbol /\ SymFine(class, graph, sym[n], n) BY DEF TypesFine, Marks
  <2> QED BY <1>6, <2>1 DEF SymFine, Soft, Code, Symbol, TypesFine
<1>7. Rooted \subseteq K
  <2>1. ASSUME NEW t \in roots \cap Segs PROVE t \in K
    BY <1>1, <1>3, <2>1 DEF Marks, Rooted
  <2>2. ASSUME NEW n \in roots \cap Names, sym[n].seg # Nil PROVE sym[n].seg \in K
    <3>1. CASE sym[n].seg \in Code
      <4>1. sym[n].ref /\ SymFine(class, graph, sym[n], n) BY DEF Marks
      <4>2. sym[n].seg \in graph.refd BY <2>2, <3>1, <4>1 DEF SymFine, Code
      <4>3. sym'[n].seg = sym[n].seg BY <1>5, <3>1, <4>2
      <4>4. sym[n].seg \in Rooted' BY <1>1, <2>2, <4>3 DEF Rooted, Home
      <4> QED BY <1>3, <4>2, <4>4
    <3> QED BY <1>6, <2>2, <3>1
  <2> QED BY <2>1, <2>2 DEF Rooted, Home
<1>8. ASSUME NEW s \in K PROVE Calls(s) \subseteq K
  <2>1. CASE s \in Soft BY <2>1, SoftCallsNothing
  <2>2. CASE s \in Live' \cap graph.refd
    <3> SUFFICES ASSUME NEW m \in Names, <<s, m>> \in uses, sym[m].seg # Nil PROVE sym[m].seg \in K
      BY DEF Calls, Home
    <3>1. CASE sym[m].seg \in Code
      <4>1. EdgeFine(class, graph, sym[m], s) BY DEF Marks
      <4>2. sym[m].seg \in graph.refd BY <1>6, <2>2, <3>1, <4>1 DEF EdgeFine, Code
      <4>3. sym'[m].seg = sym[m].seg BY <1>5, <3>1, <4>2
      <4>4. sym[m].seg \in Calls(s)' BY <1>1, <4>3 DEF Calls, Home
      <4>5. s \in Segs BY <1>3, <2>2
      <4> QED BY <1>3, <1>4, <2>2, <4>2, <4>4, <4>5
    <3> QED BY <1>6, <3>1
  <2> QED BY <2>1, <2>2
<1>9. K \in SUBSET Segs BY <1>3 DEF Soft
<1>10. Live \subseteq K
  <2> HIDE DEF K
  <2> QED BY <1>7, <1>8, <1>9 DEF Live
<1>11. graph'.refd \subseteq Live' \cup Soft' BY <1>1, <1>2, <1>10 DEF UsedOnly
<1> QED BY <1>1, <1>2, <1>11 DEF UsedOnly

LEMMA UsedStays ==
  ASSUME Steady, TypesFine, Marks, TypesFine', Marks', UsedOnly, Next, phase' # "wild"
  PROVE  UsedOnly'
<1> USE NilAssumption
<1>0. /\ \A n \in Names : sym[n] \in Symbol
      /\ ClassGrows(class, class)
  BY DEF TypesFine, ClassGrows
<1>1. ASSUME NEW s \in Segs, NEW c \in {"code", "data", "unwind"}, SegDef(s, c) PROVE UsedOnly'
  <2>1. ClassGrows(class, class') BY <1>1 DEF SegDef, ClassGrows, TypesFine
  <2>2. /\ phase = "pass1" /\ phase' = "pass1" /\ uses' = uses /\ sym' = sym /\ roots' = roots
        /\ graph' = graph
    BY <1>1 DEF SegDef, Reading
  <2> QED BY <2>1, <2>2, SegmentsThen
<1>2. ASSUME NEW s \in Segs, NEW n \in Names, AddEdge(s, n) PROVE UsedOnly'
  BY <1>2, AddEdgeThen
<1>3. ASSUME NEW n \in Names, DataFixup(n) \/ SetStartSym(n) PROVE UsedOnly'
  <2> DEFINE N == {n}
  <2>1. /\ DataRef(n) /\ phase = "pass1" /\ class' = class /\ uses' = uses
        /\ sym'[n] = Flagged(sym[n]) /\ \A m \in Names \ N : sym'[m] = sym[m]
    BY <1>3 DEF DataFixup, SetStartSym, Reading, TypesFine
  <2>2. phase' = "pass1" /\ n \in roots' BY <2>1 DEF DataRef
  <2>3. \A m \in Names : /\ sym'[m].seg = sym[m].seg /\ sym'[m].from = sym[m].from
                         /\ sym'[m].ref => sym[m].ref \/ m \in roots'
                         /\ sym'[m].kind \in {sym[m].kind, "lazy"}
    BY <1>0, <2>1, <2>2 DEF Flagged, Symbol
  <2>4. N \in SUBSET Names OBVIOUS
  <2> HIDE DEF N
  <2> QED BY <2>1, <2>2, <2>3, <2>4, FlaggedThen
<1>4. ASSUME NEW s \in Segs, NEW t \in Segs, SegFixup(s, t) PROVE UsedOnly'
  <2>1. /\ phase = "pass1" /\ phase' = "pass1" /\ class' = class /\ uses' = uses /\ sym' = sym
        /\ roots' = roots \cup {t} /\ graph' = RefSeg(graph, t)
    BY <1>4 DEF SegFixup, Reading
  <2>2. t \in roots' \cap Segs BY <2>1
  <2> QED BY <1>0, <2>1, <2>2, SegmentsThen
<1>5. ASSUME NEW t \in Segs, StartSeg(t) PROVE UsedOnly'
  <2>1. /\ phase = "pass1" /\ phase' = "pass1" /\ class' = class /\ uses' = uses /\ sym' = sym
        /\ roots' = roots \cup {t} /\ graph' = RefSeg(graph, t)
    BY <1>5 DEF StartSeg, Reading
  <2>2. t \in roots' \cap Segs BY <2>1
  <2> QED BY <1>0, <2>1, <2>2, SegmentsThen
<1>6. ASSUME NEW n \in Names, NEW t \in Segs, PubDef(n, t) PROVE UsedOnly'
  <2> DEFINE new == Become("public", sym[n], t)
  <2>1. /\ phase = "pass1" /\ phase' = "pass1" /\ class' = class /\ uses' = uses /\ roots' = roots
        /\ sym' = [sym EXCEPT ![n] = new]
        /\ graph' = DefStripSym(graph, Waiting(sym[n]), t)
        /\ Open(sym[n]) /\ "public" \in Ways(n)
    BY <1>6 DEF PubDef, Define, Reading
  <2>2. Undefined(sym[n]) \/ sym[n].kind = "imported" BY <2>1, OpenKinds
  <2>3. Waiting(sym[n]) = sym[n] BY <2>2 DEF Waiting, Communal, Undefined
  <2>4. new \in Symbol BY <1>0, RecordTypes DEF Kinds
  <2>5. new.from = {} /\ new.ref = sym[n].ref /\ new.kind = "public" /\ new.seg = t
    BY <1>0 DEF Become, Symbol
  <2>6. \E u \in Segs : new.seg = u /\ graph' = DefStripSym(graph, sym[n], u) BY <2>1, <2>3, <2>5
  <2>7. new.from \subseteq sym[n].from /\ (new.ref => sym[n].ref \/ n \in roots')
        /\ (new.kind = "imported" => new.seg = Nil)
    BY <2>5
  <2> HIDE DEF new
  <2> QED BY <1>0, <2>1, <2>2, <2>4, <2>6, <2>7, DefinedThen
<1>7. ASSUME NEW n \in Names, AbsDef(n) PROVE UsedOnly'
  <2> DEFINE new == Become("absolute", sym[n], Nil)
  <2>1. /\ phase = "pass1" /\ phase' = "pass1" /\ class' = class /\ uses' = uses /\ roots' = roots
        /\ sym' = [sym EXCEPT ![n] = new]
        /\ graph' = graph
        /\ Open(sym[n]) /\ "absolute" \in Ways(n)
    BY <1>7 DEF AbsDef, Define, Reading
  <2>2. Undefined(sym[n]) \/ sym[n].kind = "imported" BY <2>1, OpenKinds
  <2>3. new \in Symbol BY <1>0, RecordTypes DEF Kinds
  <2>4. new.from \subseteq sym[n].from /\ (new.ref => sym[n].ref \/ n \in roots')
        /\ (new.kind = "imported" => new.seg = Nil)
    BY <1>0 DEF Become, Symbol
  <2> HIDE DEF new
  <2> QED BY <1>0, <2>1, <2>2, <2>3, <2>4, DefinedThen
<1>8. ASSUME NEW n \in Names, NEW t \in Segs, ComDef(n, t) PROVE UsedOnly'
  <2> DEFINE new == Become("communal", sym[n], t)
  <2>1. /\ phase = "pass1" /\ phase' = "pass1" /\ uses' = uses /\ roots' = roots
        /\ sym' = [sym EXCEPT ![n] = new]
        /\ graph' = graph
        /\ class[t] = "none" /\ class' = [class EXCEPT ![t] = "data"]
        /\ Undefined(sym[n]) \/ sym[n].kind = "imported"
    BY <1>8 DEF ComDef, Define, Reading, Made
  <2>2. ClassGrows(class, class') BY <2>1 DEF ClassGrows, TypesFine
  <2>3. new \in Symbol BY <1>0, RecordTypes DEF Kinds
  <2>4. new.from \subseteq sym[n].from /\ (new.ref => sym[n].ref \/ n \in roots')
        /\ (new.kind = "imported" => new.seg = Nil)
    BY <1>0 DEF Become, Symbol
  <2> HIDE DEF new
  <2> QED BY <2>1, <2>2, <2>3, <2>4, DefinedThen
<1>9. ASSUME NEW n \in Names, NEW t \in Segs, NEW c \in {"code", "data"}, ComDat(n, t, c) PROVE UsedOnly'
  <2> DEFINE new == Become("comdat", sym[n], t)
  <2>1. /\ phase = "pass1" /\ phase' \in {"pass1", "wild"} /\ uses' = uses /\ roots' = roots
        /\ sym' = [sym EXCEPT ![n] = new]
        /\ graph' = IF c = "code" THEN DefStripSym(graph, sym[n], t) ELSE graph
        /\ class[t] = "none" /\ class' = [class EXCEPT ![t] = c]
        /\ Open(sym[n]) /\ sym[n].kind # "comdat"
    BY <1>9 DEF ComDat, Define, Reading, Made
  <2>2. ClassGrows(class, class') BY <2>1 DEF ClassGrows, TypesFine
  <2>3. Undefined(sym[n]) \/ sym[n].kind \in {"imported", "communal"} BY <2>1, OpenKinds
  <2>4. new \in Symbol BY <1>0, RecordTypes DEF Kinds
  <2>5. new.from = {} /\ new.ref = sym[n].ref /\ new.kind = "comdat" /\ new.seg = t
    BY <1>0 DEF Become, Symbol
  <2>6. graph' = graph \/ \E u \in Segs : new.seg = u /\ graph' = DefStripSym(graph, sym[n], u)
    BY <2>1, <2>5
  <2>7. new.from \subseteq sym[n].from /\ (new.ref => sym[n].ref \/ n \in roots')
        /\ (new.kind = "imported" => new.seg = Nil)
    BY <2>5
  <2> HIDE DEF new
  <2> QED BY <2>1, <2>2, <2>3, <2>4, <2>6, <2>7, DefinedThen
<1>10. ASSUME NEW n \in Names, Import(n) PROVE UsedOnly'
  <2> DEFINE new == Flagged(Become("imported", sym[n], Nil))
  <2>1. /\ phase = "pass1" /\ phase' = "pass1" /\ class' = class /\ uses' = uses /\ roots' = roots \cup {n}
        /\ sym' = [sym EXCEPT ![n] = new]
        /\ graph' = graph
        /\ Undefined(sym[n])
    BY <1>10 DEF Import, Define, Reading
  <2>2. Become("imported", sym[n], Nil) \in Symbol BY <1>0, RecordTypes DEF Kinds
  <2>3. new \in Symbol BY <2>2, RecordTypes
  <2>4. new.from \subseteq sym[n].from /\ n \in roots' /\ new.seg = Nil
    BY <1>0, <2>1 DEF Become, Flagged, Symbol
  <2> HIDE DEF new
  <2> QED BY <1>0, <2>1, <2>3, <2>4, DefinedThen
<1>11. ASSUME NEW n \in Names, NEW d \in Names, LazyExtdef(n, d) PROVE UsedOnly'
  <2> DEFINE N == {n, d}
  <2>1. /\ DataRef(d) /\ phase = "pass1" /\ class' = class /\ uses' = uses
        /\ sym' = [sym EXCEPT ![n] = Default(@, d), ![d] = Flagged(@)] /\ n # d
    BY <1>11 DEF LazyExtdef, Define, Reading
  <2>2. phase' = "pass1" /\ d \in roots' BY <2>1 DEF DataRef
  <2>3. sym'[n] = Default(sym[n], d) /\ sym'[d] = Flagged(sym[d]) /\ \A m \in Names \ N : sym'[m] = sym[m]
    BY <2>1 DEF TypesFine
  <2>4. \A m \in Names : /\ sym'[m].seg = sym[m].seg /\ sym'[m].from = sym[m].from
                         /\ sym'[m].ref => sym[m].ref \/ m \in roots'
                         /\ sym'[m].kind \in {sym[m].kind, "lazy"}
    <3>1. ASSUME NEW m \in Names
          PROVE /\ sym'[m].seg = sym[m].seg /\ sym'[m].from = sym[m].from
                /\ sym'[m].ref => sym[m].ref \/ m \in roots'
                /\ sym'[m].kind \in {sym[m].kind, "lazy"}
      <4>1. CASE m = n BY <1>0, <2>3, <4>1 DEF Default, Symbol
      <4>2. CASE m = d BY <1>0, <2>2, <2>3, <4>2 DEF Flagged, Symbol
      <4>3. CASE m \notin N BY <2>3, <4>3
      <4> QED BY <4>1, <4>2, <4>3
    <3> QED BY <3>1
  <2>5. N \in SUBSET Names OBVIOUS
  <2>6. \A m \in Names \ N : sym'[m] = sym[m] BY <2>3
  <2> HIDE DEF N
  <2> QED BY <2>1, <2>2, <2>4, <2>5, <2>6, FlaggedThen
<1>12. CASE EndModule
  <2>1. /\ phase = "pass1" /\ phase' = "pass1" /\ class' = class /\ uses' = uses /\ sym' = sym
        /\ roots' = roots /\ graph' = graph
    BY <1>12 DEF EndModule, Reading
  <2> QED BY <1>0, <2>1, SegmentsThen
<1>13. CASE SetSegments
  BY <1>13, SetSegmentsThen
<1> QED
  BY <1>1, <1>2, <1>3, <1>4, <1>5, <1>6, <1>7, <1>8, <1>9, <1>10, <1>11, <1>12, <1>13 DEF Next

-----------------------------------------------------------------------------
(* The theorem *)

LEMMA InitUsed == Init => UInv
<1> SUFFICES ASSUME Init PROVE UsedOnly
  BY InitFine DEF UInv
<1>1. ASSUME NEW n \in Names PROVE Waits(n)
  <2> DEFINE b == n \in roots
  <2>1. sym[n] = [kind |-> "undefined", seg |-> Nil, from |-> {}, ref |-> b, def |-> Nil, dead |-> FALSE]
    BY DEF Init
  <2>2. b => n \in roots OBVIOUS
  <2> HIDE DEF b
  <2>3. sym[n].from = {} /\ sym[n].kind = "undefined" /\ (sym[n].ref => n \in roots) BY <2>1, <2>2
  <2> QED BY <2>3 DEF Waits
<1>2. Sound(graph, Live, CallsOf, Soft) /\ graph.refd = {} /\ phase = "pass1"
  BY DEF Init, Sound
<1> QED BY <1>1, <1>2 DEF UsedOnly

LEMMA UInvStays == ASSUME Steady, UInv, [Next]_vars PROVE UInv'
<1>1. IInv' BY InvStays DEF UInv
<1>2. CASE UNCHANGED vars
  <2>1. /\ phase' = phase /\ class' = class /\ sym' = sym /\ graph' = graph
        /\ dead' = dead /\ uses' = uses /\ roots' = roots
    BY <1>2 DEF vars
  <2>2. /\ Live' = Live /\ Soft' = Soft /\ CallsOf' = CallsOf /\ MarkDead' = MarkDead
    BY <2>1 DEF Live, Soft, CallsOf, MarkDead, Rooted, Calls, Home
  <2>3. \A n \in Names : Waits(n) => Waits(n)' BY <2>1, <2>2 DEF Waits
  <2>4. UsedOnly => UsedOnly' BY <2>1, <2>2, <2>3 DEF UsedOnly
  <2> QED BY <1>1, <2>1, <2>4 DEF UInv
<1>3. CASE Next
  <2>1. phase = "pass1"
    BY <1>3 DEF Next, SegDef, AddEdge, DataFixup, SetStartSym, SegFixup, StartSeg, PubDef, ComDef, ComDat,
                AbsDef, Import, LazyExtdef, EndModule, SetSegments, Define, Reading
  <2>2. phase' # "wild" => UsedOnly'
    BY <1>1, <1>3, <2>1, UsedStays DEF UInv, IInv
  <2> QED BY <1>1, <2>2 DEF UInv
<1> QED BY <1>2, <1>3

LEMMA UsedOnlyIsEnough == UInv => UnusedCodeGoes
<1> SUFFICES ASSUME UInv PROVE UnusedCodeGoes
  OBVIOUS
<1>1. phase # "wild" => graph.refd \cap Code \subseteq Live
  BY DEF UInv, UsedOnly, Soft, Code
<1>2. phase = "done" => Code \ Live \subseteq dead
  <2>1. phase = "done" => MarkDead \subseteq dead BY DEF UInv, UsedOnly
  <2>2. phase = "done" => Code \ Live \subseteq MarkDead BY <1>1 DEF MarkDead, Code
  <2> QED BY <2>1, <2>2
<1> QED BY <1>1, <1>2 DEF UnusedCodeGoes

(* Only code that is used stays: whatever the order of fixups and           *)
(* definitions, RefSeg marks no code that nothing needs, and MarkDead        *)
(* eliminates all of that. With LiveCodeKept the marks are exactly what the *)
(* fixups mean.                                                             *)
THEOREM UnusedCodeGone == ASSUME Steady PROVE Spec => []UnusedCodeGoes
<1>1. Init => UInv BY InitUsed
<1>2. UInv /\ [Next]_vars => UInv' BY UInvStays
<1>3. UInv => UnusedCodeGoes BY UsedOnlyIsEnough
<1> QED BY <1>1, <1>2, <1>3, PTL DEF Spec

-----------------------------------------------------------------------------
(* What is left has its home: no symbol is in a segment that was replaced,  *)
(* no other symbol is in the segment of a communal one, and the default of  *)
(* a reference is a root.                                                   *)
Anchor(n) ==
  /\ sym[n].kind # "alias" /\ ~sym[n].dead
  /\ sym[n].def # Nil => sym[n].def \in roots
  /\ sym[n].kind = "lazy" => sym[n].def # Nil
  /\ sym[n].seg \notin dead
  /\ Communal(sym[n]) => \A m \in Names \ {n} : sym[m].seg # sym[n].seg

AInv == /\ IInv
        /\ phase = "pass1" => \A n \in Names : Anchor(n)
        /\ NoDanglingFixup

(* Steps that define nothing *)
LEMMA HomesSame ==
  ASSUME \A n \in Names : Anchor(n), roots \subseteq roots', dead' = dead,
         \A n \in Names : /\ sym'[n].seg = sym[n].seg /\ sym'[n].dead = sym[n].dead
                          /\ \/ sym'[n].kind = sym[n].kind /\ sym'[n].def = sym[n].def
                             \/ sym'[n].kind = "lazy" /\ sym'[n].def \in roots' \ {Nil}
  PROVE  \A n \in Names : Anchor(n)'
<1> SUFFICES ASSUME NEW n \in Names PROVE Anchor(n)'
  OBVIOUS
<1>1. /\ sym'[n].kind # "alias" /\ ~sym'[n].dead
      /\ sym'[n].def # Nil => sym'[n].def \in roots'
      /\ sym'[n].kind = "lazy" => sym'[n].def # Nil
      /\ sym'[n].seg \notin dead'
  BY DEF Anchor
<1>2. Communal(sym'[n]) => Communal(sym[n]) BY DEF Communal
<1>3. Communal(sym'[n]) => \A m \in Names \ {n} : sym'[m].seg # sym'[n].seg
  BY <1>2 DEF Anchor
<1> QED BY <1>1, <1>3 DEF Anchor

(* The step that defines symbol n. What it replaces was no other's home. *)
LEMMA DefinedAnchor ==
  ASSUME TypesFine, \A m \in Names : Anchor(m), roots \subseteq roots',
         NEW n \in Names, NEW new, sym' = [sym EXCEPT ![n] = new],
         dead' = HashReplace(sym[n]) \/ dead' = dead,
         new.kind \notin {"alias", "lazy"}, new.dead = sym[n].dead, new.def = sym[n].def,
         new.seg \notin dead',
         new.seg # Nil => \A m \in Names : Communal(sym[m]) => sym[m].seg # new.seg,
         Communal(new) => \A m \in Names : sym[m].seg # new.seg
  PROVE  \A m \in Names : Anchor(m)'
<1> SUFFICES ASSUME NEW m \in Names PROVE Anchor(m)'
  OBVIOUS
<1>1. sym'[n] = new /\ \A k \in Names \ {n} : sym'[k] = sym[k] BY DEF TypesFine
<1>2. CASE m = n
  <2>1. /\ new.kind # "alias" /\ ~new.dead /\ new.kind # "lazy"
        /\ new.def # Nil => new.def \in roots'
    BY DEF Anchor
  <2>2. Communal(new) => \A k \in Names \ {n} : sym'[k].seg # new.seg BY <1>1
  <2> QED BY <1>1, <1>2, <2>1, <2>2 DEF Anchor
<1>3. CASE m # n
  <2>1. sym'[m] = sym[m] BY <1>1, <1>3
  <2>2. /\ sym[m].kind # "alias" /\ ~sym[m].dead
        /\ sym[m].def # Nil => sym[m].def \in roots'
        /\ sym[m].kind = "lazy" => sym[m].def # Nil
    BY DEF Anchor
  <2>3. sym[m].seg \notin dead'
    <3>1. Communal(sym[n]) => sym[m].seg # sym[n].seg BY <1>3 DEF Anchor
    <3>2. sym[m].seg \notin dead BY DEF Anchor
    <3> QED BY <3>1, <3>2 DEF HashReplace
  <2>4. Communal(sym[m]) => \A k \in Names \ {m} : sym'[k].seg # sym[m].seg
    <3>1. SUFFICES ASSUME Communal(sym[m]), NEW k \in Names \ {m} PROVE sym'[k].seg # sym[m].seg
      OBVIOUS
    <3>2. CASE k # n BY <1>1, <3>1, <3>2 DEF Anchor
    <3>3. CASE k = n /\ new.seg # Nil BY <1>1, <3>1, <3>3
    <3>4. CASE k = n /\ new.seg = Nil BY <1>1, <3>1, <3>4 DEF TypesFine, Placed
    <3> QED BY <3>2, <3>3, <3>4
  <2> QED BY <2>1, <2>2, <2>3, <2>4 DEF Anchor
<1> QED BY <1>2, <1>3

LEMMA AnchorsStay ==
  ASSUME Steady, TypesFine, Marks, TypesFine', \A n \in Names : Anchor(n), Next, phase' = "pass1"
  PROVE  \A n \in Names : Anchor(n)'
<1> USE NilAssumption
<1>0. /\ \A n \in Names : sym[n] \in Symbol
      /\ \A t \in Segs : class[t] = "none" => t \notin dead /\ \A n \in Names : sym[n].seg # t
      /\ \A n \in Names : SymFine(class, graph, sym[n], n)
  BY DEF TypesFine, Marks, SymFine
<1>1. ASSUME sym' = sym, dead' = dead, roots \subseteq roots' PROVE \A n \in Names : Anchor(n)'
  BY <1>1, HomesSame
<1>2. ASSUME NEW s \in Segs, NEW n \in Names, AddEdge(s, n) PROVE \A m \in Names : Anchor(m)'
  <2>1. dead' = dead /\ roots' = roots /\ sym' = [sym EXCEPT ![n] = AddEdgeSym(s, sym[n])]
    BY <1>2 DEF AddEdge
  <2>2. ASSUME NEW e \in Symbol
        PROVE  LET f == AddEdgeSym(s, e)
               IN  f.seg = e.seg /\ f.dead = e.dead /\ f.kind = e.kind /\ f.def = e.def
    BY DEF AddEdgeSym, Symbol
  <2>3. \A m \in Names : /\ sym'[m].seg = sym[m].seg /\ sym'[m].dead = sym[m].dead
                         /\ sym'[m].kind = sym[m].kind /\ sym'[m].def = sym[m].def
    BY <1>0, <2>1, <2>2 DEF TypesFine
  <2> QED BY <2>1, <2>3, HomesSame
<1>3. ASSUME NEW n \in Names, DataFixup(n) \/ SetStartSym(n) PROVE \A m \in Names : Anchor(m)'
  <2>1. dead' = dead /\ roots \subseteq roots' /\ sym' = [sym EXCEPT ![n] = Flagged(sym[n])]
    BY <1>3 DEF DataFixup, SetStartSym, DataRef
  <2>2. \A m \in Names : /\ sym'[m].seg = sym[m].seg /\ sym'[m].dead = sym[m].dead
                         /\ sym'[m].kind = sym[m].kind /\ sym'[m].def = sym[m].def
    BY <1>0, <2>1 DEF TypesFine, Flagged, Symbol
  <2> QED BY <2>1, <2>2, HomesSame
<1>4. ASSUME NEW n \in Names, NEW t \in Segs, PubDef(n, t) PROVE \A m \in Names : Anchor(m)'
  <2> DEFINE new == Become("public", sym[n], t)
  <2>1. /\ dead' = HashReplace(sym[n]) /\ roots' = roots /\ sym' = [sym EXCEPT ![n] = new]
        /\ t \in SegNodes /\ "public" \in Ways(n)
    BY <1>4 DEF PubDef, Define
  <2>2. ~Communal(sym[n]) BY <1>0, <2>1 DEF SymFine
  <2>3. dead' = dead BY <2>1, <2>2 DEF HashReplace
  <2>4. new.kind = "public" /\ new.seg = t /\ new.dead = sym[n].dead /\ new.def = sym[n].def
    BY <1>0 DEF Become, Symbol
  <2>5. t \notin dead /\ \A m \in Names : Communal(sym[m]) => sym[m].seg # t BY <2>1 DEF SegNodes
  <2>6. ~Communal(new) BY <2>4 DEF Communal
  <2> HIDE DEF new
  <2> QED BY <2>1, <2>3, <2>4, <2>5, <2>6, DefinedAnchor
<1>5. ASSUME NEW n \in Names, AbsDef(n) PROVE \A m \in Names : Anchor(m)'
  <2> DEFINE new == Become("absolute", sym[n], Nil)
  <2>1. /\ dead' = HashReplace(sym[n]) /\ roots' = roots /\ sym' = [sym EXCEPT ![n] = new]
    BY <1>5 DEF AbsDef
  <2>2. new.kind = "absolute" /\ new.seg = Nil /\ new.dead = sym[n].dead /\ new.def = sym[n].def
    BY <1>0 DEF Become, Symbol
  <2>3. ~Communal(new) /\ Nil \notin dead' BY <2>2 DEF Communal, TypesFine
  <2> HIDE DEF new
  <2> QED BY <2>1, <2>2, <2>3, DefinedAnchor
<1>6. ASSUME NEW n \in Names, NEW t \in Segs, NEW c, NEW kind \in {"communal", "comdat"},
             Made(t, c), sym' = [sym EXCEPT ![n] = Become(kind, sym[n], t)],
             dead' = HashReplace(sym[n]) \/ dead' = dead, roots' = roots
      PROVE  \A m \in Names : Anchor(m)'
  <2> DEFINE new == Become(kind, sym[n], t)
  <2>1. new.kind = kind /\ new.seg = t /\ new.dead = sym[n].dead /\ new.def = sym[n].def
    BY <1>0 DEF Become, Symbol
  <2>2. t \notin dead /\ \A m \in Names : sym[m].seg # t BY <1>0, <1>6 DEF Made
  <2>3. t \notin dead' BY <1>6, <2>2 DEF HashReplace
  <2>4. sym' = [sym EXCEPT ![n] = new] BY <1>6
  <2> HIDE DEF new
  <2> QED BY <1>6, <2>1, <2>2, <2>3, <2>4, DefinedAnchor
<1>7. ASSUME NEW n \in Names, Import(n) PROVE \A m \in Names : Anchor(m)'
  <2> DEFINE new == Flagged(Become("imported", sym[n], Nil))
  <2>1. dead' = dead /\ roots \subseteq roots' /\ sym' = [sym EXCEPT ![n] = new]
    BY <1>7 DEF Import
  <2>2. new.kind = "imported" /\ new.seg = Nil /\ new.dead = sym[n].dead /\ new.def = sym[n].def
    BY <1>0 DEF Flagged, Become, Symbol
  <2>3. ~Communal(new) /\ Nil \notin dead' BY <2>2 DEF Communal, TypesFine
  <2> HIDE DEF new
  <2> QED BY <2>1, <2>2, <2>3, DefinedAnchor
<1>8. ASSUME NEW n \in Names, NEW d \in Names, LazyExtdef(n, d) PROVE \A m \in Names : Anchor(m)'
  <2>1. /\ dead' = dead /\ roots' = roots \cup {d} /\ n # d
        /\ sym' = [sym EXCEPT ![n] = Default(@, d), ![d] = Flagged(@)]
    BY <1>8 DEF LazyExtdef, DataRef
  <2>2. sym'[n] = Default(sym[n], d) /\ sym'[d] = Flagged(sym[d]) /\ \A m \in Names \ {n, d} : sym'[m] = sym[m]
    BY <2>1 DEF TypesFine
  <2>3. ASSUME NEW m \in Names
        PROVE /\ sym'[m].seg = sym[m].seg /\ sym'[m].dead = sym[m].dead
              /\ \/ sym'[m].kind = sym[m].kind /\ sym'[m].def = sym[m].def
                 \/ sym'[m].kind = "lazy" /\ sym'[m].def \in roots' \ {Nil}
    <3>1. CASE m = n
      <4>1. LET e == Default(sym[n], d)
            IN  e.seg = sym[n].seg /\ e.dead = sym[n].dead /\ e.kind = "lazy" /\ e.def = d
        BY <1>0 DEF Default, Symbol
      <4>2. d \in roots' \ {Nil} BY <2>1
      <4> QED BY <2>2, <3>1, <4>1, <4>2
    <3>2. CASE m = d BY <1>0, <2>2, <3>2 DEF Flagged, Symbol
    <3>3. CASE m \notin {n, d} BY <2>2, <3>3
    <3> QED BY <3>1, <3>2, <3>3
  <2> QED BY <2>1, <2>3, HomesSame
<1>9. ASSUME NEW n \in Names, NEW t \in Segs, ComDef(n, t) PROVE \A m \in Names : Anchor(m)'
  BY <1>6, <1>9 DEF ComDef
<1>10. ASSUME NEW n \in Names, NEW t \in Segs, NEW c \in {"code", "data"}, ComDat(n, t, c)
       PROVE  \A m \in Names : Anchor(m)'
  <2>1. Made(t, c) /\ sym' = [sym EXCEPT ![n] = Become("comdat", sym[n], t)] /\ dead' = HashReplace(sym[n])
        /\ roots' = roots
    BY <1>10 DEF ComDat
  <2> QED BY <1>6, <2>1
<1>11. ASSUME NEW s \in Segs, NEW c \in {"code", "data", "unwind"}, SegDef(s, c) PROVE \A m \in Names : Anchor(m)'
  BY <1>1, <1>11 DEF SegDef
<1>12. ASSUME NEW t \in Segs, (\E s \in Segs : SegFixup(s, t)) \/ StartSeg(t) PROVE \A m \in Names : Anchor(m)'
  BY <1>1, <1>12 DEF SegFixup, StartSeg
<1>13. CASE EndModule
  BY <1>1, <1>13 DEF EndModule
<1>14. ~SetSegments BY DEF SetSegments
<1> QED
  BY <1>2, <1>3, <1>4, <1>5, <1>7, <1>8, <1>9, <1>10, <1>11, <1>12, <1>13, <1>14 DEF Next

(* A symbol that something left refers to is not in a segment that goes, so *)
(* it is not dead, and if it is an alias now its default is a root.         *)
LEMMA NothingDangles ==
  ASSUME TypesFine, Marks, \A n \in Names : Anchor(n), SetSegments
  PROVE  NoDanglingFixup'
<1> USE NilAssumption
<1>1. /\ class' = class /\ graph' = graph /\ uses' = uses /\ roots' = roots
      /\ phase = "pass1" /\ dead' = dead \cup MarkDead
      /\ sym' = [n \in Names |-> KillUnrefedSyms(ConvertLazyRefs(sym[n]), dead')]
  BY DEF SetSegments, Reading
<1>2. ASSUME NEW n \in Names, sym[n].seg \in graph.refd \/ sym[n].seg \notin MarkDead
      PROVE  sym[n].seg \notin dead'
  BY <1>1, <1>2 DEF Anchor, MarkDead
<1>3. ASSUME NEW n \in Names, sym[n].seg \notin dead'
      PROVE  ~sym'[n].dead /\ (sym'[n].kind = "alias" => sym'[n].def \in roots)
  <2>1. sym[n] \in Symbol /\ Anchor(n) BY DEF TypesFine
  <2>2. Nil \notin dead' BY <1>1 DEF TypesFine, MarkDead
  <2>3. CASE sym[n].kind = "lazy"
    <3>1. LET r == ConvertLazyRefs(sym[n])
          IN  r.kind = "alias" /\ r.seg = Nil /\ r.dead = sym[n].dead /\ r.def = sym[n].def
      BY <2>1, <2>3 DEF ConvertLazyRefs, WeldSyms, Symbol
    <3>2. sym'[n] = ConvertLazyRefs(sym[n]) BY <1>1, <2>2, <3>1 DEF KillUnrefedSyms
    <3> QED BY <2>1, <2>3, <3>1, <3>2 DEF Anchor
  <2>4. CASE sym[n].kind # "lazy"
    <3>1. sym'[n] = sym[n] BY <1>1, <1>3, <2>4 DEF KillUnrefedSyms, ConvertLazyRefs
    <3> QED BY <2>1, <3>1 DEF Anchor
  <2> QED BY <2>3, <2>4
<1>4. ASSUME NEW n \in roots \cap Names PROVE sym[n].seg \notin dead'
  <2>1. sym[n].ref /\ SymFine(class, graph, sym[n], n) BY DEF Marks
  <2>2. sym[n].seg \in graph.refd \/ sym[n].seg \notin MarkDead BY <2>1 DEF SymFine, MarkDead
  <2> QED BY <1>2, <2>2
<1>5. ASSUME NEW u \in uses, u[1] \notin dead' PROVE u[2] \in Names /\ sym[u[2]].seg \notin dead'
  <2>1. u[1] \in Segs /\ u[2] \in Names BY DEF TypesFine
  <2>2. class[u[1]] = "code" /\ EdgeFine(class, graph, sym[u[2]], u[1]) BY DEF Marks
  <2>3. u[1] \in graph.refd BY <1>1, <1>5, <2>1, <2>2 DEF MarkDead
  <2>4. sym[u[2]].seg = u[1] \/ sym[u[2]].seg \in graph.refd \/ sym[u[2]].seg \notin MarkDead
    BY <2>2, <2>3 DEF EdgeFine, MarkDead
  <2> QED BY <1>2, <1>5, <2>1, <2>4
<1>6. ASSUME NEW n \in Names, sym[n].seg \notin dead', NEW m \in Meaning(n)' PROVE ~sym'[m].dead
  <2> DEFINE F == {n} \cup (roots \cap Names)
  <2>1. F \in SUBSET Names /\ n \in F OBVIOUS
  <2>2. \A a \in F : sym[a].seg \notin dead' BY <1>4, <1>6
  <2>3. ASSUME NEW a \in F, sym'[a].kind = "alias" PROVE sym'[a].def \in F
    <3>1. a \in Names /\ sym'[a].def \in roots BY <1>3, <2>2, <2>3
    <3>2. sym'[a].def \in Names
      <4>1. sym[a] \in Symbol /\ Anchor(a) BY <3>1 DEF TypesFine
      <4>2. sym[a].def \in Names \cup {Nil} BY <4>1 DEF Symbol
      <4>3. sym'[a].def = sym[a].def
        BY <1>1, <3>1, <4>1 DEF KillUnrefedSyms, ConvertLazyRefs, WeldSyms, Symbol
      <4> QED BY <3>1, <4>2, <4>3 DEF TypesFine
    <3> QED BY <3>1, <3>2
  <2>4. m \in F
    <3> HIDE DEF F
    <3> QED BY <1>6, <2>1, <2>3 DEF Meaning
  <2> QED BY <1>3, <2>1, <2>2, <2>4
<1> QED BY <1>1, <1>4, <1>5, <1>6 DEF NoDanglingFixup

LEMMA AInvStays == ASSUME Steady, AInv, [Next]_vars PROVE AInv'
<1>1. IInv' BY InvStays DEF AInv
<1>2. CASE UNCHANGED vars
  <2>1. /\ phase' = phase /\ sym' = sym /\ dead' = dead /\ uses' = uses /\ roots' = roots
    BY <1>2 DEF vars
  <2>2. \A n \in Names : Anchor(n) => Anchor(n)' BY <2>1 DEF Anchor
  <2>3. NoDanglingFixup => NoDanglingFixup' BY <2>1 DEF NoDanglingFixup, Meaning
  <2> QED BY <1>1, <2>1, <2>2, <2>3 DEF AInv
<1>3. CASE Next
  <2>1. phase = "pass1"
    BY <1>3 DEF Next, SegDef, AddEdge, DataFixup, SetStartSym, SegFixup, StartSeg, PubDef, ComDef, ComDat,
                AbsDef, Import, LazyExtdef, EndModule, SetSegments, Define, Reading
  <2>2. TypesFine /\ Marks /\ TypesFine' /\ \A n \in Names : Anchor(n)
    BY <1>1, <2>1 DEF AInv, IInv
  <2>3. CASE phase' = "pass1"
    <3>1. \A n \in Names : Anchor(n)' BY <1>3, <2>2, <2>3, AnchorsStay
    <3> QED BY <1>1, <2>3, <3>1 DEF AInv, NoDanglingFixup
  <2>4. CASE phase' = "done"
    <3>1. SetSegments
      BY <1>3, <2>1, <2>4 DEF Next, SegDef, AddEdge, DataFixup, SetStartSym, SegFixup, StartSeg, PubDef,
                ComDef, ComDat, AbsDef, Import, LazyExtdef, EndModule, Define, Reading, DataRef
    <3> QED BY <1>1, <2>2, <2>4, <3>1, NothingDangles DEF AInv
  <2>5. CASE phase' = "wild"
    BY <1>1, <2>5 DEF AInv, NoDanglingFixup
  <2> QED BY <1>1, <2>3, <2>4, <2>5 DEF IInv, TypesFine
<1> QED BY <1>2, <1>3

LEMMA InitAnchored == Init => AInv
<1> SUFFICES ASSUME Init PROVE \A n \in Names : Anchor(n)
  BY InitFine DEF AInv, Init, NoDanglingFixup
<1> SUFFICES ASSUME NEW n \in Names PROVE Anchor(n)
  OBVIOUS
<1> DEFINE b == n \in roots
<1>1. sym[n] = [kind |-> "undefined", seg |-> Nil, from |-> {}, ref |-> b, def |-> Nil, dead |-> FALSE]
  BY DEF Init
<1> HIDE DEF b
<1> QED BY <1>1 DEF Anchor, Init, Communal

(* No fixup that is left refers to a symbol that was eliminated, and none   *)
(* falls back on a default that was: what KillUnrefedSyms and               *)
(* ConvertLazyRefs do after pass 1 leaves a linked image closed.            *)
THEOREM NothingDanglesEver == ASSUME Steady PROVE Spec => []NoDanglingFixup
<1>1. Init => AInv BY InitAnchored
<1>2. AInv /\ [Next]_vars => AInv' BY AInvStays
<1>3. AInv => NoDanglingFixup BY DEF AInv
<1> QED BY <1>1, <1>2, <1>3, PTL DEF Spec
=============================================================================
