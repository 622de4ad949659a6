----------------------------- MODULE MCObjStrip -----------------------------
(* Segments, for TLC: which of them stay (ObjStrip), where those that do    *)
(* are put (Layout), where the fixups of repeated data go (Lidata), which   *)
(* calls of an overlaid program go through a vector (Overlay), and what     *)
(* becomes of fixups in pass 2 (Fixups).                                    *)
(* part says which; the others stay where they began.                       *)
EXTENDS ObjStrip, Integers, Sequences, FiniteSets, TLC

CONSTANTS n1, n2, n3

(* One name is a function or an import, one a COMDAT or communal data, and  *)
(* one is defined or falls back on another.                                 *)
SteadyWays(n) == CASE n = n1 -> {"public", "imported", "absolute", "lazy"}
                   [] n = n2 -> {"comdat", "communal"}
                   [] OTHER  -> {"public", "lazy"}
Symmetric == Permutations(Segs)

VARIABLES part, lFmt, lSegs, lLimit, lGroup, lGroups, lData, lPack, lAddr, lLoc, lTotal, lGrp, lErrors, lPhase,
          xData, xRecord, xLidata, xNumber, xBase, xIsLidata, xIgnore, xFixups, xAsked,
          vAbove, vShort, vNoIndirect, vTurn, vDefined, vReferenced, vPlace, vState, vRef, vMarked,
          vVectors, vFixups, vCallers, vNamed,
          fFmt, fInt, fData, fSaved, fLastSeg, fLayout, fDead, fFar, fAt, fLastOpt, fRelocs, fErrors, fWanted, fPhase
layVars == <<lFmt, lSegs, lLimit, lGroup, lGroups, lData, lPack, lAddr, lLoc, lTotal, lGrp, lErrors, lPhase>>
iterVars == <<xData, xRecord, xLidata, xNumber, xBase, xIsLidata, xIgnore, xFixups, xAsked>>
ovlVars == <<vAbove, vShort, vNoIndirect, vTurn, vDefined, vReferenced, vPlace, vState, vRef, vMarked,
             vVectors, vFixups, vCallers, vNamed>>
fixVars == <<fFmt, fInt, fData, fSaved, fLastSeg, fLayout, fDead, fFar, fAt, fLastOpt, fRelocs, fErrors, fWanted, fPhase>>

(* Code and data with all alignments of a paragraph of four bytes, one      *)
(* segment too long for any group, and at most one of a rarer kind.         *)
Segment(size, align, code) ==
    [size |-> size, align |-> align, code |-> code, use32 |-> FALSE, private |-> FALSE, abs |-> FALSE,
     noClass |-> FALSE, user |-> FALSE, last |-> FALSE, init |-> IF code THEN size ELSE 0, base |-> 0]
Usual == {Segment(3, 1, TRUE), Segment(6, 4, TRUE), Segment(5, 2, TRUE),
          [Segment(11, 1, TRUE) EXCEPT !.last = TRUE], [Segment(7, 1, FALSE) EXCEPT !.init = 2],
          [Segment(4, 2, FALSE) EXCEPT !.user = TRUE, !.init = 3]}
Rare == {Segment(0, 4, TRUE), [Segment(3, 1, FALSE) EXCEPT !.noClass = TRUE],
         [Segment(2, 1, FALSE) EXCEPT !.abs = TRUE], [Segment(2, 2, TRUE) EXCEPT !.base = 13],
         [Segment(6, 2, TRUE) EXCEPT !.use32 = TRUE], [Segment(3, 1, TRUE) EXCEPT !.private = TRUE]}
SegLists(f) ==
    {s \in [1 .. 3 -> Usual \cup Rare] :
        /\ Cardinality({i \in 1 .. 3 : s[i] \in Rare}) <= 1
        /\ f # "real" => \A i \in 1 .. 3 : s[i].base = 0}

Addresses == INSTANCE Layout WITH
    Formats <- {"real", "flat", "split", "os2", "pe"}, Para <- 4, Max16 <- 16, Max32 <- 64, ObjAlign <- 8,
    Limits <- {0, 9}, Segments <- SegLists,
    fmt <- lFmt, segs <- lSegs, packLimit <- lLimit, group <- lGroup, groups <- lGroups, dataGroups <- lData,
    pack <- lPack, addr <- lAddr, loc <- lLoc, total <- lTotal, grp <- lGrp, errors <- lErrors, phase <- lPhase

OneLayout ==
    /\ lFmt = "flat" /\ lLimit = 0 /\ lSegs = [i \in 1 .. 3 |-> Segment(3, 1, TRUE)]
    /\ lPack = [at |-> 0, start |-> 0, num |-> 0, size |-> 0, limit |-> 0, lastseg |-> FALSE]

(* Records with one block of data, by itself or inside others; for more, see *)
(* MCLidata.                                                                *)
OneBlock == {<<3, 0, 1, 0>>, <<2, 1, 3, 0, 2, 0, 0>>, <<1, 1, 2, 1, 2, 0, 1, 0>>, <<0, 0, 1, 0>>}
Iteration == INSTANCE Lidata WITH
    Iterated <- OneBlock, MaxPlain <- 2, MaxRecords <- 3, MaxFixups <- 2,
    data <- xData, record <- xRecord, lidata <- xLidata, number <- xNumber, base <- xBase,
    isLidata <- xIsLidata, ignore <- xIgnore, fixups <- xFixups, asked <- xAsked

(* The parents of three sections: two of them in one area, or none.         *)
Parents == {<<0, 1, 0>>, <<0, 1, 1>>}
Ancestors(parent) ==
    LET up[i \in 0 .. Len(parent)] == IF i = 0 THEN {0} ELSE {i} \cup up[parent[i]] IN up
Vectors == INSTANCE Overlay WITH
    Syms <- {n1}, Last <- 3, Trees <- {Ancestors(p) : p \in Parents}, Width <- 4, MaxFixups <- 1, MaxNamed <- 1,
    above <- vAbove, short <- vShort, noIndirect <- vNoIndirect, turn <- vTurn, defined <- vDefined,
    referenced <- vReferenced, place <- vPlace, ovlstate <- vState, ovlref <- vRef, marked <- vMarked,
    vectors <- vVectors, fixups <- vFixups, callers <- vCallers, named <- vNamed

(* Two code segments, in one group, and one of data.  Segments as such and  *)
(* symbols in them are no different outside DOS.                            *)
Fixed(op, kind, to, frame, addend) == [op |-> op, kind |-> kind, to |-> to, frame |-> frame, addend |-> addend]
SymbolIn(s) == [seg |-> s, ext |-> TRUE]
Imported == [seg |-> 0, ext |-> TRUE]
Targets(f) == {[seg |-> s, ext |-> e] : s \in 1 .. 3, e \in IF f = "dos" THEN BOOLEAN ELSE {TRUE}}
              \cup IF f \in {"ne", "lx", "le"} THEN {Imported} ELSE {}
CallsTo(f) ==
    {Fixed("call", "near", t, IF f = "dos" THEN "place" ELSE "target", 0) : t \in Targets(f)} \cup
    {Fixed("call far", "far", t, "target", 0) : t \in Targets(f)}
PointersTo(f) ==
    {Fixed("", k, t, r, IF k = "base" THEN 0 ELSE 1) : k \in {"offset", "base", "far"}, t \in Targets(f),
                                                    r \in IF f = "dos" THEN {"target", "group", "seg"} ELSE {"target"}}
    \cup IF f = "ne" THEN {Fixed("", k, t, "target", 0) : k \in {"offset", "far"}, t \in Targets(f)} ELSE {}
Plain == {Fixed("push", "none", SymbolIn(1), "target", 0), Fixed("call far", "far", SymbolIn(1), "target", 0),
          Fixed("", "offset", SymbolIn(1), "target", 1)}
ItemsIn(f, s) ==
    CASE s = 1 -> {i \in Plain : i.op # ""} \cup CallsTo(f)
      [] s = 2 -> {i \in Plain : i.op # ""} \cup {Fixed("jmp far", "far", SymbolIn(1), "target", 0)}
      [] s = 3 -> {i \in Plain : i.op = ""} \cup PointersTo(f)
TwoGroups(f) ==
    LET at(seg, off, linear) == [seg |-> seg, off |-> off, linear |-> linear]
        g == IF f = "dos" THEN <<at(1, 2, 6), at(7, 2, 30)>> ELSE <<at(1, 0, 6), at(2, 0, 32)>> IN
    {[groups |-> g, group |-> <<1, 1, 2>>, delta |-> <<0, 12, 0>>, own |-> o] : o \in {f = "dos", FALSE}}
FarCallsOn(l) == {TRUE}
Somewhere(x) == IF x = <<"lx", FALSE>> THEN {0} ELSE {0, 5}
References == INSTANCE Fixups WITH
    Formats <- {"dos", "ne", "lx", "le", "pe"}, Segs <- 1 .. 3, Code <- {1, 2}, Layouts <- TwoGroups,
    Items <- ItemsIn, MaxItems <- 3, MaxCells <- 12, Para <- 4, Word <- 128, PageSize <- 4, Base <- 20,
    FarCalls <- FarCallsOn, Loads <- Somewhere,
    fmt <- fFmt, intRelocs <- fInt, data <- fData, saved <- fSaved, lastSeg <- fLastSeg, layout <- fLayout,
    dead <- fDead, far <- fFar, at <- fAt, lastOpt <- fLastOpt, relocs <- fRelocs, errors <- fErrors,
    wanted <- fWanted, phase <- fPhase

SegInit ==
    /\ part \in {"strip", "layout", "lidata", "vectors", "fixups"}
    /\ (part # "vectors" => vAbove = Ancestors(<<0, 1, 0>>) /\ vShort = FALSE /\ vNoIndirect = FALSE)
    /\ (part # "fixups" => fFmt = "dos")
    /\ References!Init /\ Vectors!Init /\ Iteration!Init
    /\ Init /\ (part # "strip" => roots = {})
    /\ (part # "layout" => OneLayout) /\ Addresses!Init

(* At most three calls: through all segments and back. *)
Strip(A) == part = "strip" /\ A /\ Cardinality(uses') <= 3 /\ UNCHANGED <<part, layVars, iterVars, ovlVars, fixVars>>
Lay(A) == part = "layout" /\ A /\ UNCHANGED <<part, vars, iterVars, ovlVars, fixVars>>
Iter(A) == part = "lidata" /\ A /\ UNCHANGED <<part, vars, layVars, ovlVars, fixVars>>
Ovl(A) == part = "vectors" /\ A /\ UNCHANGED <<part, vars, layVars, iterVars, fixVars>>
(* Three references are plain ones. *)
Fix(A) == /\ part = "fixups" /\ A /\ UNCHANGED <<part, vars, layVars, iterVars, ovlVars>>
          /\ (Len(fWanted') = 3 => \A k \in 1 .. 3 : fWanted'[k].item \in Plain)

SegNext ==
    \/ Strip(Next)
    \/ Lay(Addresses!PackSegment) \/ Lay(Addresses!PackLast) \/ Lay(Addresses!SortGroupList)
    \/ Lay(Addresses!AllocSeg) \/ Lay(Addresses!CalcAddresses)
    \/ Iter(Iteration!Next) \/ Ovl(Vectors!Next) \/ Fix(References!Next)

SegSpec == SegInit /\ [][SegNext]_<<part, vars, layVars, iterVars, ovlVars, fixVars>>

(* The properties of Layout, Lidata, Overlay and Fixups. *)
LayoutRight == Addresses!TypeOK /\ Addresses!EverythingPlaced /\ Addresses!PackedFit
FixupsFollow == Iteration!TypeOK /\ Iteration!FixupsFollow
VectorsExact == Vectors!TypeOK /\ Vectors!CallsArrive /\ Vectors!VectorsNeeded
ReferencesRight == References!TypeOK /\ References!ReferencesRight
=============================================================================
