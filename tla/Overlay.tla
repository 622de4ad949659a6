------------------------------- MODULE Overlay -------------------------------
(****************************************************************************)
(* Overlay vectors of a DOS executable (c/ovlsupp.c): which symbols get one *)
(* while pass 1 reads the sections, and what a fixup then refers to.        *)
(*                                                                          *)
(* At run time a section is in memory while one of its descendants runs,    *)
(* and nothing is known of any other. A vector is an entry of the root that *)
(* loads the section of a function and jumps to it. Object files are read   *)
(* section by section, in the order of their numbers, then libraries, whose *)
(* modules belong to the root (FMTDATA distribute, which spreads them over  *)
(* the sections, is off: c/distrib.c has the code commented out). A symbol  *)
(* is a global name of an OMF module; aliases, COMDATs and communal symbols *)
(* are left out, and sections that hold no files change nothing.            *)
(****************************************************************************)
EXTENDS Integers, Sequences, FiniteSets

CONSTANTS Syms,
          Last,    \* the sections are 0 (Root) to Last, in the order they are read
          Trees,   \* what the overlay directives may say: for each section, itself and
                   \* those it is loaded with
          Width,   \* ovlref holds numbers below Width: it has 12 bits
          MaxFixups, MaxNamed   \* bounds: fixups, and directives

VARIABLES above,       \* the tree of sections: chains of section.parent
          short,       \* OPTION SHORTVECTORS
          noIndirect,  \* OPTION NOINDIRECT
          turn,        \* what is read: 0 directives, n section n - 1, then libraries, then nothing
          defined, referenced,  \* SYM_DEFINED and SYM_REFERENCED
          place,       \* where a defined symbol is: the section of its code, Data, or Absolute
          ovlstate,    \* OVL_VEC_MASK: no bit, OVL_MAKE_VECTOR, or both bits
          ovlref,      \* a vector, or (OVL_REF) the section of the first reference
          marked,      \* OVL_REF: ovlref is set
          vectors,     \* OvlVectors, in order; VecNum is their number
          fixups,      \* what StoreFixup stored
          callers,     \* the sections that have an external definition of a symbol
          named        \* the directives, in order: [sym, by]

options == <<above, short, noIndirect>>
ovlSym == <<ovlstate, ovlref, marked, vectors>>
vars == <<above, short, noIndirect, turn, defined, referenced, place, ovlstate, ovlref, marked,
          vectors, fixups, callers, named>>

Data == -1
Absolute == -2
Sections == 0 .. Last
Uses == {"far call", "near call", "far pointer", "segment", "near pointer"}

Init ==
  /\ above \in Trees /\ short \in BOOLEAN /\ noIndirect \in BOOLEAN
  /\ turn = 0 /\ defined = {} /\ referenced = {}
  /\ place = [s \in Syms |-> Absolute]
  /\ ovlstate = [s \in Syms |-> "undecided"] /\ ovlref = [s \in Syms |-> 0] /\ marked = {}
  /\ vectors = << >> /\ fixups = {} /\ callers = [s \in Syms |-> {}] /\ named = << >>

-----------------------------------------------------------------------------
(* Sections and vectors *)

Reading == turn \in 1 .. Last + 2
\* CurrSect: the root for libraries too.
CurrSect == IF turn <= Last + 1 THEN turn - 1 ELSE 0

\* Mutant: the walk starts at the parent.
IsAncestorProper(elder, sect) == elder # sect /\ elder \in above[sect]
IsAncestor(elder, sect) == elder \in above[sect]

\* The number of a new vector.
VecNum == (Len(vectors) + 1) % Width

Vectorize(s) ==
  /\ ovlstate' = [ovlstate EXCEPT ![s] = "vector"]
  /\ ovlref' = [ovlref EXCEPT ![s] = VecNum]
  /\ vectors' = Append(vectors, s)
  /\ UNCHANGED marked

NoVector(s) ==
  /\ ovlstate' = [ovlstate EXCEPT ![s] = "none"]
  /\ UNCHANGED <<ovlref, marked, vectors>>

\* The reference that decides, if the symbol turns out to be in an overlay.
ReferredFrom(s, sect) ==
  /\ marked' = marked \cup {s} /\ ovlref' = [ovlref EXCEPT ![s] = sect]
  /\ UNCHANGED <<ovlstate, vectors>>

\* OVL_FORCE: a directive, or a definition that has no vector, or a vector.
Undecided(s) == ovlstate[s] = "undecided"

OvlDefVector(s, p) ==
  \/ ~Undecided(s) /\ UNCHANGED ovlSym
  \/ Undecided(s) /\ p \in {Data, 0} /\ NoVector(s)
  \/ /\ Undecided(s) /\ p \in 1 .. Last /\ s \in referenced
     /\ IF ovlref[s] # p THEN Vectorize(s) ELSE UNCHANGED ovlSym
  \/ Undecided(s) /\ p \in 1 .. Last /\ s \notin referenced /\ ReferredFrom(s, p)

OvlRefVector(s) ==
  \/ ~Undecided(s) /\ UNCHANGED ovlSym
  \/ /\ Undecided(s) /\ s \notin defined
     /\ IF s \notin marked THEN ReferredFrom(s, CurrSect) ELSE UNCHANGED ovlSym
  \/ /\ Undecided(s) /\ s \in defined
     /\ IF place[s] = Absolute \/ IsAncestor(place[s], CurrSect) THEN UNCHANGED ovlSym
        ELSE Vectorize(s)

\* Mutant: a reference to a symbol that is not defined yet is forgotten.
IndirectCallDefined(s) ==
  IF Undecided(s) /\ s \in defined /\ place[s] \in 1 .. Last THEN Vectorize(s) ELSE UNCHANGED ovlSym
\* A pointer to a function may be called from anywhere.
IndirectCall(s) ==
  \/ ~Undecided(s) /\ UNCHANGED ovlSym
  \/ /\ Undecided(s) /\ s \in defined
     /\ IF place[s] \in 1 .. Last THEN Vectorize(s) ELSE UNCHANGED ovlSym
  \/ Undecided(s) /\ s \notin defined /\ ReferredFrom(s, 0)

-----------------------------------------------------------------------------
(* Directives, then the records of modules *)

\* NOVECTOR, VECTOR and REFERENCE: the first two decide, all count as references.
Directive(s, by) ==
  /\ turn = 0 /\ Len(named) < MaxNamed
  /\ named' = Append(named, [sym |-> s, by |-> by]) /\ referenced' = referenced \cup {s}
  /\ CASE by = "NOVECTOR" -> NoVector(s)
       [] by = "VECTOR" -> Vectorize(s)
       [] OTHER -> UNCHANGED ovlSym
  /\ UNCHANGED <<options, turn, defined, place, fixups, callers>>

\* The next section (LoadObjFiles), the libraries, the end of pass 1.
NextSect ==
  /\ turn <= Last + 2 /\ turn' = turn + 1
  /\ UNCHANGED <<options, defined, referenced, place, ovlSym, fixups, callers, named>>

\* An external definition (UseSymbols, DefineReference).
ExtDef(s) ==
  /\ Reading
  /\ referenced' = referenced \cup {s}
  /\ callers' = [callers EXCEPT ![s] = @ \cup {CurrSect}]
  /\ OvlRefVector(s)
  /\ UNCHANGED <<options, turn, defined, place, fixups, named>>

\* A public definition (DefineSymbol): code of an overlay class is in the section
\* that is read, other segments are in one that is always in memory, NonSect.
PubDef(s, p) ==
  /\ Reading /\ s \notin defined
  /\ defined' = defined \cup {s} /\ place' = [place EXCEPT ![s] = p]
  /\ IF p = Absolute THEN UNCHANGED ovlSym ELSE OvlDefVector(s, p)
  /\ UNCHANGED <<options, turn, referenced, fixups, callers, named>>

\* What each use of a name is as a fixup: in a segment of an overlay class or not
\* (SEG_OVERLAYED), relative or not, of an offset, a segment (base) or both.
FixType(use) ==
  CASE use = "far call" -> [overlayed |-> TRUE, rel |-> FALSE, of |-> "base offset"]
    [] use = "near call" -> [overlayed |-> TRUE, rel |-> TRUE, of |-> "offset"]
    [] use = "far pointer" -> [overlayed |-> FALSE, rel |-> FALSE, of |-> "base offset"]
    [] use = "segment" -> [overlayed |-> TRUE, rel |-> FALSE, of |-> "base"]
    [] use = "near pointer" -> [overlayed |-> FALSE, rel |-> FALSE, of |-> "offset"]

\* TraceFixup: what must be an address of a function that is called later.
Traced(t) ==
  /\ ~noIndirect /\ ~t.rel
  /\ \/ t.of = "offset" /\ short
     \/ t.of = "base"
     \/ t.of = "base offset" /\ ~t.overlayed

Fixup(s, use) ==
  /\ Reading /\ CurrSect \in callers[s] /\ Cardinality(fixups) < MaxFixups
  /\ fixups' = fixups \cup {[sym |-> s, from |-> CurrSect, use |-> use]}
  /\ IF Traced(FixType(use)) THEN IndirectCall(s) ELSE UNCHANGED ovlSym
  /\ UNCHANGED <<options, turn, defined, referenced, place, callers, named>>

Next ==
  \/ \E s \in Syms, by \in {"NOVECTOR", "VECTOR", "REFERENCE"} : Directive(s, by)
  \/ NextSect
  \/ \E s \in Syms : ExtDef(s)
  \/ \E s \in Syms, p \in {CurrSect, Data, Absolute} : PubDef(s, p)
  \/ \E s \in Syms, use \in Uses : Fixup(s, use)

Spec == Init /\ [][Next]_vars

-----------------------------------------------------------------------------
(* What a fixup refers to in pass 2 (BuildReloc), and the properties *)

Redirected(f) ==
  /\ ~FixType(f.use).rel \/ short
  /\ ovlref[f.sym] # 0 /\ ovlstate[f.sym] = "vector"

\* A call that names a section, and an address that may be called from any.
Call(f) == f.use = "far call" \/ (f.use = "near call" /\ short)
Address(f) == f.use \in {"far pointer", "segment"} \/ (f.use = "near pointer" /\ short)

Named(s) == \E i \in DOMAIN named : named[i].sym = s
NamedBy(s, d) == \E i \in DOMAIN named : named[i] = [sym |-> s, by |-> d]

(* Pass 1 over, a call arrives: it goes through the vector of the function,  *)
(* or to a function of a section that is in memory whenever the caller is;   *)
(* and an address that may be called from anywhere is that of the vector     *)
(* (OvlDefVector, OvlRefVector, IndirectCall, BuildReloc). NOVECTOR and      *)
(* NOINDIRECT say otherwise; more vectors than ovlref can count are lost.    *)
CallsArrive ==
  turn = Last + 3 /\ Len(vectors) < Width =>
    \A f \in fixups : f.sym \in defined /\ ~NamedBy(f.sym, "NOVECTOR") =>
      /\ Call(f) /\ ~Redirected(f) /\ place[f.sym] \in Sections => place[f.sym] \in above[f.from]
      /\ Address(f) /\ ~Redirected(f) /\ ~noIndirect => place[f.sym] \notin 1 .. Last
      /\ Redirected(f) => vectors[ovlref[f.sym]] = f.sym

(* There are no more vectors than that: a function that was not named in a   *)
(* directive has one only if a section that it is not in memory with refers  *)
(* to it, or its address is taken.                                           *)
VectorsNeeded ==
  \A s \in defined : ovlstate[s] = "vector" /\ ~Named(s) =>
    /\ place[s] \in 1 .. Last
    /\ \/ \E c \in callers[s] : place[s] \notin above[c]
       \/ \E f \in fixups : f.sym = s /\ Traced(FixType(f.use))

\* Types; a symbol has one place and one entry of the table.
TypeOK ==
  /\ turn \in 0 .. Last + 3 /\ short \in BOOLEAN /\ noIndirect \in BOOLEAN
  /\ defined \subseteq Syms /\ referenced \subseteq Syms /\ marked \subseteq Syms
  /\ place \in [Syms -> Sections \cup {Data, Absolute}]
  /\ ovlstate \in [Syms -> {"undecided", "vector", "none"}]
  /\ ovlref \in [Syms -> Nat] /\ vectors \in Seq(Syms)
  /\ fixups \subseteq [sym : Syms, from : Sections, use : Uses]
  /\ callers \in [Syms -> SUBSET Sections]
=============================================================================
