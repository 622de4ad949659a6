---------------------------- MODULE OverlayProofs ----------------------------
(****************************************************************************)
(* Overlay vectors are exact, however many sections, symbols and references *)
(* there are and in whatever order they come: a call arrives, and no other  *)
(* function has a vector.                                                   *)
(*                                                                          *)
(* The argument is about one symbol at a time. As long as it is undecided   *)
(* and not defined (Early), ovlref is the first section that refers to it,  *)
(* or 0 if its address was taken. Sections are read in order, so that       *)
(* section is no later than any other that refers to it: when it is also    *)
(* the one of the definition, no other does. Once it is defined (Late) each *)
(* reference is compared with its place.                                    *)
(*                                                                          *)
(* The second half is about Layout: however the segments of a link look,    *)
(* each gets a place of its own, inside its group.                          *)
(****************************************************************************)
EXTENDS Overlay, TLAPS, FiniteSetTheorems, NaturalsInduction, WellFoundedInduction

\* The numbers of sections: each is read after those it is loaded with.
Forest ==
  /\ Last \in Nat /\ Width \in Nat \ {0}
  /\ \A t \in Trees :
       /\ t \in [Sections -> SUBSET Nat]
       /\ \A i \in Sections : 0 \in t[i] /\ i \in t[i] /\ t[i] \subseteq 0 .. i

\* The address of s was taken in a way that counts.
Pointed(s) == \E f \in fixups : f.sym = s /\ Traced(FixType(f.use))
Away(s) == \E c \in callers[s] : place[s] \notin above[c]

Early(s) == s \notin defined /\ Undecided(s) =>
  /\ callers[s] # {} => s \in marked
  /\ s \in marked /\ turn <= Last + 1 =>
       ovlref[s] < turn /\ \A c \in callers[s] : ovlref[s] <= c /\ c < turn
  /\ s \in referenced /\ ~Named(s) => s \in marked /\ (ovlref[s] \in callers[s] \/ Pointed(s))
  /\ Pointed(s) => s \in marked /\ ovlref[s] = 0

Late(s) == s \in defined /\ Undecided(s) =>
  /\ place[s] \in 1 .. Last \cup {Absolute}
  /\ place[s] \in 1 .. Last => ~Pointed(s) /\ ~Away(s)

NoneRight(s) == ovlstate[s] = "none" =>
  NamedBy(s, "NOVECTOR") \/ (s \in defined /\ place[s] \in {Data, 0})

VectorRight(s) == ovlstate[s] = "vector" =>
  /\ Len(vectors) < Width => ovlref[s] \in 1 .. Len(vectors) /\ vectors[ovlref[s]] = s
  /\ Named(s) \/ (s \in defined /\ place[s] \in 1 .. Last /\ (Away(s) \/ Pointed(s)))

Decided(s) == Early(s) /\ Late(s) /\ NoneRight(s) /\ VectorRight(s)

Types ==
  /\ TypeOK /\ above \in Trees
  /\ named \in Seq([sym : Syms, by : {"NOVECTOR", "VECTOR", "REFERENCE"}])
  /\ turn = 0 => defined = {} /\ marked = {} /\ fixups = {} /\ \A s \in Syms : callers[s] = {}
  /\ \A s \in Syms : callers[s] # {} \/ (s \in marked /\ s \notin defined) => s \in referenced
  /\ \A f \in fixups : f.from \in callers[f.sym]

Inv == Types /\ \A s \in Syms : Decided(s)
-----------------------------------------------------------------------------
(* Vectors, and the symbols a step is not about                             *)

LEMMA NewVector ==
  ASSUME Forest, TypeOK, NEW s \in Syms, Vectorize(s)
  PROVE  /\ ovlstate' \in [Syms -> {"undecided", "vector", "none"}] /\ ovlref' \in [Syms -> Nat]
         /\ vectors' \in Seq(Syms) /\ marked' = marked
         /\ vectors' = Append(vectors, s)
         /\ ovlstate'[s] = "vector"
         /\ Len(vectors') < Width => ovlref'[s] \in 1 .. Len(vectors') /\ vectors'[ovlref'[s]] = s
         /\ \A r \in Syms \ {s} : ovlstate'[r] = ovlstate[r] /\ ovlref'[r] = ovlref[r]
<1>1. Len(vectors) \in Nat /\ Len(vectors') = Len(vectors) + 1 /\ vectors'[Len(vectors) + 1] = s
  BY DEF TypeOK, Vectorize
<1>2. VecNum \in Nat BY <1>1 DEF Forest, VecNum
<1>3. Len(vectors) + 1 < Width => VecNum = Len(vectors) + 1
  BY <1>1 DEF Forest, VecNum
<1> QED BY <1>1, <1>2, <1>3 DEF TypeOK, Vectorize

\* A decision about a symbol: its fields change, perhaps one more vector.
LEMMA OneSymbol ==
  ASSUME Forest, TypeOK, NEW s \in Syms,
         UNCHANGED ovlSym \/ NoVector(s) \/ Vectorize(s) \/ \E p \in Nat : ReferredFrom(s, p)
  PROVE  /\ ovlstate' \in [Syms -> {"undecided", "vector", "none"}] /\ ovlref' \in [Syms -> Nat]
         /\ vectors' \in Seq(Syms) /\ marked' \subseteq Syms /\ marked' \subseteq marked \cup {s} /\ marked \subseteq marked'
         /\ vectors' = vectors \/ \E r \in Syms : vectors' = Append(vectors, r)
         /\ \A r \in Syms \ {s} : ovlstate'[r] = ovlstate[r] /\ ovlref'[r] = ovlref[r]
<1>1. /\ marked \subseteq Syms /\ ovlstate \in [Syms -> {"undecided", "vector", "none"}]
      /\ ovlref \in [Syms -> Nat] /\ vectors \in Seq(Syms)
  BY DEF TypeOK
<1>2. CASE UNCHANGED ovlSym BY <1>1, <1>2 DEF ovlSym
<1>3. CASE NoVector(s) BY <1>1, <1>3 DEF NoVector
<1>4. CASE Vectorize(s)
  <2>1. /\ ovlstate' \in [Syms -> {"undecided", "vector", "none"}] /\ ovlref' \in [Syms -> Nat]
        /\ vectors' \in Seq(Syms) /\ marked' = marked /\ vectors' = Append(vectors, s)
        /\ \A r \in Syms \ {s} : ovlstate'[r] = ovlstate[r] /\ ovlref'[r] = ovlref[r]
    BY <1>4, NewVector
  <2> QED BY <1>1, <2>1
<1>5. CASE \E p \in Nat : ReferredFrom(s, p) BY <1>1, <1>5 DEF ReferredFrom
<1> QED BY <1>2, <1>3, <1>4, <1>5

\* Nothing happens to s, but others may get vectors.
Apart(s) ==
  /\ options' = options /\ turn' = turn
  /\ (s \in defined' <=> s \in defined) /\ (s \in referenced' <=> s \in referenced)
  /\ (s \in marked' <=> s \in marked) /\ (Pointed(s)' <=> Pointed(s))
  /\ place'[s] = place[s] /\ ovlstate'[s] = ovlstate[s] /\ ovlref'[s] = ovlref[s] /\ callers'[s] = callers[s]
  /\ (Named(s)' <=> Named(s)) /\ (NamedBy(s, "NOVECTOR")' <=> NamedBy(s, "NOVECTOR"))
  /\ vectors' = vectors \/ \E r \in Syms : vectors' = Append(vectors, r)

LEMMA OthersStay ==
  ASSUME Forest, TypeOK, NEW s \in Syms, Decided(s), Apart(s)
  PROVE  Decided(s)'
<1>1. /\ above' = above /\ (Away(s)' <=> Away(s))
      /\ (Undecided(s)' <=> Undecided(s))
  BY DEF Apart, options, Away, Undecided
<1>2. Early(s)' BY <1>1 DEF Apart, Decided, Early
<1>3. Late(s)' BY <1>1 DEF Apart, Decided, Late
<1>4. NoneRight(s)' BY DEF Apart, Decided, NoneRight
<1>5. VectorRight(s)'
  <2>1. CASE vectors' = vectors BY <2>1, <1>1 DEF Apart, Decided, VectorRight
  <2>2. CASE \E r \in Syms : vectors' = Append(vectors, r)
    <3>1. Len(vectors) \in Nat /\ Len(vectors') = Len(vectors) + 1
          /\ \A i \in 1 .. Len(vectors) : vectors'[i] = vectors[i]
      BY <2>2 DEF TypeOK
    <3>2. Len(vectors') < Width => Len(vectors) < Width BY <3>1 DEF Forest
    <3> QED BY <3>1, <3>2, <1>1 DEF Apart, Decided, VectorRight
  <2> QED BY <2>1, <2>2 DEF Apart
<1> QED BY <1>2, <1>3, <1>4, <1>5 DEF Decided

LEMMA InitInv == ASSUME Forest, Init PROVE Inv
<1>1. TypeOK
  BY DEF Forest, Init, TypeOK, Sections
<1>2. Types BY <1>1 DEF Init, Types
<1>3. ASSUME NEW s \in Syms PROVE Decided(s)
  <2>1. s \notin defined /\ Undecided(s) /\ callers[s] = {} /\ s \notin marked /\ s \notin referenced /\ ~Pointed(s)
    BY DEF Init, Undecided, Pointed
  <2> QED BY <2>1 DEF Undecided, Decided, Early, Late, NoneRight, VectorRight
<1> QED BY <1>2, <1>3 DEF Inv
-----------------------------------------------------------------------------
(* The actions                                                              *)

LEMMA DirectiveInv ==
  ASSUME Forest, Inv, NEW s \in Syms, NEW by \in {"NOVECTOR", "VECTOR", "REFERENCE"}, Directive(s, by)
  PROVE  Inv'
<1>1. /\ turn = 0 /\ turn' = 0 /\ options' = options
      /\ UNCHANGED <<above, short, noIndirect, defined, place, fixups, callers>>
      /\ referenced' = referenced \cup {s} /\ named' = Append(named, [sym |-> s, by |-> by])
      /\ defined = {} /\ marked = {} /\ fixups = {} /\ TypeOK /\ above \in Trees
  BY DEF Directive, options, Inv, Types
<1>2. /\ named' \in Seq([sym : Syms, by : {"NOVECTOR", "VECTOR", "REFERENCE"}])
      /\ Len(named) \in Nat /\ DOMAIN named' = 1 .. Len(named) + 1 /\ DOMAIN named = 1 .. Len(named)
      /\ named'[Len(named) + 1] = [sym |-> s, by |-> by]
      /\ \A i \in DOMAIN named : named'[i] = named[i]
  BY <1>1 DEF Inv, Types
<1>3. /\ \A r \in Syms \ {s} : (Named(r)' <=> Named(r)) /\ (NamedBy(r, "NOVECTOR")' <=> NamedBy(r, "NOVECTOR"))
      /\ Named(s)' /\ (by = "NOVECTOR" => NamedBy(s, "NOVECTOR")')
      /\ NamedBy(s, "NOVECTOR") => NamedBy(s, "NOVECTOR")'
  BY <1>2 DEF Named, NamedBy
<1>4. \A r : ~Pointed(r) /\ ~Pointed(r)' BY <1>1 DEF Pointed
<1>5. (NoVector(s) /\ by = "NOVECTOR") \/ Vectorize(s) \/ UNCHANGED ovlSym
  BY DEF Directive
<1>6. /\ ovlstate' \in [Syms -> {"undecided", "vector", "none"}] /\ ovlref' \in [Syms -> Nat]
      /\ vectors' \in Seq(Syms) /\ marked' = marked
      /\ vectors' = vectors \/ \E r \in Syms : vectors' = Append(vectors, r)
      /\ \A r \in Syms \ {s} : ovlstate'[r] = ovlstate[r] /\ ovlref'[r] = ovlref[r]
  BY <1>1, <1>5, NewVector DEF NoVector, ovlSym, TypeOK
<1>7. Types'
  <2>1. TypeOK' BY <1>1, <1>6 DEF TypeOK
  <2> QED BY <2>1, <1>1, <1>2, <1>6 DEF Inv, Types
<1>8. ASSUME NEW r \in Syms, r # s PROVE Decided(r)'
  <2>1. Apart(r) BY <1>1, <1>3, <1>4, <1>6, <1>8 DEF Apart
  <2> QED BY <1>1, <2>1, OthersStay DEF Inv
<1>9. Decided(s)'
  <2>1. s \notin defined' /\ s \notin marked' /\ ~Pointed(s)' /\ callers'[s] = {}
    BY <1>1, <1>4, <1>6 DEF Inv, Types
  <2>2. Early(s)' /\ Late(s)' BY <2>1, <1>3 DEF Early, Late
  <2>3. NoneRight(s)'
    BY <1>1, <1>3, <1>5, NewVector DEF Inv, Decided, NoneRight, NoVector, ovlSym
  <2>4. VectorRight(s)'
    <3>1. CASE Vectorize(s) BY <3>1, <1>1, <1>3, NewVector DEF VectorRight
    <3>2. CASE NoVector(s) /\ by = "NOVECTOR" BY <3>2, <1>1 DEF NoVector, VectorRight, TypeOK
    <3>3. CASE UNCHANGED ovlSym BY <3>3, <1>1, <1>3 DEF ovlSym, VectorRight, Inv, Decided
    <3> QED BY <1>5, <3>1, <3>2, <3>3
  <2> QED BY <2>2, <2>3, <2>4 DEF Decided
<1> QED BY <1>7, <1>8, <1>9 DEF Inv

LEMMA NextSectInv == ASSUME Forest, Inv, NextSect PROVE Inv'
<1>1. /\ turn' = turn + 1 /\ turn \in Nat /\ turn' \in 0 .. Last + 3
      /\ UNCHANGED <<above, short, noIndirect, defined, referenced, place, ovlstate, ovlref, marked,
                     vectors, fixups, callers, named>>
      /\ TypeOK
  BY DEF NextSect, options, ovlSym, Inv, Types, TypeOK, Forest
<1>2. Types' BY <1>1 DEF Inv, Types, TypeOK
<1>3. ASSUME NEW s \in Syms PROVE Decided(s)'
  <2>1. /\ (Pointed(s)' <=> Pointed(s)) /\ (Away(s)' <=> Away(s)) /\ (Named(s)' <=> Named(s))
        /\ (NamedBy(s, "NOVECTOR")' <=> NamedBy(s, "NOVECTOR")) /\ (Undecided(s)' <=> Undecided(s))
    BY <1>1 DEF Pointed, Away, Named, NamedBy, Undecided, Traced
  <2>2. callers[s] \subseteq Int /\ ovlref[s] \in Nat
    BY <1>1, <1>3 DEF TypeOK, Sections, Forest
  <2>3. Early(s)' BY <1>1, <2>1, <2>2 DEF Inv, Decided, Early, Forest
  <2>4. Late(s)' BY <1>1, <2>1 DEF Inv, Decided, Late
  <2>5. NoneRight(s)' BY <1>1, <2>1 DEF Inv, Decided, NoneRight
  <2>6. VectorRight(s)' BY <1>1, <2>1 DEF Inv, Decided, VectorRight
  <2> QED BY <2>3, <2>4, <2>5, <2>6 DEF Decided
<1> QED BY <1>2, <1>3 DEF Inv

\* What an action that is about s does to the other symbols is nothing.
LEMMA OnlyOne ==
  ASSUME Forest, Inv, Types', NEW s \in Syms, Decided(s)', \A r \in Syms \ {s} : Apart(r)
  PROVE  Inv'
BY OthersStay DEF Inv, Types

\* The section that is read is one, and there are no others later.
LEMMA CurrSectIs ==
  ASSUME Forest, Types, Reading
  PROVE  /\ CurrSect \in Sections /\ turn \in 1 .. Last + 2
         /\ turn <= Last + 1 => CurrSect = turn - 1
         /\ turn = Last + 2 => CurrSect = 0
         /\ above[CurrSect] \subseteq Sections
         /\ \A c \in Sections : 0 \in above[c] /\ c \in above[c] /\ above[c] \subseteq 0 .. c
<1>1. turn \in 1 .. Last + 2 BY DEF Reading
<1>2. CurrSect \in Sections BY <1>1 DEF Forest, CurrSect, Sections
<1>3. \A c \in Sections : 0 \in above[c] /\ c \in above[c] /\ above[c] \subseteq 0 .. c
  BY DEF Forest, Types
<1>4. \A c \in Sections : 0 .. c \subseteq Sections BY DEF Forest, Sections
<1> QED BY <1>1, <1>2, <1>3, <1>4 DEF Forest, CurrSect

LEMMA ExtDefInv == ASSUME Forest, Inv, NEW s \in Syms, ExtDef(s) PROVE Inv'
<1>1. /\ Reading /\ referenced' = referenced \cup {s} /\ options' = options
      /\ callers' = [callers EXCEPT ![s] = @ \cup {CurrSect}]
      /\ UNCHANGED <<above, short, noIndirect, turn, defined, place, fixups, named>>
      /\ TypeOK /\ Types /\ Decided(s)
  BY DEF ExtDef, options, Inv, Types
<1>2. /\ CurrSect \in Sections /\ turn \in 1 .. Last + 2
      /\ turn <= Last + 1 => CurrSect = turn - 1
  BY <1>1, CurrSectIs
<1>3. /\ callers' \in [Syms -> SUBSET Sections] /\ callers'[s] = callers[s] \cup {CurrSect}
      /\ \A r \in Syms \ {s} : callers'[r] = callers[r]
  BY <1>1, <1>2 DEF TypeOK
<1>4. /\ \A r : (Pointed(r)' <=> Pointed(r)) /\ (Named(r)' <=> Named(r))
      /\ \A r : NamedBy(r, "NOVECTOR")' <=> NamedBy(r, "NOVECTOR")
  BY <1>1 DEF Pointed, Named, NamedBy, Traced
<1>5. \/ UNCHANGED ovlSym
      \/ Undecided(s) /\ s \notin defined /\ s \notin marked /\ ReferredFrom(s, CurrSect)
      \/ Undecided(s) /\ s \in defined /\ place[s] # Absolute /\ place[s] \notin above[CurrSect] /\ Vectorize(s)
  BY DEF ExtDef, OvlRefVector, IsAncestor
<1>6. /\ ovlstate' \in [Syms -> {"undecided", "vector", "none"}] /\ ovlref' \in [Syms -> Nat]
      /\ vectors' \in Seq(Syms) /\ marked' \subseteq Syms /\ marked' \subseteq marked \cup {s} /\ marked \subseteq marked'
      /\ vectors' = vectors \/ \E r \in Syms : vectors' = Append(vectors, r)
      /\ \A r \in Syms \ {s} : ovlstate'[r] = ovlstate[r] /\ ovlref'[r] = ovlref[r]
  <2>1. CurrSect \in Nat BY <1>2 DEF Sections, Forest
  <2>2. UNCHANGED ovlSym \/ NoVector(s) \/ Vectorize(s) \/ \E q \in Nat : ReferredFrom(s, q) BY <1>5, <2>1
  <2> QED BY <1>1, <2>2, OneSymbol
<1>7. Types'
  <2>1. TypeOK' BY <1>1, <1>3, <1>6 DEF TypeOK
  <2>2. /\ turn' = turn /\ defined' = defined /\ fixups' = fixups /\ above' = above /\ named' = named
        /\ referenced' = referenced \cup {s} /\ turn # 0
    BY <1>1 DEF Reading
  <2>3. \A r \in Syms : callers'[r] # {} \/ (r \in marked' /\ r \notin defined') => r \in referenced'
    BY <2>2, <1>1, <1>3, <1>6 DEF Types
  <2>4. \A f \in fixups' : f.from \in callers'[f.sym] BY <2>2, <1>1, <1>3, <2>1 DEF Types, TypeOK
  <2> QED BY <2>1, <2>2, <2>3, <2>4, <1>1 DEF Types
<1>8. \A r \in Syms \ {s} : Apart(r) BY <1>1, <1>3, <1>4, <1>6 DEF Apart
<1>9. Decided(s)'
  <2>1. callers[s] \subseteq Sections /\ ovlref[s] \in Nat BY <1>1 DEF TypeOK
  <2>2. /\ Away(s) => Away(s)'
        /\ Away(s)' => Away(s) \/ place[s] \notin above[CurrSect]
        /\ place[s] \notin above[CurrSect] => Away(s)'
    BY <1>1, <1>3 DEF Away
  <2>3. CASE UNCHANGED ovlSym
    <3>1. ovlstate'[s] = ovlstate[s] /\ ovlref'[s] = ovlref[s] /\ marked' = marked /\ vectors' = vectors
      BY <2>3 DEF ovlSym
    <3>2. Undecided(s) /\ s \notin defined => s \in marked
      BY <2>3, <1>1 DEF ExtDef, OvlRefVector, ReferredFrom, ovlSym
    <3>3. Undecided(s) /\ s \in defined => place[s] = Absolute \/ place[s] \in above[CurrSect]
      BY <2>3, <1>1, NewVector DEF ExtDef, OvlRefVector, IsAncestor, Undecided, ovlSym
    <3>4. Early(s)'
      BY <3>1, <3>2, <1>1, <1>2, <1>3, <1>4, <2>1 DEF Decided, Early, Undecided, Types, Sections, Forest
    <3>5. Late(s)' BY <3>1, <3>3, <1>1, <1>4, <2>2 DEF Decided, Late, Undecided, Absolute, Forest
    <3>6. NoneRight(s)' BY <3>1, <1>1, <1>4 DEF Decided, NoneRight
    <3>7. VectorRight(s)' BY <3>1, <1>1, <1>4, <2>2 DEF Decided, VectorRight
    <3> QED BY <3>4, <3>5, <3>6, <3>7 DEF Decided
  <2>4. CASE Undecided(s) /\ s \notin defined /\ s \notin marked /\ ReferredFrom(s, CurrSect)
    <3>1. ovlstate'[s] = "undecided" /\ ovlref'[s] = CurrSect /\ s \in marked' /\ s \notin defined'
          /\ callers'[s] = {CurrSect} /\ ~Pointed(s)'
      BY <2>4, <1>1, <1>3, <1>4 DEF ReferredFrom, Undecided, TypeOK, Decided, Early
    <3> QED BY <3>1, <1>1, <1>2 DEF Decided, Early, Late, NoneRight, VectorRight, Undecided, Sections, Forest
  <2>5. CASE Undecided(s) /\ s \in defined /\ place[s] # Absolute /\ place[s] \notin above[CurrSect] /\ Vectorize(s)
    <3>1. ovlstate'[s] = "vector" /\ place'[s] \in 1 .. Last /\ Away(s)' /\ s \in defined'
      BY <2>5, <1>1, <2>2, NewVector DEF Decided, Late
    <3>2. Len(vectors') < Width => ovlref'[s] \in 1 .. Len(vectors') /\ vectors'[ovlref'[s]] = s
      BY <2>5, <1>1, NewVector
    <3> QED BY <3>1, <3>2 DEF Decided, Early, Late, NoneRight, VectorRight, Undecided
  <2> QED BY <1>5, <2>3, <2>4, <2>5
<1> QED BY <1>1, <1>7, <1>8, <1>9, OnlyOne

LEMMA PubDefInv ==
  ASSUME Forest, Inv, NEW s \in Syms, NEW p \in {CurrSect, Data, Absolute}, PubDef(s, p)
  PROVE  Inv'
<1>1. /\ Reading /\ s \notin defined /\ defined' = defined \cup {s} /\ place' = [place EXCEPT ![s] = p]
      /\ options' = options
      /\ UNCHANGED <<above, short, noIndirect, turn, referenced, fixups, callers, named>>
      /\ TypeOK /\ Types /\ Decided(s)
  BY DEF PubDef, options, Inv, Types
<1>2. /\ CurrSect \in Sections /\ turn \in 1 .. Last + 2
      /\ turn <= Last + 1 => CurrSect = turn - 1
      /\ turn = Last + 2 => CurrSect = 0
      /\ \A c \in Sections : 0 \in above[c] /\ c \in above[c] /\ above[c] \subseteq 0 .. c
  BY <1>1, CurrSectIs
<1>3. /\ place' \in [Syms -> Sections \cup {Data, Absolute}] /\ place'[s] = p
      /\ \A r \in Syms \ {s} : place'[r] = place[r]
  BY <1>1, <1>2 DEF TypeOK
<1>4. /\ \A r : (Pointed(r)' <=> Pointed(r)) /\ (Named(r)' <=> Named(r))
      /\ \A r : NamedBy(r, "NOVECTOR")' <=> NamedBy(r, "NOVECTOR")
  BY <1>1 DEF Pointed, Named, NamedBy, Traced
<1>5. \/ UNCHANGED ovlSym /\ (p = Absolute \/ ~Undecided(s) \/ (p \in 1 .. Last /\ ovlref[s] = p /\ s \in referenced))
      \/ Undecided(s) /\ p \in {Data, 0} /\ NoVector(s)
      \/ Undecided(s) /\ p \in 1 .. Last /\ s \in referenced /\ ovlref[s] # p /\ Vectorize(s)
      \/ Undecided(s) /\ p \in 1 .. Last /\ s \notin referenced /\ ReferredFrom(s, p)
  BY DEF PubDef, OvlDefVector
<1>6. /\ ovlstate' \in [Syms -> {"undecided", "vector", "none"}] /\ ovlref' \in [Syms -> Nat]
      /\ vectors' \in Seq(Syms) /\ marked' \subseteq Syms /\ marked' \subseteq marked \cup {s} /\ marked \subseteq marked'
      /\ vectors' = vectors \/ \E r \in Syms : vectors' = Append(vectors, r)
      /\ \A r \in Syms \ {s} : ovlstate'[r] = ovlstate[r] /\ ovlref'[r] = ovlref[r]
  <2>1. 1 .. Last \subseteq Nat BY DEF Forest
  <2>2. UNCHANGED ovlSym \/ NoVector(s) \/ Vectorize(s) \/ \E q \in Nat : ReferredFrom(s, q) BY <1>5, <2>1
  <2> QED BY <1>1, <2>2, OneSymbol
<1>7. Types'
  <2>1. TypeOK' BY <1>1, <1>3, <1>6 DEF TypeOK
  <2> QED BY <2>1, <1>1, <1>2, <1>6 DEF Types
<1>8. \A r \in Syms \ {s} : Apart(r) BY <1>1, <1>3, <1>4, <1>6 DEF Apart
<1>9. Decided(s)'
  <2>1. callers[s] \subseteq Sections /\ ovlref[s] \in Nat /\ s \in defined' /\ Early(s)'
    BY <1>1 DEF TypeOK, Early
  <2>2. CASE UNCHANGED ovlSym /\ (p = Absolute \/ ~Undecided(s) \/ (p \in 1 .. Last /\ ovlref[s] = p /\ s \in referenced))
    <3>1. ovlstate'[s] = ovlstate[s] /\ ovlref'[s] = ovlref[s] /\ vectors' = vectors BY <2>2 DEF ovlSym
    <3>2. ASSUME Undecided(s), p \in 1 .. Last PROVE ~Pointed(s)' /\ ~Away(s)'
      <4>1. p # 0 /\ p # Absolute /\ p = CurrSect /\ turn = p + 1 /\ turn <= Last + 1
        BY <3>2, <1>2 DEF Data, Absolute, Forest
      <4>2. ovlref[s] = p BY <2>2, <3>2, <4>1
      <4>3. ~Pointed(s) BY <4>1, <4>2, <3>2, <1>1 DEF Decided, Early
      <4>4. \A c \in callers[s] : c = p
        <5>1. SUFFICES ASSUME NEW c \in callers[s] PROVE c = p OBVIOUS
        <5>2. s \in marked BY <3>2, <1>1 DEF Decided, Early
        <5>3. ovlref[s] <= c /\ c < turn BY <5>2, <4>1, <3>2, <1>1 DEF Decided, Early
        <5>4. c \in Int BY <2>1 DEF Sections
        <5> QED BY <5>3, <5>4, <4>1, <4>2, <3>2
      <4>5. p \in above[p] BY <4>1, <1>2
      <4> QED BY <4>3, <4>4, <4>5, <1>1, <1>3, <1>4 DEF Away
    <3>3. Undecided(s) => p \in 1 .. Last \cup {Absolute} BY <2>2
    <3>4. Late(s)' BY <3>1, <3>2, <3>3, <1>3 DEF Late, Undecided, Forest, Absolute
    <3>5. NoneRight(s)' BY <3>1, <1>1, <1>4 DEF Decided, NoneRight
    <3>6. VectorRight(s)' BY <3>1, <1>1, <1>4 DEF Decided, VectorRight
    <3> QED BY <2>1, <3>4, <3>5, <3>6 DEF Decided
  <2>3. CASE Undecided(s) /\ p \in {Data, 0} /\ NoVector(s)
    <3>1. ovlstate'[s] = "none" BY <2>3, <1>1 DEF NoVector, TypeOK
    <3> QED BY <3>1, <2>3, <2>1, <1>3 DEF Decided, Late, NoneRight, VectorRight, Undecided
  <2>4. CASE Undecided(s) /\ p \in 1 .. Last /\ s \in referenced /\ ovlref[s] # p /\ Vectorize(s)
    <3>1. ovlstate'[s] = "vector" BY <2>4, <1>1, NewVector
    <3>2. Len(vectors') < Width => ovlref'[s] \in 1 .. Len(vectors') /\ vectors'[ovlref'[s]] = s
      BY <2>4, <1>1, NewVector
    <3>3. ~Named(s)' => Away(s)' \/ Pointed(s)'
      <4>1. SUFFICES ASSUME ~Named(s), ~Pointed(s) PROVE Away(s)' BY <1>4
      <4>2. s \in marked /\ ovlref[s] \in callers[s] BY <4>1, <2>4, <1>1 DEF Decided, Early
      <4>3. p = CurrSect /\ turn = p + 1 /\ turn <= Last + 1
        BY <2>4, <1>2 DEF Data, Absolute, Forest
      <4>4. ovlref[s] < p
        BY <4>2, <4>3, <2>1, <2>4, <1>1 DEF Decided, Early
      <4>5. p \notin above[ovlref[s]]
        BY <4>2, <4>4, <2>1, <2>4, <1>2 DEF Forest
      <4> QED BY <4>2, <4>5, <1>1, <1>3 DEF Away
    <3> QED BY <3>1, <3>2, <3>3, <2>1, <2>4, <1>3 DEF Decided, Late, NoneRight, VectorRight, Undecided
  <2>5. CASE Undecided(s) /\ p \in 1 .. Last /\ s \notin referenced /\ ReferredFrom(s, p)
    <3>1. ovlstate'[s] = "undecided" BY <2>5 DEF ReferredFrom, Undecided
    <3>2. callers'[s] = {} /\ ~Pointed(s)' 
      <4>1. callers[s] = {} BY <2>5, <1>1 DEF Types
      <4>2. ~Pointed(s) BY <4>1, <1>1 DEF Types, Pointed
      <4> QED BY <4>1, <4>2, <1>1, <1>4
    <3> QED BY <3>1, <3>2, <2>1, <2>5, <1>3 DEF Decided, Late, NoneRight, VectorRight, Away
  <2> QED BY <1>5, <2>2, <2>3, <2>4, <2>5
<1> QED BY <1>1, <1>7, <1>8, <1>9, OnlyOne

LEMMA FixupInv ==
  ASSUME Forest, Inv, NEW s \in Syms, NEW use \in Uses, Fixup(s, use)
  PROVE  Inv'
<1> DEFINE f == [sym |-> s, from |-> CurrSect, use |-> use]
<1>1. /\ Reading /\ CurrSect \in callers[s] /\ fixups' = fixups \cup {f} /\ options' = options
      /\ UNCHANGED <<above, short, noIndirect, turn, defined, referenced, place, callers, named>>
      /\ TypeOK /\ Types /\ Decided(s)
  BY DEF Fixup, options, Inv, Types
<1>2. CurrSect \in Sections /\ turn \in 1 .. Last + 2 BY <1>1, CurrSectIs
<1>3. /\ \A t : Traced(t)' <=> Traced(t)
      /\ \A r \in Syms \ {s} : Pointed(r)' <=> Pointed(r)
      /\ Pointed(s)' <=> Pointed(s) \/ Traced(FixType(use))
  <2>1. \A t : Traced(t)' <=> Traced(t) BY <1>1 DEF Traced
  <2>2. \A r : Pointed(r)' <=> \E g \in fixups \cup {f} : g.sym = r /\ Traced(FixType(g.use))
    BY <1>1, <2>1 DEF Pointed
  <2>3. f.sym = s /\ f.use = use OBVIOUS
  <2> QED BY <2>1, <2>2, <2>3 DEF Pointed
<1>4. /\ \A r : Named(r)' <=> Named(r)
      /\ \A r : NamedBy(r, "NOVECTOR")' <=> NamedBy(r, "NOVECTOR")
      /\ \A r : Away(r)' <=> Away(r)
  BY <1>1 DEF Named, NamedBy, Away
<1>5. \/ UNCHANGED ovlSym /\ (~Traced(FixType(use)) \/ ~Undecided(s) \/ (s \in defined /\ place[s] \notin 1 .. Last))
      \/ Traced(FixType(use)) /\ Undecided(s) /\ s \in defined /\ place[s] \in 1 .. Last /\ Vectorize(s)
      \/ Traced(FixType(use)) /\ Undecided(s) /\ s \notin defined /\ ReferredFrom(s, 0)
  BY DEF Fixup, IndirectCall
<1>6. /\ ovlstate' \in [Syms -> {"undecided", "vector", "none"}] /\ ovlref' \in [Syms -> Nat]
      /\ vectors' \in Seq(Syms) /\ marked' \subseteq Syms /\ marked' \subseteq marked \cup {s} /\ marked \subseteq marked'
      /\ vectors' = vectors \/ \E r \in Syms : vectors' = Append(vectors, r)
      /\ \A r \in Syms \ {s} : ovlstate'[r] = ovlstate[r] /\ ovlref'[r] = ovlref[r]
  <2>1. UNCHANGED ovlSym \/ NoVector(s) \/ Vectorize(s) \/ \E q \in Nat : ReferredFrom(s, q) BY <1>5
  <2> QED BY <1>1, <2>1, OneSymbol
<1>7. Types'
  <2>1. fixups' \subseteq [sym : Syms, from : Sections, use : Uses] BY <1>1, <1>2 DEF TypeOK
  <2>2. TypeOK' BY <2>1, <1>1, <1>6 DEF TypeOK
  <2>3. s \in referenced BY <1>1 DEF Types
  <2> QED BY <2>2, <2>3, <1>1, <1>2, <1>6 DEF Types
<1>8. \A r \in Syms \ {s} : Apart(r) BY <1>1, <1>3, <1>4, <1>6 DEF Apart
<1>9. Decided(s)'
  <2>1. callers[s] \subseteq Sections /\ ovlref[s] \in Nat BY <1>1 DEF TypeOK
  <2>2. CASE UNCHANGED ovlSym /\ (~Traced(FixType(use)) \/ ~Undecided(s) \/ (s \in defined /\ place[s] \notin 1 .. Last))
    <3>1. ovlstate'[s] = ovlstate[s] /\ ovlref'[s] = ovlref[s] /\ marked' = marked /\ vectors' = vectors
      BY <2>2 DEF ovlSym
    <3>2. Early(s)' BY <3>1, <2>2, <1>1, <1>3, <1>4 DEF Decided, Early, Undecided
    <3>3. Late(s)' BY <3>1, <2>2, <1>1, <1>3, <1>4 DEF Decided, Late, Undecided
    <3>4. NoneRight(s)' BY <3>1, <1>1, <1>4 DEF Decided, NoneRight
    <3>5. VectorRight(s)' BY <3>1, <1>1, <1>3, <1>4 DEF Decided, VectorRight
    <3> QED BY <3>2, <3>3, <3>4, <3>5 DEF Decided
  <2>3. CASE Traced(FixType(use)) /\ Undecided(s) /\ s \in defined /\ place[s] \in 1 .. Last /\ Vectorize(s)
    <3>1. ovlstate'[s] = "vector" BY <2>3, <1>1, NewVector
    <3>2. Len(vectors') < Width => ovlref'[s] \in 1 .. Len(vectors') /\ vectors'[ovlref'[s]] = s
      BY <2>3, <1>1, NewVector
    <3> QED BY <3>1, <3>2, <2>3, <1>1, <1>3 DEF Decided, Early, Late, NoneRight, VectorRight, Undecided
  <2>4. CASE Traced(FixType(use)) /\ Undecided(s) /\ s \notin defined /\ ReferredFrom(s, 0)
    <3>1. ovlstate'[s] = "undecided" /\ ovlref'[s] = 0 /\ s \in marked'
      BY <2>4, <1>1 DEF ReferredFrom, Undecided, TypeOK
    <3>2. \A c \in callers[s] : turn <= Last + 1 => 0 <= c /\ c < turn
      BY <2>1, <2>4, <1>1 DEF Decided, Early, Sections
    <3> QED BY <3>1, <3>2, <2>4, <1>1, <1>2, <1>3 DEF Decided, Early, Late, NoneRight, VectorRight, Undecided
  <2> QED BY <1>5, <2>2, <2>3, <2>4
<1> QED BY <1>1, <1>7, <1>8, <1>9, OnlyOne
-----------------------------------------------------------------------------
LEMMA InvStays == ASSUME Forest, Inv, [Next]_vars PROVE Inv'
<1>1. CASE Next BY <1>1, DirectiveInv, NextSectInv, ExtDefInv, PubDefInv, FixupInv DEF Next
<1>2. CASE UNCHANGED vars
  <2>1. Types' BY <1>2 DEF vars, Inv, Types, TypeOK
  <2>2. ASSUME NEW s \in Syms PROVE Apart(s)
    BY <1>2 DEF vars, Apart, options, Named, NamedBy, Pointed, Traced
  <2> QED BY <2>1, <2>2, OthersStay DEF Inv, Types
<1> QED BY <1>1, <1>2

LEMMA Inductive == ASSUME Forest PROVE Spec => []Inv
<1>1. Init => Inv BY InitInv
<1>2. Inv /\ [Next]_vars => Inv' BY InvStays
<1> QED BY <1>1, <1>2, PTL DEF Spec

LEMMA InvNeeds == ASSUME Forest, Inv PROVE VectorsNeeded
<1>1. defined \subseteq Syms BY DEF Inv, Types, TypeOK
<1>2. \A s \in Syms : VectorRight(s) BY DEF Inv, Decided
<1> QED BY <1>1, <1>2 DEF VectorRight, VectorsNeeded, Away, Pointed

\* A function that has no vector is where every caller can reach it, and nobody
\* took its address.
LEMMA InvArrives == ASSUME Forest, Inv PROVE CallsArrive
<1> SUFFICES ASSUME turn = Last + 3, Len(vectors) < Width, NEW g \in fixups,
                    g.sym \in defined, ~NamedBy(g.sym, "NOVECTOR")
             PROVE  /\ Call(g) /\ ~Redirected(g) /\ place[g.sym] \in Sections => place[g.sym] \in above[g.from]
                    /\ Address(g) /\ ~Redirected(g) /\ ~noIndirect => place[g.sym] \notin 1 .. Last
                    /\ Redirected(g) => vectors[ovlref[g.sym]] = g.sym
  BY DEF CallsArrive
<1> DEFINE s == g.sym
<1>1. /\ s \in Syms /\ g.from \in Sections /\ g.use \in Uses /\ g.from \in callers[s] /\ Decided(s)
      /\ ovlstate[s] \in {"undecided", "vector", "none"} /\ 0 \in above[g.from]
  BY DEF Inv, Types, TypeOK, Forest
<1>2. ovlstate[s] = "vector" => ovlref[s] # 0 /\ vectors[ovlref[s]] = s
  BY <1>1 DEF Decided, VectorRight
<1>3. /\ Call(g) => ~FixType(g.use).rel \/ short
      /\ Address(g) => ~FixType(g.use).rel
      /\ Address(g) /\ ~noIndirect => Traced(FixType(g.use))
  BY <1>1 DEF Call, Address, FixType, Traced
<1>4. CASE ovlstate[s] = "vector" BY <1>2, <1>3, <1>4 DEF Redirected
<1>5. CASE ovlstate[s] = "none"
  <2>1. place[s] \in {Data, 0} BY <1>1, <1>5 DEF Decided, NoneRight
  <2> QED BY <2>1, <1>1, <1>5 DEF Redirected, Sections, Data, Forest
<1>6. CASE ovlstate[s] = "undecided"
  <2>1. place[s] \in 1 .. Last \cup {Absolute} /\ (place[s] \in 1 .. Last => ~Pointed(s) /\ ~Away(s))
    BY <1>1, <1>6 DEF Decided, Late, Undecided
  <2>2. place[s] \in Sections => place[s] \in 1 .. Last BY <2>1 DEF Sections, Absolute
  <2>3. place[s] \in 1 .. Last => place[s] \in above[g.from] BY <2>1, <1>1 DEF Away
  <2>4. Address(g) /\ ~noIndirect => Pointed(s) BY <1>3 DEF Pointed
  <2> QED BY <2>1, <2>2, <2>3, <2>4, <1>6 DEF Redirected
<1> QED BY <1>1, <1>4, <1>5, <1>6

\* When pass 1 is over every call and every address that may be called arrives
\* at its function, through a vector or without one (CallsArrive), whatever the
\* sections and the order of references, definitions and pointers
\* (OvlDefVector, OvlRefVector, IndirectCall).
THEOREM EveryCallArrives == ASSUME Forest PROVE Spec => []CallsArrive
<1>1. Inv => CallsArrive BY InvArrives
<1> QED BY <1>1, Inductive, PTL

\* No function has a vector without need (VectorsNeeded): a reference before the
\* definition, a pointer, or a reference after it that is not below it.
THEOREM NoVectorInVain == ASSUME Forest PROVE Spec => []VectorsNeeded
<1>1. Inv => VectorsNeeded BY InvNeeds
<1> QED BY <1>1, Inductive, PTL
-----------------------------------------------------------------------------
(* Addresses: AutoGroup and CalcAddresses.                                  *)

CONSTANTS Formats, Para, Max16, Max32, ObjAlign, Limits, Segments(_)
VARIABLES fmt, segs, packLimit, group, groups, dataGroups, pack, addr, loc, total, grp, errors, phase

Lay == INSTANCE Layout
-----------------------------------------------------------------------------
(* Numbers, sequences and folds.                                            *)

\* Cardinality is the same inside and outside.
LEMMA CardSame == \A S : Lay!Cardinality(S) = Cardinality(S)
BY DEF Lay!Cardinality, Cardinality

\* Every set of numbers that is not empty has a least one.
LEMMA Least == ASSUME NEW S \in SUBSET Nat, S # {} PROVE \E n \in S : \A m \in S : n <= m
<1> DEFINE R == OpToRel(<, Nat)
<1>1. IsWellFoundedOn(R, Nat) BY NatLessThanWellFounded
<1>2. \A n, m \in Nat : m < n => <<m, n>> \in R BY DEF OpToRel
<1> HIDE DEF R
<1>3. PICK n \in S : \A m \in S : ~(<<m, n>> \in R) BY <1>1, WFMin
<1>4. \A m \in S : ~(m < n) BY <1>2, <1>3
<1> QED BY <1>3, <1>4

\* One that is bounded has a greatest one.
LEMMA Greatest ==
  ASSUME NEW n \in Nat, NEW S \in SUBSET Nat, S # {}, \A x \in S : x <= n
  PROVE  \E m \in S : \A x \in S : x <= m
<1> DEFINE T == {n - y : y \in S}
<1>1. T \in SUBSET Nat /\ T # {}
  <2>1. \A y \in S : n - y \in Nat OBVIOUS
  <2>2. PICK y : y \in S OBVIOUS
  <2>3. n - y \in T BY <2>2
  <2>4. \A x \in T : x \in Nat BY <2>1
  <2> QED BY <2>3, <2>4
<1> HIDE DEF T
<1>2. PICK k \in T : \A x \in T : k <= x BY <1>1, Least
<1>3. PICK m \in S : k = n - m BY DEF T
<1>4. \A y \in S : y <= m
  <2> SUFFICES ASSUME NEW y \in S PROVE y <= m
    OBVIOUS
  <2>1. n - y \in T BY DEF T
  <2>2. k <= n - y BY <1>2, <2>1
  <2> QED BY <1>3, <2>2
<1> QED BY <1>4

\* What is in a sequence that got one element more.
LEMMA AppendRange ==
  ASSUME NEW S, NEW s \in Seq(S), NEW x \in S
  PROVE  Append(s, x) \in Seq(S) /\ Lay!Range(s) \subseteq Lay!Range(Append(s, x)) /\ Lay!Range(Append(s, x)) \subseteq Lay!Range(s) \cup {x}
         /\ x \in Lay!Range(Append(s, x))
<1> DEFINE t == Append(s, x)
<1>1. t \in Seq(S) /\ Len(t) = Len(s) + 1 /\ t[Len(s) + 1] = x OBVIOUS
<1>2. \A i \in 1 .. Len(s) : t[i] = s[i] OBVIOUS
<1>3. DOMAIN s = 1 .. Len(s) /\ DOMAIN t = 1 .. Len(s) + 1 /\ Len(s) \in Nat BY <1>1
<1> HIDE DEF t
<1> QED
  <2>1. Len(s) + 1 \in DOMAIN t BY <1>3
  <2>2. \A i \in DOMAIN s : i \in DOMAIN t /\ t[i] = s[i] BY <1>2, <1>3
  <2>3. \A i \in DOMAIN t : t[i] = x \/ (i \in DOMAIN s /\ t[i] = s[i]) BY <1>1, <1>2, <1>3
  <2>4. Lay!Range(s) \subseteq Lay!Range(t) BY <2>2 DEF Lay!Range
  <2>5. Lay!Range(t) \subseteq Lay!Range(s) \cup {x} BY <2>3 DEF Lay!Range
  <2>6. x \in Lay!Range(t) BY <1>1, <2>1 DEF Lay!Range
  <2> QED BY <1>1, <2>4, <2>5, <2>6 DEF t
-----------------------------------------------------------------------------
\* The element of S that a fold takes last.
Top(S) == CHOOSE x \in S : \A y \in S : x >= y
\* The recursion of a fold: op[<<i, t>>] is what the fold makes of t at element i.
Folded(h, n, base, op) ==
  h = [q \in SUBSET (1 .. n) |-> IF q = {} THEN base ELSE op[<<Top(q), h[q \ {Top(q)}]>>]]

\* A set of numbers up to n that is not empty has one.
LEMMA TopOf == ASSUME NEW n \in Nat, NEW q \in SUBSET (1 .. n), q # {} PROVE Top(q) \in q /\ \A y \in q : y <= Top(q)
<1> DEFINE S == {n - y : y \in q}
<1>1. S \in SUBSET Nat /\ S # {}
  <2>1. \A y \in q : y \in 1 .. n /\ n - y \in Nat OBVIOUS
  <2>2. PICK y : y \in q OBVIOUS
  <2>3. n - y \in S BY <2>2
  <2>4. \A x \in S : x \in Nat BY <2>1
  <2> QED BY <2>3, <2>4
<1> HIDE DEF S
<1>2. PICK m \in S : \A k \in S : m <= k BY <1>1, Least
<1>3. PICK x \in q : m = n - x BY DEF S
<1>4. \A y \in q : x >= y
  <2> SUFFICES ASSUME NEW y \in q PROVE x >= y
    OBVIOUS
  <2>1. n - y \in S BY DEF S
  <2>2. m <= n - y BY <1>2, <2>1
  <2> QED BY <1>3, <2>2
<1> QED BY <1>4 DEF Top

\* The last of 1 .. n + 1, and what is left without it.
LEMMA TopIs == ASSUME NEW n \in Nat PROVE Top(1 .. n + 1) = n + 1 /\ (1 .. n + 1) \ {n + 1} = 1 .. n
<1>1. Top(1 .. n + 1) \in 1 .. n + 1 /\ \A y \in 1 .. n + 1 : y <= Top(1 .. n + 1)
  <2>1. PICK m \in Nat : m = n + 1 OBVIOUS
  <2>2. PICK q \in SUBSET (1 .. m) : q = 1 .. m OBVIOUS
  <2>3. m \in q BY <2>1, <2>2
  <2> QED BY <2>1, <2>2, <2>3, TopOf
<1> QED BY <1>1

\* A fold whose steps stay in a set is well defined, and stays there.
LEMMA FoldExists ==
  ASSUME NEW T, NEW base \in T, NEW n \in Nat, NEW op \in [(1 .. n) \X T -> T]
  PROVE  \E h \in [SUBSET (1 .. n) -> T] : Folded(h, n, base, op)
<1> DEFINE Part(h, k) == /\ h \in [SUBSET (1 .. k) -> T]
                         /\ \A q \in SUBSET (1 .. k) : h[q] = IF q = {} THEN base ELSE op[<<Top(q), h[q \ {Top(q)}]>>]
           Has(k) == \E h : Part(h, k)
           Bad == {k \in Nat : k <= n /\ ~Has(k)}
<1>1. Has(0)
  <2> DEFINE h == [q \in SUBSET (1 .. 0) |-> base]
  <2>1. \A q \in SUBSET (1 .. 0) : q = {} OBVIOUS
  <2>2. Part(h, 0) BY <2>1
  <2> QED BY <2>2
<1>2. ASSUME NEW k \in Nat, k + 1 <= n, Has(k) PROVE Has(k + 1)
  <2>1. PICK h : Part(h, k) BY <1>2
  <2> DEFINE Down(q) == q \ {k + 1}
             g == [q \in SUBSET (1 .. k + 1) |-> IF k + 1 \in q THEN op[<<k + 1, h[Down(q)]>>] ELSE h[q]]
  <2>2. \A q \in SUBSET (1 .. k + 1) : Down(q) \in SUBSET (1 .. k) OBVIOUS
  <2>3. \A q \in SUBSET (1 .. k + 1) : k + 1 \notin q => q \in SUBSET (1 .. k) OBVIOUS
  <2>4. \A q \in SUBSET (1 .. k) : h[q] \in T BY <2>1
  <2>5. \A q \in SUBSET (1 .. k + 1) : g[q] = IF k + 1 \in q THEN op[<<k + 1, h[Down(q)]>>] ELSE h[q] OBVIOUS
  <2>6. DOMAIN g = SUBSET (1 .. k + 1) /\ g = [q \in SUBSET (1 .. k + 1) |-> g[q]] OBVIOUS
  <2> HIDE DEF Part, g, Down
  <2>7. ASSUME NEW q \in SUBSET (1 .. k + 1)
        PROVE  g[q] \in T /\ g[q] = IF q = {} THEN base ELSE op[<<Top(q), g[q \ {Top(q)}]>>]
    <3>1. CASE k + 1 \in q
      <4>1. k + 1 \in 1 .. n /\ h[Down(q)] \in T BY <1>2, <2>2, <2>4
      <4>2. g[q] = op[<<k + 1, h[Down(q)]>>] BY <2>5, <3>1
      <4>3. Top(q) = k + 1
        <5>1. PICK m \in Nat : m = k + 1 OBVIOUS
        <5>2. q \in SUBSET (1 .. m) /\ q # {} BY <3>1, <5>1
        <5>3. Top(q) \in q /\ \A y \in q : y <= Top(q) BY <5>2, TopOf
        <5>4. \A y \in q : y \in 1 .. m BY <5>2
        <5>5. m <= Top(q) /\ Top(q) \in 1 .. m BY <3>1, <5>1, <5>3, <5>4
        <5> QED BY <5>1, <5>5
      <4>4. Down(q) \in SUBSET (1 .. k + 1) /\ k + 1 \notin Down(q) BY DEF Down
      <4>5. g[Down(q)] = h[Down(q)] BY <2>5, <4>4
      <4>6. q \ {Top(q)} = Down(q) BY <4>3 DEF Down
      <4>7. op[<<k + 1, h[Down(q)]>>] \in T BY <4>1
      <4> QED BY <3>1, <4>2, <4>3, <4>5, <4>6, <4>7
    <3>2. CASE k + 1 \notin q
      <4>1. q \in SUBSET (1 .. k) BY <2>3, <3>2
      <4>2. g[q] = h[q] /\ h[q] \in T BY <2>4, <2>5, <3>2, <4>1
      <4>3. h[q] = IF q = {} THEN base ELSE op[<<Top(q), h[q \ {Top(q)}]>>] BY <2>1, <4>1 DEF Part
      <4>4. q \ {Top(q)} \in SUBSET (1 .. k + 1) /\ k + 1 \notin q \ {Top(q)} BY <3>2
      <4>5. g[q \ {Top(q)}] = h[q \ {Top(q)}] BY <2>5, <4>4
      <4> QED BY <4>2, <4>3, <4>5
    <3> QED BY <3>1, <3>2
  <2>8. g \in [SUBSET (1 .. k + 1) -> T] BY <2>6, <2>7
  <2> QED BY <2>7, <2>8 DEF Part
<1>3. Has(n)
  <2> HIDE DEF Has
  <2> SUFFICES ASSUME ~Has(n) PROVE FALSE
    OBVIOUS
  <2>1. n \in Bad /\ Bad \in SUBSET Nat OBVIOUS
  <2>2. PICK k \in Bad : \A m \in Bad : k <= m
    <3> HIDE DEF Bad
    <3> QED BY <2>1, Least
  <2>3. k # 0 BY <1>1
  <2>4. k - 1 \in Nat /\ k - 1 \notin Bad /\ (k - 1) + 1 <= n BY <2>2, <2>3
  <2>5. Has(k - 1) BY <2>4
  <2>6. Has((k - 1) + 1) BY <1>2, <2>4, <2>5
  <2> QED BY <2>6
<1>4. PICK h : Part(h, n) BY <1>3
<1>5. h = [q \in SUBSET (1 .. n) |-> IF q = {} THEN base ELSE op[<<Top(q), h[q \ {Top(q)}]>>]]
  BY <1>4
<1> QED BY <1>4, <1>5 DEF Folded

\* The same for the first i of N elements.
LEMMA TopStep ==
  ASSUME NEW N \in Nat, NEW i \in 1 .. N
  PROVE  Top(1 .. i) = i /\ (1 .. i) \ {Top(1 .. i)} = 1 .. i - 1 /\ 1 .. i \in SUBSET (1 .. N) /\ 1 .. i # {}
<1>1. PICK m \in Nat : m = i - 1 OBVIOUS
<1>2. Top(1 .. m + 1) = m + 1 /\ (1 .. m + 1) \ {m + 1} = 1 .. m BY TopIs
<1>3. Top(1 .. i) = i /\ (1 .. i) \ {i} = 1 .. i - 1 BY <1>1, <1>2
<1> QED BY <1>3

\* A segment as AutoGroup and AllocSeg see it.
SegmentRecord == [size : Nat, align : Nat \ {0}, code : BOOLEAN, use32 : BOOLEAN, private : BOOLEAN, abs : BOOLEAN,
                  noClass : BOOLEAN, user : BOOLEAN, last : BOOLEAN, init : Nat, base : Nat]

\* The links: in real mode no alignment exceeds a paragraph, and only there a class has a fixed address.
Sensible(f, s) ==
  /\ s \in Seq(SegmentRecord) /\ \A i \in 1 .. Len(s) : s[i].init <= s[i].size
  /\ f = "real" => \A i \in 1 .. Len(s) : Para % s[i].align = 0
  /\ f # "real" => \A i \in 1 .. Len(s) : s[i].base = 0

\* The five formats; alignments and paragraphs are not 0.
Machine ==
  /\ Formats \subseteq {"real", "flat", "split", "os2", "pe"}
  /\ Para \in Nat \ {0} /\ ObjAlign \in Nat \ {0}
  /\ \A f \in Formats : \A s \in Segments(f) : Sensible(f, s)

\* Packing and allocation leave the segments as they are.
Input == Machine /\ fmt \in Formats /\ segs \in Segments(fmt)

\* What there is to know of a segment.
LEMMA InputFacts ==
  ASSUME Input
  PROVE  /\ Len(segs) \in Nat /\ Lay!Placed \subseteq Lay!All
         /\ \A i \in Lay!All : i \in Nat /\ segs[i].size \in Nat /\ segs[i].align \in Nat \ {0} /\ segs[i].init \in Nat
                           /\ segs[i].base \in Nat /\ segs[i].init <= segs[i].size
         /\ fmt = "real" => \A i \in Lay!All : Para % segs[i].align = 0
         /\ fmt # "real" => \A i \in Lay!All : segs[i].base = 0
<1>1. Sensible(fmt, segs) BY DEF Input, Machine
<1>2. \A i \in Lay!All : segs[i] \in SegmentRecord BY <1>1 DEF Sensible, Lay!All
<1>3. \A i \in Lay!All : segs[i].size \in Nat /\ segs[i].align \in Nat \ {0} /\ segs[i].init \in Nat /\ segs[i].base \in Nat
  BY <1>2 DEF SegmentRecord
<1> QED BY <1>1, <1>3 DEF Sensible, Lay!All, Lay!Placed
-----------------------------------------------------------------------------
(* Packing                                                                  *)

\* The segments of the group that is being made.
InPack(j) == pack.start # 0 /\ pack.start <= j /\ j <= pack.at /\ ~Lay!Alone(j)
Waiting == {j \in Lay!All : InPack(j)}
Begun == pack.start # 0 => ~Lay!Alone(pack.start)

\* Groups have numbers, and each that has a segment with a place is in the list.
GroupInv ==
  /\ group \in [Lay!All -> Nat] /\ \E b \in Nat : \A j \in Lay!All : group[j] <= b
  /\ groups \in Seq(Nat) /\ Lay!Range(groups) \subseteq Lay!Range(group) \ {0} /\ dataGroups \subseteq Lay!Range(group) \ {0}
  /\ \A j \in Lay!Placed : group[j] # 0 => group[j] \in Lay!Range(groups)

\* A segment the loop has passed has a group or is one of the num that wait for it.
PackInv ==
  /\ {"at", "start", "num"} \subseteq DOMAIN pack
  /\ pack.at \in 0 .. Len(segs) /\ pack.start \in 0 .. pack.at /\ pack.num \in Nat
  /\ Begun /\ IsFiniteSet(Waiting) /\ Cardinality(Waiting) = pack.num
  /\ \A j \in Lay!All : j <= pack.at => group[j] # 0 \/ InPack(j)
  /\ \A j \in Lay!All : InPack(j) => group[j] = group[pack.start]

\* No group is left out.
Grouped == \A j \in Lay!All : group[j] # 0

\* PackSegs asked for one segment takes the one it begins with.
LEMMA CountedOne ==
  ASSUME Input, NEW i \in Lay!All PROVE Lay!Counted(i, group[i], 1) = {i}
<1> DEFINE fit == {j \in i .. Len(segs) : group[j] \in {0, group[i]}}
           Low(j) == {k \in fit : k <= j}
<1>1. Len(segs) \in Nat /\ i \in 1 .. Len(segs) BY InputFacts DEF Lay!All
<1>2. i \in fit /\ \A j \in fit : i <= j /\ j \in Nat BY <1>1
<1>3. Low(i) = {i} BY <1>2
<1>4. Cardinality(Low(i)) <= 1
  <2> HIDE DEF Low
  <2>1. Cardinality({i}) = 1 BY FS_Singleton
  <2> QED BY <1>3, <2>1
<1>5. ASSUME NEW j \in fit, Cardinality(Low(j)) <= 1 PROVE j = i
  <2>1. Low(j) \in SUBSET Nat /\ \A k \in Low(j) : k <= j BY <1>2
  <2>2. j \in Nat BY <1>2
  <2>3. IsFiniteSet(Low(j))
    <3> HIDE DEF Low
    <3> QED BY <2>1, <2>2, FS_BoundedSetOfNaturals
  <2>4. {i, j} \in SUBSET Low(j) BY <1>2
  <2>5. j # i => Cardinality({i} \cup {j}) = 2
    <3>1. IsFiniteSet({i}) /\ Cardinality({i}) = 1 BY FS_Singleton
    <3>2. Cardinality({i} \cup {j}) = IF j \in {i} THEN Cardinality({i}) ELSE Cardinality({i}) + 1 BY <3>1, FS_AddElement
    <3> HIDE DEF Low, fit
    <3>3. j # i => Cardinality({i} \cup {j}) = Cardinality({i}) + 1 BY <3>2
    <3> QED BY <3>1, <3>3
  <2>6. {i} \cup {j} = {i, j} OBVIOUS
  <2>7. Cardinality({i} \cup {j}) <= Cardinality(Low(j)) /\ Cardinality(Low(j)) \in Nat
    <3> HIDE DEF Low
    <3> QED BY <2>3, <2>4, <2>6, FS_Subset, FS_CardinalityType
  <2>8. Cardinality(Low(j)) <= 1 BY <1>5
  <2>9. ~(2 <= Cardinality(Low(j))) BY <2>7, <2>8
  <2> QED BY <2>5, <2>7, <2>9
<1>6. Lay!Counted(i, group[i], 1) = {j \in fit : Cardinality(Low(j)) <= 1} BY CardSame DEF Lay!Counted
<1> HIDE DEF Low, fit
<1> QED BY <1>2, <1>4, <1>5, <1>6

\* The number of a new group is that of no other.
LEMMA NewGroup ==
  ASSUME Input, GroupInv PROVE Lay!Max({Lay!UserGroup} \cup Lay!Range(group)) \in Nat /\ Lay!Max({Lay!UserGroup} \cup Lay!Range(group)) # 0
<1>1. PICK b \in Nat : \A j \in Lay!All : group[j] <= b BY DEF GroupInv
<1> DEFINE S == {Lay!UserGroup} \cup Lay!Range(group)
<1>2. group \in [Lay!All -> Nat] BY DEF GroupInv
<1>3. \A x \in Lay!Range(group) : x \in Nat /\ x <= b BY <1>1, <1>2 DEF Lay!Range
<1>4. \A x \in S : x \in Nat /\ x <= b + 1 BY <1>3 DEF Lay!UserGroup
<1>5. 1 \in S BY DEF Lay!UserGroup
<1> HIDE DEF S
<1>6. PICK n \in Nat : n = b + 1 OBVIOUS
<1>7. S \in SUBSET Nat /\ \A x \in S : x <= n BY <1>4, <1>6
<1>8. PICK m \in S : \A x \in S : x <= m BY <1>5, <1>7, Greatest
<1>9. \A x \in S : m >= x BY <1>7, <1>8
<1>10. Lay!Max(S) \in S /\ \A x \in S : Lay!Max(S) >= x BY <1>8, <1>9 DEF Lay!Max
<1>11. Lay!Max(S) \in Nat /\ Lay!Max(S) >= 1 BY <1>5, <1>7, <1>10
<1> QED BY <1>11 DEF S

\* What becomes of groups when segments get one: those that have one keep it.
LEMMA AfterPacked ==
  ASSUME Input, GroupInv, NEW i \in Lay!All, NEW num \in Nat, num # 0, segs[i].abs => num = 1,
         Lay!Packed(i, num), UNCHANGED Lay!input
  PROVE  /\ GroupInv'
         /\ \A j \in Lay!All : group[j] # 0 => group'[j] = group[j]
         /\ \A j \in Lay!All \ Lay!Counted(i, group[i], num) : group'[j] = group[j]
         /\ \A j \in Lay!Counted(i, group[i], num) : group'[j] # 0
<1> DEFINE new == Lay!Max({Lay!UserGroup} \cup Lay!Range(group)) + 1
           g == IF group[i] # 0 THEN group[i] ELSE new
           in == Lay!Counted(i, group[i], num)
<1>1. group \in [Lay!All -> Nat] /\ groups \in Seq(Nat) /\ \A j \in Lay!Placed : group[j] # 0 => group[j] \in Lay!Range(groups)
  BY DEF GroupInv
<1>2. new \in Nat \ {0} BY NewGroup
<1>3. g \in Nat \ {0} BY <1>1, <1>2
<1>4. group' = [j \in Lay!All |-> IF j \in in /\ group[j] = 0 THEN g ELSE group[j]] BY DEF Lay!Packed, Lay!PackSegs
<1>5. groups' = IF group[i] = 0 /\ ~segs[i].abs THEN Append(groups, g) ELSE groups BY DEF Lay!Packed
<1>6. dataGroups' = dataGroups \cup {g : j \in {k \in in : ~segs[k].code}} BY DEF Lay!Packed, Lay!PackSegs
<1>7. Len(segs) \in Nat /\ segs' = segs /\ Lay!All' = Lay!All /\ Lay!Placed' = Lay!Placed BY InputFacts DEF Lay!input, Lay!All, Lay!Placed
<1>8. in \subseteq Lay!All /\ \A j \in in : group[j] \in {0, group[i]} BY <1>7 DEF Lay!Counted, Lay!All
<1>9. i \in in
  <2> DEFINE fit == {j \in i .. Len(segs) : group[j] \in {0, group[i]}}
  <2>1. i \in fit /\ {k \in fit : k <= i} = {i} BY <1>7 DEF Lay!All
  <2>2. Cardinality({i}) = 1 BY FS_Singleton
  <2>3. Cardinality({k \in fit : k <= i}) <= num
    <3> HIDE DEF fit
    <3>1. {k \in fit : k <= i} = {i} BY <2>1
    <3>2. 1 <= num OBVIOUS
    <3> QED BY <2>2, <3>1, <3>2
  <2> QED BY <2>1, <2>3, CardSame DEF Lay!Counted
<1> HIDE DEF new, g, in
<1>10. group' \in [Lay!All -> Nat] /\ \A j \in Lay!All : group'[j] = IF j \in in /\ group[j] = 0 THEN g ELSE group[j]
  BY <1>1, <1>3, <1>4
<1>11. group'[i] = g /\ g \in Lay!Range(group') BY <1>9, <1>10 DEF g, Lay!Range
<1>12. Lay!Range(group) \ {0} \subseteq Lay!Range(group') \ {0}
  <2> SUFFICES ASSUME NEW x \in Lay!Range(group), x # 0 PROVE x \in Lay!Range(group')
    OBVIOUS
  <2>1. PICK j \in Lay!All : x = group[j] BY <1>1 DEF Lay!Range
  <2> QED BY <1>10, <2>1 DEF Lay!Range
<1>13. groups' \in Seq(Nat) /\ Lay!Range(groups) \subseteq Lay!Range(groups') /\ Lay!Range(groups') \subseteq Lay!Range(groups) \cup {g}
       /\ (group[i] = 0 /\ ~segs[i].abs => g \in Lay!Range(groups'))
  <2>1. CASE group[i] = 0 /\ ~segs[i].abs
    <3>1. groups' = Append(groups, g) /\ g \in Nat BY <1>3, <1>5, <2>1
    <3> QED BY <1>1, <3>1, AppendRange
  <2>2. CASE ~(group[i] = 0 /\ ~segs[i].abs) BY <1>1, <1>5, <2>2
  <2> QED BY <2>1, <2>2
<1>14. \A j \in Lay!Placed : group'[j] # 0 => group'[j] \in Lay!Range(groups')
  <2> SUFFICES ASSUME NEW j \in Lay!Placed, group'[j] # 0 PROVE group'[j] \in Lay!Range(groups')
    OBVIOUS
  <2>1. j \in Lay!All /\ ~segs[j].abs BY DEF Lay!Placed
  <2>2. CASE group[j] # 0 BY <1>1, <1>10, <1>13, <2>1, <2>2
  <2>3. CASE group[j] = 0
    <3>1. j \in in /\ group'[j] = g BY <1>10, <2>1, <2>3
    <3>2. ~segs[i].abs
      <4>1. segs[i].abs => in = {i} BY CountedOne DEF in
      <4> QED BY <2>1, <3>1, <4>1
    <3>3. group[i] # 0 => group[i] \in Lay!Range(groups) /\ g = group[i] BY <1>1, <3>2 DEF Lay!Placed, g
    <3> QED BY <1>13, <3>1, <3>2, <3>3
  <2> QED BY <2>2, <2>3
<1>15. \E b \in Nat : \A j \in Lay!All : group'[j] <= b
  <2>1. PICK b \in Nat : \A j \in Lay!All : group[j] <= b BY DEF GroupInv
  <2>2. b + g \in Nat /\ \A j \in Lay!All : group[j] \in Nat BY <1>1, <1>3
  <2>3. \A j \in Lay!All : group'[j] <= b + g BY <1>3, <1>10, <2>1, <2>2
  <2> QED BY <2>2, <2>3
<1>16. Lay!Range(groups') \subseteq Lay!Range(group') \ {0} /\ dataGroups' \subseteq Lay!Range(group') \ {0}
  BY <1>3, <1>6, <1>11, <1>12, <1>13 DEF GroupInv
<1> QED BY <1>3, <1>7, <1>8, <1>10, <1>14, <1>13, <1>15, <1>16 DEF GroupInv, in

\* The group that is made takes all segments that are waiting for it.
LEMMA PackTakes ==
  ASSUME Input, GroupInv, PackInv, pack.num # 0
  PROVE  /\ pack.start \in Lay!All /\ ~Lay!Alone(pack.start)
         /\ \A j \in Lay!All : j <= pack.at => group[j] # 0 \/ j \in Lay!Counted(pack.start, group[pack.start], pack.num)
<1> DEFINE S == Waiting
           i == pack.start
           fit == {j \in i .. Len(segs) : group[j] \in {0, group[i]}}
           Low(j) == {k \in fit : k <= j}
<1>1. Len(segs) \in Nat /\ Lay!All = 1 .. Len(segs) /\ pack.at \in Nat BY InputFacts DEF PackInv, Lay!All
<1>2. i # 0 /\ i \in Lay!All
  <2>1. pack.start = 0 => S = {} BY DEF InPack, Waiting
  <2>2. S = {} => Cardinality(S) = 0 BY FS_EmptySet
  <2>3. i # 0 BY <2>1, <2>2 DEF PackInv
  <2> QED BY <1>1, <2>3 DEF PackInv
<1>3. ASSUME NEW j \in Lay!All, j <= pack.at, group[j] = 0 PROVE j \in Lay!Counted(i, group[i], pack.num)
  <2>1. InPack(j) /\ group[i] = 0 BY <1>3 DEF PackInv
  <2>2. j \in fit BY <1>1, <1>3, <2>1 DEF InPack
  <2>3. Low(j) \in SUBSET S
    <3> SUFFICES ASSUME NEW k \in fit, k <= j PROVE k \in S
      OBVIOUS
    <3>1. k \in Lay!All /\ k \in Nat /\ j \in Nat /\ i <= k /\ group[k] = 0 BY <1>1, <1>2, <2>1
    <3>2. k <= pack.at BY <1>1, <1>3, <3>1
    <3> QED BY <3>1, <3>2 DEF PackInv, Waiting
  <2>4. IsFiniteSet(S) /\ Cardinality(S) = pack.num BY DEF PackInv
  <2> HIDE DEF S, Low, fit
  <2>5. Cardinality(Low(j)) <= pack.num BY <2>3, <2>4, FS_Subset
  <2> QED BY <2>2, <2>5, CardSame DEF Lay!Counted, fit, Low
<1>4. ~Lay!Alone(i) BY <1>2 DEF PackInv, Begun
<1> QED BY <1>2, <1>3, <1>4

\* Before the first round the groups are those the objects made.
LEMMA PackStart ==
  ASSUME Input, group = [j \in Lay!All |-> IF segs[j].user THEN Lay!UserGroup ELSE 0],
         groups = (IF \E j \in Lay!All : segs[j].user THEN <<Lay!UserGroup>> ELSE << >>), dataGroups = {},
         {"at", "start", "num"} \subseteq DOMAIN pack, pack.at = 0, pack.start = 0, pack.num = 0
  PROVE  GroupInv /\ PackInv
<1>1. Len(segs) \in Nat /\ Lay!Placed \subseteq Lay!All /\ \A j \in Lay!All : j \in Nat /\ j # 0 BY InputFacts DEF Lay!All
<1>2. group \in [Lay!All -> Nat] /\ \A j \in Lay!All : group[j] <= 1 /\ (group[j] # 0 => segs[j].user /\ group[j] = Lay!UserGroup)
  BY DEF Lay!UserGroup
<1>3. groups \in Seq(Nat) /\ Lay!Range(groups) = (IF \E j \in Lay!All : segs[j].user THEN {Lay!UserGroup} ELSE {})
  <2>1. CASE \E j \in Lay!All : segs[j].user
    <3>1. groups = <<Lay!UserGroup>> BY <2>1
    <3>2. groups \in Seq(Nat) BY <3>1 DEF Lay!UserGroup
    <3>3. DOMAIN groups = {1} /\ groups[1] = Lay!UserGroup BY <3>1
    <3>4. Lay!Range(groups) = {Lay!UserGroup} BY <3>3 DEF Lay!Range
    <3> QED BY <2>1, <3>2, <3>4
  <2>2. CASE ~\E j \in Lay!All : segs[j].user
    <3>1. groups = << >> /\ DOMAIN groups = {} BY <2>2
    <3> QED BY <2>2, <3>1 DEF Lay!Range
  <2> QED BY <2>1, <2>2
<1>4. Lay!Range(groups) \subseteq Lay!Range(group) \ {0}
  <2> SUFFICES ASSUME NEW j \in Lay!All, segs[j].user PROVE Lay!UserGroup \in Lay!Range(group) /\ Lay!UserGroup # 0
    BY <1>3
  <2>1. group[j] = Lay!UserGroup /\ DOMAIN group = Lay!All OBVIOUS
  <2> QED BY <2>1 DEF Lay!Range, Lay!UserGroup
<1>5. GroupInv
  <2>1. \E b \in Nat : \A j \in Lay!All : group[j] <= b BY <1>2
  <2>2. \A j \in Lay!Placed : group[j] # 0 => group[j] \in Lay!Range(groups) BY <1>1, <1>2, <1>3
  <2> QED BY <1>2, <1>3, <1>4, <2>1, <2>2 DEF GroupInv
<1>6. Waiting = {} BY DEF InPack, Waiting
<1>7. IsFiniteSet({}) /\ Cardinality({}) = 0 BY FS_EmptySet
<1>8. Begun /\ \A j \in Lay!All : ~InPack(j) /\ ~(j <= 0) BY <1>1 DEF InPack, Begun
<1>9. PackInv BY <1>1, <1>6, <1>7, <1>8 DEF PackInv
<1> QED BY <1>5, <1>9

\* A round of AutoGroupSect took one more segment.
Becomes(start, num) ==
  pack'.at = pack.at + 1 /\ pack'.start = start /\ pack'.num = num /\ {"at", "start", "num"} \subseteq DOMAIN pack'

\* A round adds a segment to the group, or cuts before it and makes the group.
LEMMA PackCases ==
  ASSUME PackInv, Lay!PackSegment, ~Lay!Alone(pack.at + 1)
  PROVE  LET i == pack.at + 1
             first == IF pack.start = 0 THEN i ELSE pack.start IN
         \/ Becomes(first, pack.num + 1) /\ Lay!CanPack(first, i) /\ UNCHANGED <<group, groups, dataGroups>>
         \/ Becomes(i, 1) /\ (IF pack.num # 0 THEN Lay!Packed(pack.start, pack.num) ELSE UNCHANGED <<group, groups, dataGroups>>)
<1> DEFINE i == pack.at + 1
           first == IF pack.start = 0 THEN i ELSE pack.start
           p == IF pack.start = 0 THEN [pack EXCEPT !.start = i, !.limit = Lay!SetSegType(i)] ELSE pack
           aligned == Lay!AlignUp(pack.size, segs[i].align) % Max32
           newSize == (aligned + segs[i].size) % Max32
           cut == newSize >= p.limit \/ newSize < p.size \/ p.lastseg \/ ~Lay!CanPack(p.start, i)
<1>1. {"at", "start", "num"} \subseteq DOMAIN pack BY DEF PackInv
<1>2. p.start = first /\ p.num = pack.num /\ p.at = pack.at /\ {"at", "start", "num"} \subseteq DOMAIN p BY <1>1
<1>3. /\ pack' = IF cut THEN [p EXCEPT !.at = i, !.start = i, !.num = 1, !.size = Lay!CutSize(aligned, i),
                                    !.limit = Lay!SetSegType(i), !.lastseg = segs[i].last]
                  ELSE [p EXCEPT !.at = i, !.num = @ + 1, !.size = newSize, !.lastseg = @ \/ segs[i].last]
      /\ IF cut /\ p.num # 0 THEN Lay!Packed(p.start, p.num) ELSE UNCHANGED <<group, groups, dataGroups>>
  BY DEF Lay!PackSegment
<1>4. pack.start = 0 => pack.num = 0
  <2>1. pack.start = 0 => Waiting = {} BY DEF InPack, Waiting
  <2>2. Cardinality({}) = 0 BY FS_EmptySet
  <2> QED BY <2>1, <2>2 DEF PackInv
<1>5. ~cut => Lay!CanPack(first, i) BY <1>2
<1>6. cut => Becomes(i, 1)
  <2> HIDE DEF p, cut, aligned, newSize
  <2>1. cut => pack' = [p EXCEPT !.at = i, !.start = i, !.num = 1, !.size = Lay!CutSize(aligned, i),
                                 !.limit = Lay!SetSegType(i), !.lastseg = segs[i].last] BY <1>3
  <2> QED BY <1>2, <2>1 DEF Becomes
<1>7. ~cut => Becomes(first, pack.num + 1)
  <2> HIDE DEF p, cut, aligned, newSize, first
  <2>1. ~cut => pack' = [p EXCEPT !.at = i, !.num = p.num + 1, !.size = newSize, !.lastseg = p.lastseg \/ segs[i].last] BY <1>3
  <2> QED BY <1>2, <2>1 DEF Becomes
<1>8. pack.num # 0 => first = pack.start BY <1>4
<1> HIDE DEF p, cut, aligned, newSize
<1>9. CASE cut
  <2>1. IF pack.num # 0 THEN Lay!Packed(pack.start, pack.num) ELSE UNCHANGED <<group, groups, dataGroups>> BY <1>2, <1>3, <1>8, <1>9
  <2> QED BY <1>6, <1>9, <2>1
<1>10. CASE ~cut
  <2>1. UNCHANGED <<group, groups, dataGroups>> BY <1>3, <1>10
  <2> QED BY <1>5, <1>7, <1>10, <2>1
<1> QED BY <1>9, <1>10

\* A round of AutoGroupSect loses no segment.
LEMMA StepPackSegment ==
  ASSUME Input, GroupInv, PackInv, Lay!PackSegment PROVE GroupInv' /\ PackInv'
<1> DEFINE i == pack.at + 1
           first == IF pack.start = 0 THEN i ELSE pack.start
           S == Waiting
<1>1. segs' = segs /\ Lay!All' = Lay!All /\ Lay!Placed' = Lay!Placed /\ UNCHANGED Lay!input BY DEF Lay!PackSegment, Lay!input, Lay!All, Lay!Placed
<1>2. \A j : Lay!Alone(j)' <=> Lay!Alone(j) BY <1>1 DEF Lay!Alone
<1>3. Len(segs) \in Nat /\ pack.at \in Nat /\ i \in Lay!All /\ \A j \in Lay!All : j \in Nat /\ j # 0 /\ (j <= i <=> j = i \/ j <= pack.at)
  BY InputFacts DEF Lay!PackSegment, PackInv, Lay!All
<1>4. group \in [Lay!All -> Nat] BY DEF GroupInv
<1>5. CASE Lay!Alone(i)
  <2>1. Lay!Packed(i, 1) /\ pack' = [pack EXCEPT !.at = i] BY <1>5 DEF Lay!PackSegment
  <2>2. Lay!Counted(i, group[i], 1) = {i} BY <1>3, CountedOne
  <2>3. /\ GroupInv'
        /\ \A j \in Lay!All \ {i} : group'[j] = group[j]
        /\ group'[i] # 0
    <3>1. /\ GroupInv'
          /\ \A j \in Lay!All \ Lay!Counted(i, group[i], 1) : group'[j] = group[j]
          /\ \A j \in Lay!Counted(i, group[i], 1) : group'[j] # 0
      BY <1>1, <1>3, <2>1, AfterPacked
    <3> QED BY <2>2, <3>1
  <2>4. pack'.at = i /\ pack'.start = pack.start /\ pack'.num = pack.num /\ {"at", "start", "num"} \subseteq DOMAIN pack'
    BY <2>1 DEF PackInv
  <2>5. \A j \in Lay!All : InPack(j)' <=> InPack(j) BY <1>2, <1>3, <1>5, <2>4 DEF InPack
  <2>6. Waiting' = S BY <1>1, <2>5 DEF Waiting
  <2>7. \A j \in Lay!All : j <= i => group'[j] # 0 \/ InPack(j)' BY <1>3, <2>3, <2>5 DEF PackInv
  <2>8. \A j \in Lay!All : InPack(j)' => group'[j] = group'[pack.start]
    <3> SUFFICES ASSUME NEW j \in Lay!All, InPack(j) PROVE group'[j] = group'[pack.start]
      BY <2>5
    <3>1. j # i /\ pack.start # i /\ pack.start \in Lay!All BY <1>3, <1>5 DEF InPack, PackInv, Lay!All
    <3> QED BY <2>3, <3>1 DEF PackInv
  <2>9. pack.start \in 0 .. i BY <1>3 DEF PackInv
  <2>10. pack'.at \in 0 .. Len(segs') /\ pack'.start \in 0 .. pack'.at /\ pack'.num \in Nat
    BY <1>1, <1>3, <2>4, <2>9 DEF PackInv, Lay!All
  <2>11. Begun' BY <1>1, <2>4 DEF PackInv, Begun, Lay!Alone
  <2>12. IsFiniteSet(S) /\ Cardinality(S) = pack'.num BY <2>4 DEF PackInv
  <2> QED BY <1>1, <2>3, <2>4, <2>6, <2>7, <2>8, <2>10, <2>11, <2>12 DEF PackInv
<1>6. CASE ~Lay!Alone(i) /\ Becomes(first, pack.num + 1) /\ Lay!CanPack(first, i) /\ UNCHANGED <<group, groups, dataGroups>>
  <2>1. pack'.at = i /\ pack'.start = first /\ pack'.num = pack.num + 1 /\ {"at", "start", "num"} \subseteq DOMAIN pack'
    BY <1>6 DEF Becomes
  <2>2. group' = group /\ GroupInv' BY <1>1, <1>6 DEF GroupInv
  <2>3. first \in Lay!All /\ first <= i /\ first # 0 BY <1>3 DEF PackInv, Lay!All
  <2>4. \A j \in Lay!All : InPack(j)' <=> InPack(j) \/ j = i
    <3> SUFFICES ASSUME NEW j \in Lay!All PROVE InPack(j)' <=> InPack(j) \/ j = i
      OBVIOUS
    <3>1. InPack(j)' <=> first <= j /\ j <= i /\ ~Lay!Alone(j) BY <1>2, <2>1, <2>3 DEF InPack
    <3>2. pack.start = 0 => (first <= j /\ j <= i <=> j = i) BY <1>3
    <3>3. pack.start # 0 => (j <= i <=> j = i \/ j <= pack.at) /\ first <= i BY <1>3, <2>3
    <3> QED BY <1>6, <3>1, <3>2, <3>3 DEF InPack
  <2>5. i \notin S BY <1>3 DEF InPack, Waiting
  <2>6. Waiting' = S \cup {i} BY <1>1, <1>3, <2>4 DEF Waiting
  <2>7. IsFiniteSet(S) /\ Cardinality(S) = pack.num BY DEF PackInv
  <2>8. IsFiniteSet(S \cup {i}) /\ Cardinality(S \cup {i}) = pack.num + 1
    <3> HIDE DEF S, i
    <3> QED BY <2>5, <2>7, FS_AddElement
  <2>9. group[i] = group[first] BY <1>6 DEF Lay!CanPack
  <2>10. \A j \in Lay!All : InPack(j)' => group'[j] = group'[first]
    <3> SUFFICES ASSUME NEW j \in Lay!All, InPack(j) PROVE group[j] = group[first]
      BY <2>2, <2>4, <2>9
    <3> QED BY DEF InPack, PackInv
  <2>11. \A j \in Lay!All : j <= i => group'[j] # 0 \/ InPack(j)' BY <1>3, <2>2, <2>4 DEF PackInv
  <2>12. ~Lay!Alone(first) BY <1>6 DEF PackInv, Begun
  <2>13. pack'.at \in 0 .. Len(segs') /\ pack'.start \in 0 .. pack'.at /\ pack'.num \in Nat
    BY <1>1, <1>3, <2>1, <2>3 DEF PackInv, Lay!All
  <2>14. Begun' BY <1>1, <2>1, <2>12 DEF Begun, Lay!Alone
  <2> QED BY <1>1, <2>1, <2>2, <2>6, <2>8, <2>10, <2>11, <2>13, <2>14 DEF PackInv
<1>7. CASE ~Lay!Alone(i) /\ Becomes(i, 1)
           /\ (IF pack.num # 0 THEN Lay!Packed(pack.start, pack.num) ELSE UNCHANGED <<group, groups, dataGroups>>)
  <2>1. pack'.at = i /\ pack'.start = i /\ pack'.num = 1 /\ {"at", "start", "num"} \subseteq DOMAIN pack'
    BY <1>7 DEF Becomes
  <2>2. GroupInv' /\ \A j \in Lay!All : j <= pack.at => group'[j] # 0
    <3>1. CASE pack.num # 0
      <4>1. pack.start \in Lay!All /\ ~segs[pack.start].abs BY <3>1, PackTakes DEF Lay!Alone
      <4>2. /\ GroupInv'
            /\ \A j \in Lay!All : group[j] # 0 => group'[j] = group[j]
            /\ \A j \in Lay!Counted(pack.start, group[pack.start], pack.num) : group'[j] # 0
        BY <1>1, <1>7, <3>1, <4>1, AfterPacked DEF PackInv
      <4> QED BY <3>1, <4>2, PackTakes
    <3>2. CASE pack.num = 0
      <4>1. group' = group /\ GroupInv' BY <1>1, <1>7, <3>2 DEF GroupInv
      <4>2. S = {}
        <5>1. IsFiniteSet(S) /\ Cardinality(S) = 0 BY <3>2 DEF PackInv
        <5> HIDE DEF S
        <5> QED BY <5>1, FS_EmptySet
      <4> QED BY <4>1, <4>2 DEF PackInv, Waiting
    <3> QED BY <3>1, <3>2
  <2>3. \A j \in Lay!All : InPack(j)' <=> j = i BY <1>2, <1>3, <1>7, <2>1 DEF InPack
  <2>4. Waiting' = {i} BY <1>1, <1>3, <2>3 DEF Waiting
  <2>5. IsFiniteSet({i}) /\ Cardinality({i}) = 1 BY FS_Singleton
  <2>6. \A j \in Lay!All : j <= i => group'[j] # 0 \/ InPack(j)' BY <1>3, <2>2, <2>3
  <2>7. \A j \in Lay!All : InPack(j)' => group'[j] = group'[pack'.start] BY <2>1, <2>3
  <2>8. pack'.at \in 0 .. Len(segs') /\ pack'.start \in 0 .. pack'.at /\ pack'.num \in Nat
    BY <1>1, <1>3, <2>1 DEF Lay!All
  <2>9. Begun' BY <1>1, <1>7, <2>1 DEF Begun, Lay!Alone
  <2> QED BY <1>1, <2>1, <2>2, <2>4, <2>5, <2>6, <2>7, <2>8, <2>9 DEF PackInv
<1> QED BY <1>5, <1>6, <1>7, PackCases

\* With the last group no segment is left waiting.
LEMMA StepPackLast ==
  ASSUME Input, GroupInv, PackInv, Lay!PackLast PROVE GroupInv' /\ Grouped'
<1>1. Lay!All' = Lay!All /\ Lay!Placed' = Lay!Placed /\ UNCHANGED Lay!input /\ pack.at = Len(segs) BY DEF Lay!PackLast, Lay!input, Lay!All, Lay!Placed
<1>2. \A j \in Lay!All : j <= pack.at BY <1>1, InputFacts DEF Lay!All
<1>3. CASE pack.num # 0
  <2>1. pack.start \in Lay!All /\ ~segs[pack.start].abs BY <1>3, PackTakes DEF Lay!Alone
  <2>2. Lay!Packed(pack.start, pack.num) BY <1>3 DEF Lay!PackLast
  <2>3. /\ GroupInv'
        /\ \A j \in Lay!All : group[j] # 0 => group'[j] = group[j]
        /\ \A j \in Lay!Counted(pack.start, group[pack.start], pack.num) : group'[j] # 0
    BY <1>1, <1>3, <2>1, <2>2, AfterPacked DEF PackInv
  <2>4. \A j \in Lay!All : group'[j] # 0 BY <1>2, <1>3, <2>3, PackTakes
  <2> QED BY <1>1, <2>3, <2>4 DEF Grouped
<1>4. CASE pack.num = 0
  <2> DEFINE S == Waiting
  <2>1. group' = group /\ GroupInv' BY <1>1, <1>4 DEF Lay!PackLast, GroupInv
  <2>2. S = {}
    <3>1. IsFiniteSet(S) /\ Cardinality(S) = 0 BY <1>4 DEF PackInv
    <3> HIDE DEF S
    <3> QED BY <3>1, FS_EmptySet
  <2> QED BY <1>1, <1>2, <2>1, <2>2 DEF PackInv, Grouped, Waiting
<1> QED BY <1>3, <1>4
-----------------------------------------------------------------------------
(* Sorting                                                                  *)

\* After SortGroupList each group is in the list once, and none is empty.
Sorted ==
  /\ group \in [Lay!All -> Nat] /\ groups \in Seq(Nat)
  /\ \A j, k \in DOMAIN groups : groups[j] = groups[k] => j = k
  /\ \A k \in DOMAIN groups : Lay!Leaders(groups[k]) # {}
  /\ \A i \in Lay!Placed : \E k \in DOMAIN groups : groups[k] = group[i]
  /\ Lay!Range(groups) \subseteq Lay!Range(group) /\ dataGroups \subseteq Lay!Range(group)

\* A group that is not empty has a first segment.
LEMMA FirstIs == ASSUME Input, NEW g, Lay!Leaders(g) # {} PROVE Lay!First(g) \in Nat /\ Lay!First(g) \in Lay!Leaders(g)
<1> DEFINE S == Lay!Leaders(g)
<1>1. S \in SUBSET Nat BY InputFacts DEF Lay!Leaders
<1>2. PICK n \in S : \A m \in S : n <= m
  <2> HIDE DEF S
  <2> QED BY <1>1, Least DEF S
<1>3. Lay!Min(S) \in S BY <1>2 DEF Lay!Min
<1> QED BY <1>1, <1>3 DEF Lay!First

\* SortGroupList drops no group that has a segment with a place.
LEMMA StepSort ==
  ASSUME Input, GroupInv, Grouped, Lay!SortGroupList PROVE Sorted' /\ total' \in [Lay!Range(group') -> Nat] /\ \A g \in Lay!Range(group') : total'[g] = 0
<1> DEFINE some == {g \in Lay!Range(groups) : Lay!Leaders(g) # {}}
<1>1. PICK s \in [1 .. Cardinality(some) -> some] :
        Lay!Range(s) = some /\ (\A j, k \in DOMAIN s : j < k => Lay!First(s[j]) < Lay!First(s[k])) /\ groups' = s
  BY CardSame DEF Lay!SortGroupList
<1>2. /\ group' = group /\ dataGroups' = dataGroups /\ segs' = segs /\ Lay!All' = Lay!All /\ Lay!Placed' = Lay!Placed
      /\ \A g : Lay!Leaders(g)' = Lay!Leaders(g)
  BY DEF Lay!SortGroupList, Lay!input, Lay!All, Lay!Placed, Lay!Leaders
<1>3. group \in [Lay!All -> Nat] /\ Lay!Range(groups) \subseteq Lay!Range(group) BY DEF GroupInv
<1>4. PICK b \in Nat : \A j \in Lay!All : group[j] <= b BY DEF GroupInv
<1>5. \A x \in some : x \in Nat /\ x <= b BY <1>3, <1>4 DEF Lay!Range
<1>6. Cardinality(some) \in Nat
  <2> HIDE DEF some
  <2>1. some \in SUBSET Nat BY <1>5
  <2> QED BY <1>5, <2>1, FS_BoundedSetOfNaturals, FS_CardinalityType
<1>7. \A g \in some : Lay!First(g) \in Nat BY FirstIs
<1>8. \A g \in some : g \in Lay!Range(group) /\ Lay!Leaders(g) # {} BY <1>3
<1>9. \A i \in Lay!Placed : group[i] \in some
  <2> SUFFICES ASSUME NEW i \in Lay!Placed PROVE group[i] \in some
    OBVIOUS
  <2>1. i \in Lay!All /\ group[i] # 0 BY InputFacts DEF Grouped
  <2>2. group[i] \in Lay!Range(groups) BY <2>1 DEF GroupInv
  <2>3. i \in Lay!Leaders(group[i]) BY DEF Lay!Leaders
  <2> QED BY <2>2, <2>3
<1> HIDE DEF some
<1>10. PICK n \in Nat : n = Cardinality(some) BY <1>6
<1>11. s \in [1 .. n -> some] /\ DOMAIN s = 1 .. n BY <1>1, <1>10
<1>12. s \in Seq(Nat) BY <1>5, <1>11
<1>13. \A j, k \in DOMAIN s : s[j] = s[k] => j = k
  <2> SUFFICES ASSUME NEW j \in DOMAIN s, NEW k \in DOMAIN s, s[j] = s[k], j # k PROVE FALSE
    OBVIOUS
  <2>0. j \in 1 .. n /\ k \in 1 .. n BY <1>11
  <2>1. j \in Nat /\ k \in Nat /\ s[j] \in some /\ s[k] \in some
    <3>1. s \in [1 .. n -> some] BY <1>11
    <3>2. s[j] \in some BY <2>0, <3>1
    <3>3. s[k] \in some BY <2>0, <3>1
    <3> QED BY <2>0, <3>2, <3>3
  <2>2. j < k \/ k < j BY <2>1
  <2>3. Lay!First(s[j]) \in Nat /\ Lay!First(s[k]) \in Nat BY <1>7, <2>1
  <2>4. Lay!First(s[j]) < Lay!First(s[k]) \/ Lay!First(s[k]) < Lay!First(s[j]) BY <1>1, <2>2
  <2> QED BY <2>3, <2>4
<1>14. \A i \in Lay!Placed : \E k \in DOMAIN s : s[k] = group[i]
  <2> SUFFICES ASSUME NEW i \in Lay!Placed PROVE \E k \in DOMAIN s : s[k] = group[i]
    OBVIOUS
  <2>1. group[i] \in Lay!Range(s) BY <1>1, <1>9
  <2> QED BY <2>1 DEF Lay!Range
<1>15. \A k \in DOMAIN s : Lay!Leaders(s[k]) # {} BY <1>8, <1>11
<1>16. Lay!Range(s) \subseteq Lay!Range(group) BY <1>1, <1>8
<1>17. Lay!Range(group)' = Lay!Range(group) BY <1>2
<1>18. total' = [g \in Lay!Range(group') |-> 0] BY <1>2 DEF Lay!SortGroupList
<1> QED BY <1>1, <1>2, <1>3, <1>12, <1>13, <1>14, <1>15, <1>16, <1>18 DEF Sorted, GroupInv
-----------------------------------------------------------------------------
(* Addresses                                                                *)

\* An address: a frame and an offset.
Spot == [seg : Nat, off : Nat]

\* Formats in which a group is a segment of the file.
InFile == fmt \in {"os2", "pe"}

\* CAlign does not go back and aligns.
LEMMA AlignUpRight ==
  ASSUME NEW n \in Nat, NEW a \in Nat \ {0}
  PROVE  Lay!AlignUp(n, a) \in Nat /\ n <= Lay!AlignUp(n, a) /\ Lay!AlignUp(n, a) % a = 0
<1>1. PICK m \in Nat : m = n + a - 1 OBVIOUS
<1>2. PICK q \in Nat : q = m \div a OBVIOUS
<1>3. m = a * (m \div a) + (m % a) /\ m % a <= a - 1 OBVIOUS
<1>4. Lay!AlignUp(n, a) = q * a BY <1>1, <1>2 DEF Lay!AlignUp
<1>5. q * a = a * q /\ q * a \in Nat OBVIOUS
<1>6. (q * a) % a = 0 OBVIOUS
<1>7. m % a \in Nat OBVIOUS
<1>8. m = q * a + (m % a) BY <1>2, <1>3, <1>5
<1>9. n <= q * a BY <1>1, <1>3, <1>5, <1>7, <1>8
<1> QED BY <1>4, <1>5, <1>6, <1>9

\* The number of a byte.
LEMMA LinearIs == ASSUME Machine, NEW a \in Spot PROVE Lay!Linear(a) \in Nat
<1>1. a.seg \in Nat /\ a.off \in Nat /\ Para \in Nat BY DEF Spot, Machine
<1>2. a.seg * Para \in Nat BY <1>1
<1> QED BY <1>1, <1>2 DEF Lay!Linear

\* NormalizeAddr changes the frame, not the byte.
LEMMA NormalRight ==
  ASSUME Machine, NEW a \in Spot PROVE Lay!Normal(a) \in Spot /\ Lay!Linear(Lay!Normal(a)) = Lay!Linear(a)
<1>1. PICK s \in Nat, o \in Nat, p \in Nat \ {0} : s = a.seg /\ o = a.off /\ p = Para BY DEF Spot, Machine
<1>2. PICK q \in Nat, r \in Nat : q = o \div p /\ r = o % p OBVIOUS
<1>3. o = p * (o \div p) + (o % p) OBVIOUS
<1>4. (s + q) * p = s * p + q * p /\ q * p = p * q /\ s * p \in Nat /\ p * q \in Nat OBVIOUS
<1>5. Lay!Normal(a) = [seg |-> s + q, off |-> r] BY <1>1, <1>2 DEF Lay!Normal
<1>6. Lay!Normal(a) \in Spot BY <1>5 DEF Spot
<1>7. Lay!Linear(Lay!Normal(a)) = (s + q) * p + r BY <1>1, <1>5 DEF Lay!Linear
<1>8. Lay!Linear(a) = s * p + o BY <1>1 DEF Lay!Linear
<1> QED BY <1>2, <1>3, <1>4, <1>6, <1>7, <1>8

\* Aligning an address does not go back.
LEMMA AlignedRight ==
  ASSUME Machine, NEW a \in Spot, NEW i, segs[i].align \in Nat \ {0}
  PROVE  Lay!Aligned(a, i) \in Spot /\ Lay!Aligned(a, i).off % segs[i].align = 0 /\ Lay!Linear(a) <= Lay!Linear(Lay!Aligned(a, i))
         /\ Lay!Aligned(a, i).seg = a.seg /\ Lay!Aligned(a, i).off = Lay!AlignUp(a.off, segs[i].align)
<1>1. PICK s \in Nat, o \in Nat : s = a.seg /\ o = a.off /\ a = [seg |-> s, off |-> o] BY DEF Spot
<1>2. PICK u \in Nat : u = Lay!AlignUp(o, segs[i].align) /\ o <= u /\ u % segs[i].align = 0 BY AlignUpRight
<1>3. Lay!Aligned(a, i) = [seg |-> s, off |-> u] BY <1>1, <1>2 DEF Lay!Aligned
<1>4. s * Para \in Nat BY DEF Machine
<1>5. Lay!Linear(a) = s * Para + o /\ Lay!Linear(Lay!Aligned(a, i)) = s * Para + u BY <1>1, <1>3 DEF Lay!Linear
<1> QED BY <1>1, <1>2, <1>3, <1>4, <1>5 DEF Spot

\* If a paragraph is a multiple of the alignment, the whole address is aligned.
LEMMA AlignedAll ==
  ASSUME Machine, NEW a \in Spot, NEW b \in Nat \ {0}, Para % b = 0, a.off % b = 0
  PROVE  Lay!Linear(a) % b = 0
<1>1. PICK s \in Nat, o \in Nat, p \in Nat : s = a.seg /\ o = a.off /\ p = Para BY DEF Spot, Machine
<1>2. PICK m \in Nat, q \in Nat : m = p \div b /\ q = o \div b OBVIOUS
<1>3. p = b * (p \div b) + (p % b) /\ o = b * (o \div b) + (o % b) OBVIOUS
<1>4. p = m * b /\ o = q * b
  <2>1. b * m = m * b /\ b * q = q * b OBVIOUS
  <2>2. b * m \in Nat /\ b * q \in Nat OBVIOUS
  <2> QED BY <1>1, <1>2, <1>3, <2>1, <2>2
<1>5. s * (m * b) = (s * m) * b OBVIOUS
<1>6. (s * m) * b + q * b = (s * m + q) * b OBVIOUS
<1>7. PICK t \in Nat : t = s * m + q
  <2>1. s * m \in Nat OBVIOUS
  <2> QED BY <2>1
<1>8. (t * b) % b = 0 OBVIOUS
<1>9. Lay!Linear(a) = t * b BY <1>1, <1>4, <1>5, <1>6, <1>7 DEF Lay!Linear
<1> QED BY <1>8, <1>9

\* AddSize.
LEMMA GrownRight ==
  ASSUME Machine, NEW a \in Spot, NEW n \in Nat
  PROVE  Lay!Grown(a, n) \in Spot /\ Lay!Linear(Lay!Grown(a, n)) = Lay!Linear(a) + n /\ Lay!Grown(a, n).off = a.off + n
<1>1. PICK s \in Nat, o \in Nat : s = a.seg /\ o = a.off /\ a = [seg |-> s, off |-> o] BY DEF Spot
<1>2. Lay!Grown(a, n) = [seg |-> s, off |-> o + n] BY <1>1 DEF Lay!Grown
<1>3. s * Para \in Nat BY DEF Machine
<1>4. Lay!Linear(a) = s * Para + o /\ Lay!Linear(Lay!Grown(a, n)) = s * Para + (o + n) BY <1>1, <1>2 DEF Lay!Linear
<1> QED BY <1>1, <1>2, <1>3, <1>4 DEF Spot

\* ChkLocated never goes back.
LEMMA LocatedRight ==
  ASSUME Input, NEW a \in Spot, NEW i \in Lay!All
  PROVE  Lay!Located(a, i) \in Spot /\ Lay!Linear(a) <= Lay!Linear(Lay!Located(a, i))
<1>1. segs[i].base \in Nat /\ Machine BY InputFacts DEF Input
<1>2. PICK b \in Nat, p \in Nat \ {0} : b = segs[i].base /\ p = Para BY <1>1 DEF Machine
<1>3. PICK q \in Nat, r \in Nat : q = b \div p /\ r = b % p OBVIOUS
<1>4. b = p * (b \div p) + (b % p) /\ q * p = p * q OBVIOUS
<1>5. CASE segs[i].base # 0 /\ Lay!Linear(a) <= segs[i].base
  <2>1. Lay!Located(a, i) = [seg |-> q, off |-> r] BY <1>2, <1>3, <1>5 DEF Lay!Located
  <2>2. Lay!Linear(Lay!Located(a, i)) = q * p + r BY <1>2, <2>1 DEF Lay!Linear
  <2>3. q * p + r = b BY <1>3, <1>4
  <2> QED BY <1>2, <1>5, <2>1, <2>2, <2>3 DEF Spot
<1>6. CASE ~(segs[i].base # 0 /\ Lay!Linear(a) <= segs[i].base)
  <2>1. Lay!Located(a, i) = a BY <1>6 DEF Lay!Located
  <2>2. Lay!Linear(a) \in Nat BY <1>1, LinearIs
  <2> QED BY <2>1, <2>2
<1> QED BY <1>5, <1>6

\* Segments get their addresses in the order of the list.
AddrType ==
  /\ DOMAIN addr \subseteq Lay!Placed /\ \A i \in DOMAIN addr : addr[i] \in Spot
  /\ \A s \in {"code", "data"} : s \in DOMAIN loc /\ loc[s] \in Spot
  /\ \A i \in DOMAIN addr, j \in Lay!Placed : j < i => j \in DOMAIN addr

\* Formats with one or two address spaces: loc is behind all that was placed.
MemInv == ~InFile =>
  \A i \in DOMAIN addr :
    /\ Lay!Linear(addr[i]) + segs[i].size <= Lay!Linear(loc[Lay!Space(i)])
    /\ (IF fmt = "real" THEN Lay!Linear(addr[i]) ELSE addr[i].off) % segs[i].align = 0
    /\ \A j \in DOMAIN addr : i < j /\ Lay!Space(i) = Lay!Space(j) => Lay!Linear(addr[i]) + segs[i].size <= Lay!Linear(addr[j])

\* Formats with a segment of the file for each group: total is behind all that takes room.
FileInv == InFile =>
  /\ total \in [Lay!Range(group) -> Nat]
  /\ \A i \in DOMAIN addr :
       /\ addr[i].seg = group[i] /\ addr[i].off % segs[i].align = 0
       /\ segs[i].size # 0 => addr[i].off + segs[i].size <= total[group[i]]
       /\ \A j \in DOMAIN addr : i < j /\ group[i] = group[j] /\ segs[i].size # 0 => addr[i].off + segs[i].size <= addr[j].off

\* What holds between two segments that get their addresses.
AllocInv == Sorted /\ AddrType /\ MemInv /\ FileInv

\* The place of segment i, and what loc becomes.
From(i) == Lay!Located(loc[Lay!Space(i)], i)
Place(i) == CASE fmt = "real" -> Lay!RealSegment(i, From(i))
              [] fmt \in {"flat", "split"} -> Lay!FlatSegment(i, From(i))
              [] OTHER -> Lay!GroupSegment(i)

\* There are two address spaces at most.
LEMMA SpaceIs == ASSUME NEW i PROVE Lay!Space(i) \in {"code", "data"}
  BY DEF Lay!Space

\* In memory a segment is aligned and not below loc, and loc comes to be behind it.
LEMMA MemPlace ==
  ASSUME Input, AddrType, ~InFile, NEW i \in Lay!All
  PROVE  /\ Place(i).at \in Spot /\ Place(i).next \in Spot
         /\ Lay!Linear(loc[Lay!Space(i)]) <= Lay!Linear(Place(i).at) /\ Lay!Linear(Place(i).next) = Lay!Linear(Place(i).at) + segs[i].size
         /\ (IF fmt = "real" THEN Lay!Linear(Place(i).at) ELSE Place(i).at.off) % segs[i].align = 0
<1> DEFINE a == From(i)
<1>1. Machine /\ fmt \in {"real", "flat", "split"} BY DEF Input, Machine, InFile
<1>2. segs[i].align \in Nat \ {0} /\ segs[i].size \in Nat /\ (fmt = "real" => Para % segs[i].align = 0) BY InputFacts
<1>3. loc[Lay!Space(i)] \in Spot BY SpaceIs DEF AddrType
<1>4. a \in Spot /\ Lay!Linear(loc[Lay!Space(i)]) <= Lay!Linear(a) BY <1>3, LocatedRight DEF From
<1>5. Lay!Linear(loc[Lay!Space(i)]) \in Nat /\ Lay!Linear(a) \in Nat BY <1>1, <1>3, <1>4, LinearIs
<1> HIDE DEF a
<1>6. CASE fmt = "real"
  <2> DEFINE b == IF Lay!FreshFrame(i) THEN Lay!Normal(a) ELSE a
             al == Lay!Aligned(b, i)
             at == IF Lay!FreshFrame(i) THEN Lay!Normal(al) ELSE al
  <2>1. Place(i) = [at |-> at, next |-> Lay!Grown(at, segs[i].size), low |-> al] BY <1>6 DEF Place, Lay!RealSegment, a
  <2>2. b \in Spot /\ Lay!Linear(b) = Lay!Linear(a) BY <1>1, <1>4, NormalRight
  <2> HIDE DEF b
  <2>3. al \in Spot /\ al.off % segs[i].align = 0 /\ Lay!Linear(b) <= Lay!Linear(al) BY <1>1, <1>2, <2>2, AlignedRight
  <2>4. Lay!Linear(al) % segs[i].align = 0 BY <1>1, <1>2, <1>6, <2>3, AlignedAll
  <2> HIDE DEF al
  <2>5. at \in Spot /\ Lay!Linear(at) = Lay!Linear(al) BY <1>1, <2>3, NormalRight
  <2> HIDE DEF at
  <2>6. Lay!Grown(at, segs[i].size) \in Spot /\ Lay!Linear(Lay!Grown(at, segs[i].size)) = Lay!Linear(at) + segs[i].size
    BY <1>1, <1>2, <2>5, GrownRight
  <2>7. Place(i).at = at /\ Place(i).next = Lay!Grown(at, segs[i].size) BY <2>1
  <2>8. Lay!Linear(al) \in Nat BY <1>1, <2>3, LinearIs
  <2> QED BY <1>4, <1>5, <1>6, <2>2, <2>3, <2>4, <2>5, <2>6, <2>7, <2>8
<1>7. CASE fmt \in {"flat", "split"}
  <2> DEFINE at == Lay!Aligned(a, i)
  <2>1. Place(i) = [at |-> at, next |-> Lay!Grown(at, segs[i].size), low |-> at] BY <1>7 DEF Place, Lay!FlatSegment, a
  <2>2. at \in Spot /\ at.off % segs[i].align = 0 /\ Lay!Linear(a) <= Lay!Linear(at) BY <1>1, <1>2, <1>4, AlignedRight
  <2> HIDE DEF at
  <2>3. Lay!Grown(at, segs[i].size) \in Spot /\ Lay!Linear(Lay!Grown(at, segs[i].size)) = Lay!Linear(at) + segs[i].size
    BY <1>1, <1>2, <2>2, GrownRight
  <2>4. Place(i).at = at /\ Place(i).next = Lay!Grown(at, segs[i].size) BY <2>1
  <2>5. Lay!Linear(at) \in Nat BY <1>1, <2>2, LinearIs
  <2> QED BY <1>4, <1>5, <1>7, <2>2, <2>3, <2>4, <2>5
<1> QED BY <1>1, <1>6, <1>7

\* In a group of its own the same holds of its total.
LEMMA FilePlace ==
  ASSUME Input, Sorted, FileInv, InFile, NEW i \in Lay!All
  PROVE  /\ Place(i).at \in Spot /\ Place(i).next \in Spot
         /\ Place(i).at.seg = group[i] /\ total[group[i]] <= Place(i).at.off /\ Place(i).at.off % segs[i].align = 0
         /\ Place(i).next.off = Place(i).at.off + segs[i].size
<1>1. Machine /\ fmt \notin {"real", "flat", "split"} BY DEF Input, Machine, InFile
<1>2. segs[i].align \in Nat \ {0} /\ segs[i].size \in Nat BY InputFacts
<1>3. group[i] \in Nat /\ group[i] \in Lay!Range(group) BY DEF Sorted, Lay!Range
<1>4. total[group[i]] \in Nat BY <1>3 DEF FileInv
<1> DEFINE a == [seg |-> group[i], off |-> total[group[i]]]
           at == Lay!Aligned(a, i)
<1>5. Place(i) = [at |-> at, next |-> Lay!Grown(at, segs[i].size), low |-> at] BY <1>1 DEF Place, Lay!GroupSegment
<1>6. a \in Spot /\ a.seg = group[i] /\ a.off = total[group[i]] BY <1>3, <1>4 DEF Spot
<1> HIDE DEF a
<1>7. at \in Spot /\ at.seg = group[i] /\ at.off % segs[i].align = 0 /\ at.off = Lay!AlignUp(total[group[i]], segs[i].align)
  BY <1>1, <1>2, <1>6, AlignedRight
<1>8. total[group[i]] <= at.off BY <1>2, <1>4, <1>7, AlignUpRight
<1> HIDE DEF at
<1>9. Lay!Grown(at, segs[i].size) \in Spot /\ Lay!Grown(at, segs[i].size).off = at.off + segs[i].size
  BY <1>1, <1>2, <1>7, GrownRight
<1>10. Place(i).at = at /\ Place(i).next = Lay!Grown(at, segs[i].size) BY <1>5
<1> QED BY <1>7, <1>8, <1>9, <1>10

\* AllocSeg: the next segment gets its place, the others keep theirs.
LEMMA AllocFacts ==
  ASSUME Input, AddrType, Lay!AllocSeg
  PROVE  \E i \in Lay!Placed :
         /\ i \notin DOMAIN addr /\ (\A j \in DOMAIN addr : j < i) /\ (\A j \in Lay!Placed : j < i => j \in DOMAIN addr)
         /\ DOMAIN addr' = DOMAIN addr \cup {i} /\ addr'[i] = Place(i).at /\ (\A j \in DOMAIN addr : addr'[j] = addr[j])
         /\ DOMAIN loc' = DOMAIN loc /\ loc'[Lay!Space(i)] = Place(i).next /\ (\A s \in DOMAIN loc \ {Lay!Space(i)} : loc'[s] = loc[s])
         /\ total' = IF InFile /\ (segs[i].size # 0 \/ ~Lay!Auto(group[i])) THEN [total EXCEPT ![group[i]] = Place(i).next.off] ELSE total
<1> DEFINE R == Lay!Placed \ DOMAIN addr
           i == Lay!Min(R)
<1>1. R \in SUBSET Nat /\ R # {} BY InputFacts DEF Lay!AllocSeg
<1>2. PICK n \in R : \A m \in R : n <= m
  <2> HIDE DEF R
  <2> QED BY <1>1, Least
<1>3. i \in R /\ \A m \in R : i <= m BY <1>2 DEF Lay!Min
<1> HIDE DEF R
<1>4. i \in Lay!Placed /\ i \notin DOMAIN addr /\ i \in Nat BY <1>1, <1>3 DEF R
<1>5. \A j \in Lay!Placed : j < i => j \in DOMAIN addr
  <2> SUFFICES ASSUME NEW j \in Lay!Placed, j < i, j \notin DOMAIN addr PROVE FALSE
    OBVIOUS
  <2>1. j \in R BY DEF R
  <2>2. j \in Nat /\ i <= j BY <1>1, <1>3, <2>1
  <2> QED BY <1>4, <2>2
<1>6. \A j \in DOMAIN addr : j < i
  <2> SUFFICES ASSUME NEW j \in DOMAIN addr, ~(j < i) PROVE FALSE
    OBVIOUS
  <2>1. j \in Nat BY InputFacts DEF AddrType
  <2>2. i < j BY <1>4, <2>1
  <2> QED BY <1>4, <2>2 DEF AddrType
<1>7. addr' = [j \in DOMAIN addr \cup {i} |-> IF j = i THEN Place(i).at ELSE addr[j]] BY DEF Lay!AllocSeg, Place, From, R
<1>8. loc' = [loc EXCEPT ![Lay!Space(i)] = Place(i).next] BY DEF Lay!AllocSeg, Place, From, R
<1>9. total' = IF InFile /\ (segs[i].size # 0 \/ ~Lay!Auto(group[i])) THEN [total EXCEPT ![group[i]] = Place(i).next.off] ELSE total
  BY DEF Lay!AllocSeg, Place, From, R, InFile
<1>10. Lay!Space(i) \in DOMAIN loc BY SpaceIs DEF AddrType
<1> HIDE DEF i
<1>11. DOMAIN addr' = DOMAIN addr \cup {i} /\ addr'[i] = Place(i).at /\ \A j \in DOMAIN addr : addr'[j] = addr[j] BY <1>4, <1>7
<1>12. DOMAIN loc' = DOMAIN loc /\ loc'[Lay!Space(i)] = Place(i).next /\ \A s \in DOMAIN loc \ {Lay!Space(i)} : loc'[s] = loc[s]
  BY <1>8, <1>10
<1> QED BY <1>4, <1>5, <1>6, <1>9, <1>11, <1>12

\* AllocSeg takes no room that is taken.
LEMMA StepAlloc ==
  ASSUME Input, AllocInv, Lay!AllocSeg PROVE AllocInv'
<1>1. Sorted /\ AddrType /\ MemInv /\ FileInv BY DEF AllocInv
<1>2. /\ group' = group /\ groups' = groups /\ dataGroups' = dataGroups /\ segs' = segs /\ fmt' = fmt
      /\ Lay!All' = Lay!All /\ Lay!Placed' = Lay!Placed /\ InFile' = InFile
      /\ \A g : Lay!Leaders(g)' = Lay!Leaders(g)
  BY DEF Lay!AllocSeg, Lay!input, Lay!All, Lay!Placed, Lay!Leaders, InFile
<1>3. \A j : Lay!Space(j)' = Lay!Space(j) BY <1>2 DEF Lay!Space
<1>4. Sorted' BY <1>1, <1>2 DEF Sorted
<1>5. PICK i \in Lay!Placed :
         /\ i \notin DOMAIN addr /\ (\A j \in DOMAIN addr : j < i) /\ (\A j \in Lay!Placed : j < i => j \in DOMAIN addr)
         /\ DOMAIN addr' = DOMAIN addr \cup {i} /\ addr'[i] = Place(i).at /\ (\A j \in DOMAIN addr : addr'[j] = addr[j])
         /\ DOMAIN loc' = DOMAIN loc /\ loc'[Lay!Space(i)] = Place(i).next /\ (\A s \in DOMAIN loc \ {Lay!Space(i)} : loc'[s] = loc[s])
         /\ total' = IF InFile /\ (segs[i].size # 0 \/ ~Lay!Auto(group[i])) THEN [total EXCEPT ![group[i]] = Place(i).next.off] ELSE total
  BY <1>1, AllocFacts
<1>6. i \in Lay!All /\ Lay!Placed \subseteq Lay!All /\ \A j \in Lay!All : j \in Nat /\ segs[j].size \in Nat BY InputFacts
<1>7. Place(i).at \in Spot /\ Place(i).next \in Spot
  <2>1. CASE InFile BY <1>1, <1>6, <2>1, FilePlace
  <2>2. CASE ~InFile BY <1>1, <1>6, <2>2, MemPlace
  <2> QED BY <2>1, <2>2
<1>8. AddrType'
  <2>1. DOMAIN addr' \subseteq Lay!Placed BY <1>1, <1>5 DEF AddrType
  <2>2. \A j \in DOMAIN addr' : addr'[j] \in Spot BY <1>1, <1>5, <1>7 DEF AddrType
  <2>3. \A s \in {"code", "data"} : s \in DOMAIN loc' /\ loc'[s] \in Spot
    <3> SUFFICES ASSUME NEW s \in {"code", "data"} PROVE s \in DOMAIN loc' /\ loc'[s] \in Spot
      OBVIOUS
    <3>1. s \in DOMAIN loc /\ loc[s] \in Spot BY <1>1 DEF AddrType
    <3> QED BY <1>5, <1>7, <3>1
  <2>4. \A j \in DOMAIN addr', k \in Lay!Placed : k < j => k \in DOMAIN addr' BY <1>1, <1>5 DEF AddrType
  <2> QED BY <1>2, <2>1, <2>2, <2>3, <2>4 DEF AddrType
<1>9. MemInv'
  <2> SUFFICES ASSUME ~InFile, NEW j \in DOMAIN addr'
      PROVE  /\ Lay!Linear(addr'[j]) + segs[j].size <= Lay!Linear(loc'[Lay!Space(j)])
             /\ (IF fmt = "real" THEN Lay!Linear(addr'[j]) ELSE addr'[j].off) % segs[j].align = 0
             /\ \A k \in DOMAIN addr' : j < k /\ Lay!Space(j) = Lay!Space(k) => Lay!Linear(addr'[j]) + segs[j].size <= Lay!Linear(addr'[k])
    BY <1>2, <1>3 DEF MemInv, Lay!Linear
  <2>1. /\ Lay!Linear(loc[Lay!Space(i)]) <= Lay!Linear(Place(i).at) /\ Lay!Linear(Place(i).next) = Lay!Linear(Place(i).at) + segs[i].size
        /\ (IF fmt = "real" THEN Lay!Linear(Place(i).at) ELSE Place(i).at.off) % segs[i].align = 0
    BY <1>1, <1>6, MemPlace
  <2>2. \A t \in {"code", "data"} : t \in DOMAIN loc /\ Lay!Linear(loc[t]) \in Nat BY <1>1, LinearIs DEF AddrType, Input
  <2>3. Lay!Linear(Place(i).at) \in Nat BY <1>7, LinearIs DEF Input
  <2>4. \A k \in DOMAIN addr : Lay!Linear(addr[k]) \in Nat BY <1>1, LinearIs DEF AddrType, Input
  <2>5. \A k \in DOMAIN addr : k < i /\ Lay!Linear(addr[k]) + segs[k].size <= Lay!Linear(loc[Lay!Space(k)]) BY <1>1, <1>5 DEF MemInv
  <2>6. \A k : Lay!Space(k) \in {"code", "data"} BY SpaceIs
  <2>7. Lay!Linear(loc[Lay!Space(i)]) \in Nat /\ Lay!Linear(Place(i).next) \in Nat /\ Lay!Linear(loc[Lay!Space(i)]) <= Lay!Linear(loc'[Lay!Space(i)])
    BY <1>5, <1>6, <2>1, <2>2, <2>3, <2>6
  <2>8. CASE j = i
    <3>1. \A k \in DOMAIN addr' : ~(i < k) BY <1>1, <1>5, <1>6 DEF AddrType
    <3>2. Lay!Linear(addr'[i]) + segs[i].size <= Lay!Linear(loc'[Lay!Space(i)]) BY <1>5, <1>6, <2>1, <2>3
    <3> QED BY <1>5, <2>1, <2>8, <3>1, <3>2
  <2>9. CASE j \in DOMAIN addr
    <3>1. addr'[j] = addr[j] /\ j \in Lay!All BY <1>1, <1>5, <1>6, <2>9 DEF AddrType
    <3>2. Lay!Linear(addr[j]) + segs[j].size <= Lay!Linear(loc[Lay!Space(j)]) /\ Lay!Linear(addr[j]) \in Nat /\ segs[j].size \in Nat
      BY <1>6, <2>4, <2>5, <2>9, <3>1
    <3>3. Lay!Linear(loc[Lay!Space(j)]) <= Lay!Linear(loc'[Lay!Space(j)])
      <4>1. Lay!Space(j) \in DOMAIN loc /\ Lay!Linear(loc[Lay!Space(j)]) \in Nat BY <2>2, <2>6
      <4>2. Lay!Space(j) # Lay!Space(i) => loc'[Lay!Space(j)] = loc[Lay!Space(j)] BY <1>5, <4>1
      <4> QED BY <2>7, <4>1, <4>2
    <3>4. Lay!Linear(loc[Lay!Space(j)]) \in Nat /\ Lay!Linear(loc'[Lay!Space(j)]) \in Nat
      BY <1>5, <2>2, <2>6, <2>7
    <3>5. \A k \in DOMAIN addr : j < k /\ Lay!Space(j) = Lay!Space(k) => Lay!Linear(addr[j]) + segs[j].size <= Lay!Linear(addr[k])
      BY <1>1, <2>9 DEF MemInv
    <3>6. Lay!Space(j) = Lay!Space(i) => Lay!Linear(addr[j]) + segs[j].size <= Lay!Linear(addr'[i])
      BY <1>5, <2>1, <2>3, <2>7, <3>2
    <3>7. \A k \in DOMAIN addr' : j < k /\ Lay!Space(j) = Lay!Space(k) => Lay!Linear(addr'[j]) + segs[j].size <= Lay!Linear(addr'[k])
      BY <1>5, <3>1, <3>5, <3>6
    <3>8. (IF fmt = "real" THEN Lay!Linear(addr[j]) ELSE addr[j].off) % segs[j].align = 0 BY <1>1, <2>9 DEF MemInv
    <3>9. Lay!Linear(addr[j]) + segs[j].size <= Lay!Linear(loc'[Lay!Space(j)]) BY <3>2, <3>3, <3>4
    <3> QED BY <3>1, <3>7, <3>8, <3>9
  <2> QED BY <1>5, <2>8, <2>9
<1>10. FileInv'
  <2> SUFFICES ASSUME InFile
      PROVE  /\ total' \in [Lay!Range(group) -> Nat]
             /\ \A j \in DOMAIN addr' :
                  /\ addr'[j].seg = group[j] /\ addr'[j].off % segs[j].align = 0
                  /\ segs[j].size # 0 => addr'[j].off + segs[j].size <= total'[group[j]]
                  /\ \A k \in DOMAIN addr' : j < k /\ group[j] = group[k] /\ segs[j].size # 0 =>
                        addr'[j].off + segs[j].size <= addr'[k].off
    BY <1>2 DEF FileInv, Lay!Range
  <2>1. /\ Place(i).at.seg = group[i] /\ total[group[i]] <= Place(i).at.off /\ Place(i).at.off % segs[i].align = 0
        /\ Place(i).next.off = Place(i).at.off + segs[i].size
    BY <1>1, <1>6, FilePlace
  <2>2. \A k \in Lay!All : group[k] \in Lay!Range(group) BY <1>1 DEF Sorted, Lay!Range
  <2>3. total \in [Lay!Range(group) -> Nat] BY <1>1 DEF FileInv
  <2>4. Place(i).at.off \in Nat /\ Place(i).next.off \in Nat BY <1>7 DEF Spot
  <2>5. total' \in [Lay!Range(group) -> Nat] /\ (\A g \in Lay!Range(group) \ {group[i]} : total'[g] = total[g])
        /\ (segs[i].size # 0 => total'[group[i]] = Place(i).next.off) /\ total[group[i]] <= total'[group[i]]
    <3>1. CASE segs[i].size # 0 \/ ~Lay!Auto(group[i])
      <4>1. total' = [total EXCEPT ![group[i]] = Place(i).next.off] BY <1>5, <3>1
      <4>2. group[i] \in Lay!Range(group) /\ total[group[i]] \in Nat BY <1>6, <2>2, <2>3
      <4>3. total[group[i]] <= Place(i).next.off BY <1>6, <2>1, <2>4, <4>2
      <4> QED BY <2>3, <2>4, <4>1, <4>2, <4>3
    <3>2. CASE ~(segs[i].size # 0 \/ ~Lay!Auto(group[i]))
      <4>1. total' = total /\ total[group[i]] \in Nat BY <1>5, <1>6, <2>2, <2>3, <3>2
      <4> QED BY <2>3, <3>2, <4>1
    <3> QED BY <3>1, <3>2
  <2>6. ASSUME NEW j \in DOMAIN addr'
        PROVE  /\ addr'[j].seg = group[j] /\ addr'[j].off % segs[j].align = 0
               /\ segs[j].size # 0 => addr'[j].off + segs[j].size <= total'[group[j]]
               /\ \A k \in DOMAIN addr' : j < k /\ group[j] = group[k] /\ segs[j].size # 0 =>
                     addr'[j].off + segs[j].size <= addr'[k].off
    <3>1. CASE j = i
      <4>1. \A k \in DOMAIN addr' : ~(i < k) BY <1>1, <1>5, <1>6 DEF AddrType
      <4>2. segs[i].size # 0 => addr'[i].off + segs[i].size <= total'[group[i]]
        BY <1>5, <1>6, <2>1, <2>4, <2>5
      <4> QED BY <1>5, <2>1, <3>1, <4>1, <4>2
    <3>2. CASE j \in DOMAIN addr
      <4>1. addr'[j] = addr[j] /\ j \in Lay!All /\ addr[j] \in Spot BY <1>1, <1>5, <1>6, <3>2 DEF AddrType
      <4>2. addr[j].off \in Nat /\ segs[j].size \in Nat BY <1>6, <4>1 DEF Spot
      <4>3. /\ addr[j].seg = group[j] /\ addr[j].off % segs[j].align = 0
            /\ segs[j].size # 0 => addr[j].off + segs[j].size <= total[group[j]]
            /\ \A k \in DOMAIN addr : j < k /\ group[j] = group[k] /\ segs[j].size # 0 => addr[j].off + segs[j].size <= addr[k].off
        BY <1>1, <3>2 DEF FileInv
      <4>4. total[group[j]] \in Nat /\ total'[group[j]] \in Nat /\ total[group[j]] <= total'[group[j]]
        BY <2>2, <2>3, <2>5, <4>1
      <4>5. segs[j].size # 0 => addr[j].off + segs[j].size <= total'[group[j]] BY <4>2, <4>3, <4>4
      <4>6. group[j] = group[i] /\ segs[j].size # 0 => addr[j].off + segs[j].size <= addr'[i].off
        BY <1>5, <2>1, <2>4, <4>2, <4>3, <4>4
      <4>7. \A k \in DOMAIN addr' : j < k /\ group[j] = group[k] /\ segs[j].size # 0 => addr'[j].off + segs[j].size <= addr'[k].off
        BY <1>5, <4>1, <4>3, <4>6
      <4> QED BY <4>1, <4>3, <4>5, <4>7
    <3> QED BY <1>5, <3>1, <3>2
  <2> QED BY <2>5, <2>6
<1> QED BY <1>4, <1>8, <1>9, <1>10 DEF AllocInv
-----------------------------------------------------------------------------
(* The groups in the end                                                    *)

\* The place of the group of i in the list, and addresses after SetLeaderSeg.
K(i) == CHOOSE k \in DOMAIN groups : groups[k] = group[i]
NewAddr == [i \in DOMAIN addr |-> IF InFile THEN [addr[i] EXCEPT !.seg = Lay!Group(K(i)).seg] ELSE addr[i]]

\* Each segment is a leader of exactly one group of the list.
LEMMA KIs ==
  ASSUME Sorted PROVE /\ \A i \in Lay!Placed : K(i) \in DOMAIN groups /\ groups[K(i)] = group[i]
                      /\ \A k \in DOMAIN groups : \A i \in Lay!Leaders(groups[k]) : i \in Lay!Placed /\ K(i) = k /\ group[i] = groups[k]
<1>1. \A i \in Lay!Placed : \E k \in DOMAIN groups : groups[k] = group[i] BY DEF Sorted
<1>2. \A i \in Lay!Placed : K(i) \in DOMAIN groups /\ groups[K(i)] = group[i] BY <1>1 DEF K
<1> QED BY <1>2 DEF Sorted, Lay!Leaders

\* A group that is not empty has its place among those.
LEMMA RenumberedIs ==
  ASSUME Sorted, NEW k \in DOMAIN groups
  PROVE  /\ Lay!Renumbered(k) \in Nat
         /\ total[groups[k]] # 0 => Lay!Renumbered(k) = Cardinality({j \in 1 .. k : total[groups[j]] # 0})
<1> DEFINE S == {j \in 1 .. k - 1 : total[groups[j]] # 0}
           T == {j \in 1 .. k : total[groups[j]] # 0}
<1>1. k \in Nat \ {0} BY DEF Sorted
<1>2. IsFiniteSet(1 .. k - 1) BY <1>1, FS_Interval
<1>3. IsFiniteSet(S) /\ Cardinality(S) \in Nat
  <2>1. S \in SUBSET (1 .. k - 1) OBVIOUS
  <2> HIDE DEF S
  <2> QED BY <1>2, <2>1, FS_Subset, FS_CardinalityType
<1>4. Lay!Renumbered(k) = 1 + Cardinality(S) BY CardSame DEF Lay!Renumbered
<1>5. total[groups[k]] # 0 => T = S \cup {k} BY <1>1
<1>6. k \notin S BY <1>1
<1>7. Cardinality(S \cup {k}) = Cardinality(S) + 1
  <2> HIDE DEF S
  <2> QED BY <1>3, <1>6, FS_AddElement
<1> HIDE DEF S
<1> QED BY <1>3, <1>4, <1>5, <1>7

\* CalcGrpAddr: the group begins at its lowest segment and reaches to the highest end.
LEMMA MemGroup ==
  ASSUME Input, AllocInv, Lay!Placed = DOMAIN addr, ~InFile, NEW k \in DOMAIN groups
  PROVE  \E start \in Nat :
         /\ Lay!Group(k).seg * Para + Lay!Group(k).off = start /\ Lay!Group(k).total \in Nat
         /\ \A i \in Lay!Leaders(groups[k]) : start <= Lay!Linear(addr[i]) /\ Lay!Linear(addr[i]) + segs[i].size <= start + Lay!Group(k).total
<1> DEFINE S == Lay!Leaders(groups[k])
           Starts == {Lay!Linear(addr[i]) : i \in S}
           Ends == {Lay!Linear(addr[i]) + segs[i].size : i \in S}
           low == Lay!Lowest(groups[k])
<1>1. Machine /\ fmt \in {"real", "flat", "split"} BY DEF Input, Machine, InFile
<1>2. S # {} /\ S \subseteq Lay!Placed /\ S \subseteq DOMAIN addr /\ \A i \in S : group[i] = groups[k]
  BY DEF AllocInv, Sorted, Lay!Leaders
<1>3. \A i \in DOMAIN addr : addr[i] \in Spot /\ Lay!Linear(addr[i]) \in Nat BY <1>1, LinearIs DEF AllocInv, AddrType
<1>4. \A i \in S : segs[i].size \in Nat BY <1>2, InputFacts
<1>5. PICK i0 : i0 \in S BY <1>2
<1>6. PICK t \in {"code", "data"} : \A i \in S : Lay!Space(i) = t
  <2>1. \A i \in S : Lay!Space(i) = Lay!Space(i0) BY <1>2, <1>5 DEF Lay!Space
  <2> QED BY <2>1, SpaceIs
<1>7. PICK top \in Nat : top = Lay!Linear(loc[t]) BY <1>1, LinearIs DEF AllocInv, AddrType
<1>8. \A i \in S : Lay!Linear(addr[i]) + segs[i].size <= top BY <1>2, <1>6, <1>7 DEF AllocInv, MemInv
<1>9. Starts \in SUBSET Nat /\ Starts # {} /\ Ends \in SUBSET Nat /\ Ends # {} /\ \A x \in Ends : x <= top
  <2>1. \A i \in S : Lay!Linear(addr[i]) \in Nat /\ Lay!Linear(addr[i]) + segs[i].size \in Nat BY <1>2, <1>3, <1>4
  <2> HIDE DEF S
  <2>2. Lay!Linear(addr[i0]) \in Starts /\ Lay!Linear(addr[i0]) + segs[i0].size \in Ends BY <1>5
  <2>3. \A x \in Starts : x \in Nat BY <2>1
  <2>4. \A x \in Ends : x \in Nat /\ x <= top BY <1>8, <2>1
  <2> HIDE DEF Starts, Ends
  <2> QED BY <2>2, <2>3, <2>4
<1>10. low \in S /\ \A i \in S : Lay!Linear(addr[low]) <= Lay!Linear(addr[i])
  <2>1. PICK m \in Starts : \A x \in Starts : m <= x
    <3> HIDE DEF Starts
    <3> QED BY <1>9, Least
  <2>2. PICK i \in S : m = Lay!Linear(addr[i]) BY <2>1
  <2>3. \A j \in S : Lay!Linear(addr[i]) <= Lay!Linear(addr[j]) BY <2>1, <2>2
  <2> QED BY <2>3 DEF Lay!Lowest
<1>11. Lay!EndAddr(groups[k]) = Lay!Max(Ends) BY DEF Lay!EndAddr
<1>12. Lay!Max(Ends) \in Nat /\ \A x \in Ends : x <= Lay!Max(Ends)
  <2> HIDE DEF Ends
  <2>1. PICK m \in Ends : \A x \in Ends : x <= m BY <1>7, <1>9, Greatest
  <2>2. \A x \in Ends : m >= x BY <1>9, <2>1
  <2>3. Lay!Max(Ends) \in Ends /\ \A x \in Ends : Lay!Max(Ends) >= x BY <2>2 DEF Lay!Max
  <2> QED BY <1>9, <2>3
<1>13. PICK s \in Nat, e \in Nat : s = Lay!Linear(addr[low]) /\ e = Lay!Max(Ends) BY <1>2, <1>3, <1>10, <1>12
<1>14. \A i \in S : Lay!Linear(addr[i]) + segs[i].size \in Ends OBVIOUS
<1>15. \A i \in S : s <= Lay!Linear(addr[i]) /\ Lay!Linear(addr[i]) + segs[i].size <= e BY <1>10, <1>12, <1>13, <1>14
<1>16. Lay!Group(k) = [seg |-> addr[low].seg, off |-> addr[low].off, total |-> e - s, linear |-> s]
  BY <1>1, <1>11, <1>13 DEF Lay!Group, Lay!CalcGrpAddr
<1>17. Lay!Group(k).seg * Para + Lay!Group(k).off = s BY <1>13, <1>16 DEF Lay!Linear
<1>18. s <= e /\ e - s \in Nat
  <2>1. s <= Lay!Linear(addr[i0]) /\ Lay!Linear(addr[i0]) + segs[i0].size <= e BY <1>5, <1>15
  <2>2. Lay!Linear(addr[i0]) \in Nat /\ segs[i0].size \in Nat BY <1>2, <1>3, <1>4, <1>5
  <2>3. s <= e BY <2>1, <2>2
  <2> QED BY <2>3
<1>19. Lay!Group(k).total = e - s BY <1>16
<1> HIDE DEF S, low, Ends, Starts
<1>20. s + Lay!Group(k).total = e BY <1>18, <1>19
<1> QED BY <1>15, <1>17, <1>18, <1>19, <1>20 DEF S

\* Where segments are in their groups.
LEMMA Offsets ==
  ASSUME Input, AllocInv, Lay!Placed = DOMAIN addr, NEW k \in DOMAIN groups
  PROVE  /\ Lay!Group(k).total \in Nat
         /\ \A i \in Lay!Leaders(groups[k]) :
              /\ Lay!Delta(i, NewAddr, Lay!Group(k)) \in Nat
              /\ segs[i].size # 0 => Lay!Delta(i, NewAddr, Lay!Group(k)) + segs[i].size <= Lay!Group(k).total
              /\ \A j \in Lay!Leaders(groups[k]) : i < j /\ segs[i].size # 0 =>
                    Lay!Delta(i, NewAddr, Lay!Group(k)) + segs[i].size <= Lay!Delta(j, NewAddr, Lay!Group(k))
<1>1. Machine BY DEF Input
<1>2. \A i \in DOMAIN addr : addr[i] \in Spot /\ Lay!Linear(addr[i]) \in Nat BY <1>1, LinearIs DEF AllocInv, AddrType
<1>3. Sorted BY DEF AllocInv
<1>4. \A i \in Lay!Leaders(groups[k]) : i \in DOMAIN addr /\ segs[i].size \in Nat /\ K(i) = k /\ group[i] = groups[k]
  BY <1>3, KIs, InputFacts
<1>5. CASE ~InFile
  <2>1. PICK start \in Nat :
         /\ Lay!Group(k).seg * Para + Lay!Group(k).off = start /\ Lay!Group(k).total \in Nat
         /\ \A i \in Lay!Leaders(groups[k]) : start <= Lay!Linear(addr[i]) /\ Lay!Linear(addr[i]) + segs[i].size <= start + Lay!Group(k).total
    BY <1>5, MemGroup
  <2>2. \A i \in Lay!Leaders(groups[k]) : Lay!Delta(i, NewAddr, Lay!Group(k)) = Lay!Linear(addr[i]) - start
    BY <1>4, <1>5, <2>1 DEF Lay!Delta, NewAddr
  <2>3. \A i, j \in Lay!Leaders(groups[k]) : i < j => Lay!Linear(addr[i]) + segs[i].size <= Lay!Linear(addr[j])
    <3> SUFFICES ASSUME NEW i \in Lay!Leaders(groups[k]), NEW j \in Lay!Leaders(groups[k]), i < j
                 PROVE  Lay!Linear(addr[i]) + segs[i].size <= Lay!Linear(addr[j])
      OBVIOUS
    <3>1. Lay!Space(i) = Lay!Space(j) /\ i \in DOMAIN addr /\ j \in DOMAIN addr BY <1>4 DEF Lay!Space
    <3> QED BY <1>5, <3>1 DEF AllocInv, MemInv
  <2> QED
    <3> SUFFICES ASSUME NEW i \in Lay!Leaders(groups[k])
        PROVE  /\ Lay!Delta(i, NewAddr, Lay!Group(k)) \in Nat
               /\ segs[i].size # 0 => Lay!Delta(i, NewAddr, Lay!Group(k)) + segs[i].size <= Lay!Group(k).total
               /\ \A j \in Lay!Leaders(groups[k]) : i < j /\ segs[i].size # 0 =>
                    Lay!Delta(i, NewAddr, Lay!Group(k)) + segs[i].size <= Lay!Delta(j, NewAddr, Lay!Group(k))
      BY <2>1
    <3>1. PICK x \in Nat, n \in Nat, t \in Nat : x = Lay!Linear(addr[i]) /\ n = segs[i].size /\ t = Lay!Group(k).total BY <1>2, <1>4, <2>1
    <3>2. start <= x /\ x + n <= start + t BY <2>1, <3>1
    <3>3. Lay!Delta(i, NewAddr, Lay!Group(k)) = x - start BY <2>2, <3>1
    <3>4. ASSUME NEW j \in Lay!Leaders(groups[k]), i < j PROVE (x - start) + n <= Lay!Delta(j, NewAddr, Lay!Group(k))
      <4>1. PICK y \in Nat : y = Lay!Linear(addr[j]) BY <1>2, <1>4
      <4>2. x + n <= y /\ Lay!Delta(j, NewAddr, Lay!Group(k)) = y - start BY <2>2, <2>3, <3>1, <3>4, <4>1
      <4> QED BY <4>2
    <3> QED BY <3>1, <3>2, <3>3, <3>4
<1>6. CASE InFile
  <2>1. Lay!Group(k).seg = Lay!Renumbered(k) /\ Lay!Group(k).off = 0 /\ Lay!Group(k).total = total[groups[k]] BY <1>6 DEF Lay!Group, InFile
  <2>2. PICK r \in Nat : r = Lay!Renumbered(k) * Para
    <3>1. Lay!Renumbered(k) \in Nat BY <1>3, RenumberedIs
    <3>2. Para \in Nat BY <1>1 DEF Machine
    <3>3. Lay!Renumbered(k) * Para \in Nat BY <3>1, <3>2
    <3> QED BY <3>3
  <2>3. \A i \in Lay!Leaders(groups[k]) : addr[i].off \in Nat /\ Lay!Delta(i, NewAddr, Lay!Group(k)) = addr[i].off
    <3> SUFFICES ASSUME NEW i \in Lay!Leaders(groups[k]) PROVE addr[i].off \in Nat /\ Lay!Delta(i, NewAddr, Lay!Group(k)) = addr[i].off
      OBVIOUS
    <3>1. addr[i] \in Spot BY <1>2, <1>4
    <3>2. PICK o \in Nat : addr[i].off = o BY <3>1 DEF Spot
    <3>3. NewAddr[i] = [addr[i] EXCEPT !.seg = Lay!Group(k).seg] BY <1>4, <1>6 DEF NewAddr
    <3>4. NewAddr[i].seg = Lay!Renumbered(k) /\ NewAddr[i].off = o BY <2>1, <3>1, <3>2, <3>3 DEF Spot
    <3>5. Lay!Linear(NewAddr[i]) = r + o BY <2>2, <3>4 DEF Lay!Linear
    <3>6. Lay!Delta(i, NewAddr, Lay!Group(k)) = (r + o) - (r + 0) BY <2>1, <2>2, <3>5 DEF Lay!Delta
    <3> QED BY <3>2, <3>6
  <2>4. groups[k] \in Lay!Range(groups) /\ groups[k] \in Lay!Range(group) BY <1>3 DEF Sorted, Lay!Range
  <2>5. total[groups[k]] \in Nat BY <1>6, <2>4 DEF AllocInv, FileInv
  <2>6. ASSUME NEW i \in Lay!Leaders(groups[k]), segs[i].size # 0
        PROVE  /\ addr[i].off + segs[i].size <= total[groups[k]]
               /\ \A j \in Lay!Leaders(groups[k]) : i < j => addr[i].off + segs[i].size <= addr[j].off
    BY <1>4, <1>6, <2>6 DEF AllocInv, FileInv
  <2> QED BY <2>1, <2>3, <2>5, <2>6
<1> QED BY <1>5, <1>6

\* The ends of the groups, one after the other.
EndsOf(e) ==
  /\ e[1] = ObjAlign /\ \A k \in 1 .. Len(groups) + 1 : e[k] \in Nat
  /\ \A k \in 1 .. Len(groups) : e[k] + total[groups[k]] <= e[k + 1]

\* A sequence with one element more.
LEMMA LongerIs ==
  ASSUME NEW s \in Seq(Nat), NEW x \in Nat
  PROVE  /\ Append(s, x) \in Seq(Nat) /\ Len(Append(s, x)) = Len(s) + 1 /\ Append(s, x)[Len(s) + 1] = x
         /\ \A i \in 1 .. Len(s) : Append(s, x)[i] = s[i]
OBVIOUS

\* The fold over the groups of a PE file gives each its start and the next one its end.
LEMMA FlatFold ==
  ASSUME Input, Sorted, \A k \in DOMAIN groups : total[groups[k]] \in Nat PROVE EndsOf(Lay!FlatEnds)
<1>1. PICK n \in Nat : n = Len(groups) /\ DOMAIN groups = 1 .. n BY DEF Sorted
<1>2. \A k \in 1 .. n : total[groups[k]] \in Nat BY <1>1
<1>3. ObjAlign \in Nat \ {0} BY DEF Input, Machine
<1> DEFINE T == {s \in Seq(Nat) : Len(s) # 0}
           base == <<ObjAlign>>
           Next1(s, k) == Append(s, Lay!AlignUp(Lay!Last(s) + total[groups[k]], ObjAlign))
           op == [x \in (1 .. n) \X T |-> Next1(x[2], x[1])]
           Is(g) == g = [q \in SUBSET DOMAIN groups |-> IF q = {} THEN base ELSE Next1(g[q \ {Top(q)}], Top(q))]
           iter == CHOOSE g : Is(g)
<1>4. base \in T BY <1>3
<1>5. ASSUME NEW s \in T, NEW k \in 1 .. n
      PROVE  \E x \in Nat : Next1(s, k) = Append(s, x) /\ s[Len(s)] \in Nat /\ s[Len(s)] + total[groups[k]] <= x
  <2>1. PICK z \in Nat : z = Lay!Last(s) /\ z = s[Len(s)] BY DEF Lay!Last
  <2>2. PICK t \in Nat : t = total[groups[k]] BY <1>2
  <2>3. Lay!AlignUp(z + t, ObjAlign) \in Nat /\ z + t <= Lay!AlignUp(z + t, ObjAlign)
    <3>1. PICK m \in Nat : m = z + t OBVIOUS
    <3> QED BY <1>3, <3>1, AlignUpRight
  <2> QED BY <2>1, <2>2, <2>3
<1>6. \A s \in T, k \in 1 .. n : Next1(s, k) \in T
  <2> SUFFICES ASSUME NEW s \in T, NEW k \in 1 .. n PROVE Next1(s, k) \in T
    OBVIOUS
  <2>1. PICK x \in Nat : Next1(s, k) = Append(s, x) BY <1>5
  <2> HIDE DEF Next1
  <2> QED BY <2>1
<1> HIDE DEF T
<1>7. op \in [(1 .. n) \X T -> T]
  <2> HIDE DEF Next1
  <2> SUFFICES ASSUME NEW x \in (1 .. n) \X T PROVE Next1(x[2], x[1]) \in T
    OBVIOUS
  <2>1. x[1] \in 1 .. n /\ x[2] \in T OBVIOUS
  <2> QED BY <1>6, <2>1
<1>8. PICK h \in [SUBSET (1 .. n) -> T] : Folded(h, n, base, op)
  <2> HIDE DEF op, base
  <2> QED BY <1>4, <1>7, FoldExists
<1>9. Is(h)
  <2>1. ASSUME NEW q \in SUBSET (1 .. n), q # {} PROVE op[<<Top(q), h[q \ {Top(q)}]>>] = Next1(h[q \ {Top(q)}], Top(q))
    <3>1. Top(q) \in 1 .. n BY <2>1, TopOf
    <3>2. q \ {Top(q)} \in SUBSET (1 .. n) OBVIOUS
    <3>3. h[q \ {Top(q)}] \in T BY <3>2
    <3> HIDE DEF Next1
    <3> QED BY <3>1, <3>3
  <2> HIDE DEF op, base, Next1
  <2> QED BY <1>1, <1>8, <2>1 DEF Folded
<1>10. Is(iter)
  <2> HIDE DEF Is
  <2> QED BY <1>9
<1>11. Lay!FlatEnds = iter[DOMAIN groups] BY DEF Lay!FlatEnds, Lay!FoldLeft, Lay!MapThenFoldSet, Lay!Max, Top
<1>12. PICK it : Is(it) /\ Lay!FlatEnds = it[DOMAIN groups]
  <2> HIDE DEF Is
  <2> QED BY <1>10, <1>11
<1> HIDE DEF iter, op
<1>13. it[1 .. 0] = base
  <2>1. 1 .. 0 = {} /\ {} \in SUBSET DOMAIN groups OBVIOUS
  <2> HIDE DEF base, Next1
  <2> QED BY <1>12, <2>1
<1>14. ASSUME NEW k \in 1 .. n PROVE it[1 .. k] = Next1(it[1 .. k - 1], k)
  <2>1. Top(1 .. k) = k /\ (1 .. k) \ {Top(1 .. k)} = 1 .. k - 1 /\ 1 .. k \in SUBSET (1 .. n) /\ 1 .. k # {} BY TopStep
  <2>2. it[1 .. k] = Next1(it[(1 .. k) \ {Top(1 .. k)}], Top(1 .. k))
    <3> HIDE DEF base, Next1
    <3> QED BY <1>1, <1>12, <2>1
  <2> HIDE DEF Next1
  <2> QED BY <2>1, <2>2
<1> HIDE DEF Is
\* What the first i rounds have made.
<1> DEFINE Good(s, i) == /\ s \in Seq(Nat) /\ Len(s) = i + 1 /\ s[1] = ObjAlign
                         /\ \A k \in 1 .. i : s[k] + total[groups[k]] <= s[k + 1]
           Bad == {i \in Nat : i <= n /\ ~Good(it[1 .. i], i)}
<1>15. Good(base, 0) BY <1>3
<1>16. ASSUME NEW s, NEW i \in Nat, i + 1 <= n, Good(s, i) PROVE Good(Next1(s, i + 1), i + 1)
  <2>1. s \in T /\ i + 1 \in 1 .. n BY <1>16 DEF T
  <2>2. PICK x \in Nat : Next1(s, i + 1) = Append(s, x) /\ s[Len(s)] \in Nat /\ s[Len(s)] + total[groups[i + 1]] <= x
    BY <1>5, <2>1
  <2> HIDE DEF Next1
  <2>3. PICK u : u = Append(s, x) OBVIOUS
  <2>4. u \in Seq(Nat) /\ Len(u) = Len(s) + 1 /\ u[Len(s) + 1] = x /\ \A k \in 1 .. Len(s) : u[k] = s[k]
    BY <1>16, <2>3, LongerIs
  <2>5. Len(s) = i + 1 /\ s[1] = ObjAlign /\ \A k \in 1 .. i : s[k] + total[groups[k]] <= s[k + 1] BY <1>16
  <2>6. ASSUME NEW k \in 1 .. i + 1 PROVE u[k] + total[groups[k]] <= u[k + 1]
    <3>1. CASE k = i + 1 BY <2>2, <2>4, <2>5, <3>1
    <3>2. CASE k \in 1 .. i
      <4>1. k \in 1 .. Len(s) /\ k + 1 \in 1 .. Len(s) BY <2>5, <3>2
      <4> QED BY <2>4, <2>5, <3>2, <4>1
    <3> QED BY <3>1, <3>2
  <2>7. u[1] = ObjAlign BY <2>4, <2>5
  <2> QED BY <2>2, <2>3, <2>4, <2>5, <2>6, <2>7
<1> HIDE DEF Good, Next1, base
<1>17. Bad = {}
  <2> SUFFICES ASSUME Bad # {} PROVE FALSE
    OBVIOUS
  <2>1. PICK i \in Bad : \A m \in Bad : i <= m
    <3>1. Bad \in SUBSET Nat OBVIOUS
    <3> HIDE DEF Bad
    <3> QED BY <3>1, Least
  <2>2. i # 0
    <3>1. it[1 .. 0] = base BY <1>13
    <3> QED BY <1>15, <2>1, <3>1
  <2>3. PICK j \in Nat : i = j + 1 /\ i \in 1 .. n /\ j = i - 1 BY <2>1, <2>2
  <2>4. j \notin Bad BY <2>1, <2>3
  <2>5. Good(it[1 .. j], j) BY <2>3, <2>4
  <2>6. Good(Next1(it[1 .. j], j + 1), j + 1) BY <1>16, <2>3, <2>5
  <2>7. it[1 .. i] = Next1(it[1 .. j], i) BY <1>14, <2>3
  <2> QED BY <2>1, <2>3, <2>6, <2>7
<1>18. Good(it[1 .. n], n) BY <1>17
<1>19. Good(Lay!FlatEnds, n) BY <1>1, <1>12, <1>18
<1>20. \A k \in 1 .. n + 1 : Lay!FlatEnds[k] \in Nat BY <1>19 DEF Good
<1> QED BY <1>1, <1>19, <1>20 DEF EndsOf, Good

\* A chain of numbers does not go back.
LEMMA ChainUp ==
  ASSUME Input, Sorted, \A k \in DOMAIN groups : total[groups[k]] \in Nat
  PROVE  \A j, k \in DOMAIN groups : j < k => Lay!FlatEnds[j] + total[groups[j]] <= Lay!FlatEnds[k]
<1>1. PICK n \in Nat : n = Len(groups) /\ DOMAIN groups = 1 .. n BY DEF Sorted
<1>2. PICK e : e = Lay!FlatEnds OBVIOUS
<1>3. /\ \A k \in 1 .. n : total[groups[k]] \in Nat /\ e[k] \in Nat
      /\ \A k \in 1 .. n : e[k] + total[groups[k]] <= e[k + 1]
  <2>1. EndsOf(Lay!FlatEnds) BY FlatFold
  <2>2. \A k \in 1 .. n : total[groups[k]] \in Nat /\ k \in 1 .. Len(groups) + 1 BY <1>1
  <2>3. \A k \in 1 .. n : e[k] \in Nat BY <1>2, <2>1, <2>2 DEF EndsOf
  <2>4. \A k \in 1 .. n : e[k] + total[groups[k]] <= e[k + 1] BY <1>1, <1>2, <2>1 DEF EndsOf
  <2> QED BY <2>2, <2>3, <2>4
<1> SUFFICES ASSUME NEW j \in 1 .. n PROVE \A k \in 1 .. n : j < k => e[j] + total[groups[j]] <= e[k]
  BY <1>1, <1>2
<1>4. PICK x \in Nat : x = e[j] + total[groups[j]] BY <1>3
<1> DEFINE Bad == {k \in Nat : j < k /\ k <= n /\ ~(x <= e[k])}
<1>5. Bad = {}
  <2> SUFFICES ASSUME Bad # {} PROVE FALSE
    OBVIOUS
  <2>1. PICK i \in Bad : \A m \in Bad : i <= m
    <3>1. Bad \in SUBSET Nat OBVIOUS
    <3> HIDE DEF Bad
    <3> QED BY <3>1, Least
  <2>2. PICK m \in Nat : i = m + 1 /\ m \in 1 .. n BY <2>1
  <2>3. e[m] + total[groups[m]] <= e[i] /\ e[m] \in Nat /\ e[i] \in Nat /\ total[groups[m]] \in Nat BY <1>3, <2>1, <2>2
  <2>4. CASE m = j BY <1>4, <2>1, <2>3, <2>4
  <2>5. CASE j < m
    <3>1. m \notin Bad BY <2>1, <2>2
    <3>2. x <= e[m] BY <2>2, <2>5, <3>1
    <3> QED BY <2>1, <2>3, <3>2
  <2> QED BY <2>1, <2>2, <2>4, <2>5
<1> QED BY <1>4, <1>5
-----------------------------------------------------------------------------
(* CalcAddresses, and the theorem                                           *)

\* What CalcAddresses leaves behind.
Summed(k) == [seg |-> Lay!Group(k).seg, off |-> Lay!Group(k).off, total |-> Lay!Group(k).total, linear |-> Lay!Group(k).linear,
              size |-> Lay!InitSize(groups[k], NewAddr, Lay!Group(k))]

\* What CalcAddresses computes.
LEMMA CalcFacts ==
  ASSUME Sorted, Lay!CalcAddresses
  PROVE  /\ Lay!Placed = DOMAIN addr /\ addr' = NewAddr /\ grp' = [k \in DOMAIN groups |-> Summed(k)] /\ phase' = "done"
         /\ UNCHANGED <<Lay!input, group, groups, dataGroups, pack>>
<1> DEFINE gs == [k \in DOMAIN groups |-> Lay!Group(k)]
           a == [i \in DOMAIN addr |->
                   IF fmt \in {"os2", "pe"}
                   THEN [addr[i] EXCEPT !.seg = gs[CHOOSE k \in DOMAIN groups : groups[k] = group[i]].seg]
                   ELSE addr[i]]
<1>1. Lay!Placed = DOMAIN addr /\ phase' = "done" /\ UNCHANGED <<Lay!input, group, groups, dataGroups, pack>> BY DEF Lay!CalcAddresses
<1>2. addr' = a BY DEF Lay!CalcAddresses
<1>3. \A i \in Lay!Placed : K(i) \in DOMAIN groups BY KIs
<1>4. \A k \in DOMAIN groups : gs[k] = Lay!Group(k) OBVIOUS
<1>5. a = NewAddr
  <2>1. \A i \in DOMAIN addr : gs[CHOOSE k \in DOMAIN groups : groups[k] = group[i]] = Lay!Group(K(i))
    <3> HIDE DEF gs
    <3> QED BY <1>1, <1>3, <1>4 DEF K
  <2> HIDE DEF gs
  <2> QED BY <2>1 DEF NewAddr, InFile
<1>6. grp' = [k \in DOMAIN groups |-> [seg |-> gs[k].seg, off |-> gs[k].off, total |-> gs[k].total, linear |-> gs[k].linear,
                                       size |-> Lay!InitSize(groups[k], a, gs[k])]]
  BY DEF Lay!CalcAddresses
<1> HIDE DEF a
<1>7. grp' = [k \in DOMAIN groups |-> Summed(k)]
  <2> HIDE DEF gs
  <2> QED BY <1>4, <1>5, <1>6 DEF Summed
<1> QED BY <1>1, <1>2, <1>5, <1>7

\* CalcInitSize reaches over all that is initialised, and not further than the group.
LEMMA InitRight ==
  ASSUME Input, AllocInv, Lay!Placed = DOMAIN addr, NEW k \in DOMAIN groups
  PROVE  /\ Lay!InitSize(groups[k], NewAddr, Lay!Group(k)) <= Lay!Group(k).total
         /\ \A i \in Lay!Leaders(groups[k]) : segs[i].init # 0 =>
               Lay!Delta(i, NewAddr, Lay!Group(k)) + segs[i].init <= Lay!InitSize(groups[k], NewAddr, Lay!Group(k))
<1> DEFINE some == {i \in Lay!Leaders(groups[k]) : segs[i].init # 0}
           m == Lay!Max(some)
<1>1. PICK n \in Nat : n = Len(segs) BY InputFacts
<1>2. \A i \in Lay!Leaders(groups[k]) : i \in 1 .. n /\ segs[i].size \in Nat /\ segs[i].init \in Nat /\ segs[i].init <= segs[i].size
  BY <1>1, InputFacts DEF Lay!Leaders, Lay!Placed, Lay!All
<1>3. Lay!Group(k).total \in Nat BY Offsets
<1>4. CASE some = {}
  <2>1. Lay!InitSize(groups[k], NewAddr, Lay!Group(k)) = 0 BY <1>4 DEF Lay!InitSize
  <2> QED BY <1>3, <1>4, <2>1
<1>5. CASE some # {}
  <2>1. some \in SUBSET Nat /\ \A i \in some : i <= n BY <1>2
  <2>2. m \in some /\ \A i \in some : i <= m
    <3> HIDE DEF some
    <3>1. PICK t \in some : \A i \in some : i <= t BY <1>5, <2>1, Greatest
    <3>2. \A i \in some : t >= i BY <2>1, <3>1
    <3>3. m \in some /\ \A i \in some : m >= i BY <3>2 DEF Lay!Max
    <3> QED BY <2>1, <3>3
  <2>3. Lay!InitSize(groups[k], NewAddr, Lay!Group(k)) = Lay!Delta(m, NewAddr, Lay!Group(k)) + segs[m].init BY <1>5 DEF Lay!InitSize
  <2> HIDE DEF m
  <2>4. m \in Lay!Leaders(groups[k]) /\ segs[m].init # 0 BY <2>2
  <2>5. PICK d \in Nat, z \in Nat, t \in Nat, q \in Nat :
          d = Lay!Delta(m, NewAddr, Lay!Group(k)) /\ z = segs[m].init /\ t = Lay!Group(k).total /\ q = segs[m].size
    BY <1>2, <1>3, <2>4, Offsets
  <2>6. z <= q /\ d + q <= t
    <3>1. segs[m].size # 0 BY <1>2, <2>4
    <3> QED BY <1>2, <2>4, <2>5, <3>1, Offsets
  <2>7. Lay!InitSize(groups[k], NewAddr, Lay!Group(k)) = d + z /\ d + z <= t BY <2>3, <2>5, <2>6
  <2>8. ASSUME NEW i \in Lay!Leaders(groups[k]), segs[i].init # 0
        PROVE  Lay!Delta(i, NewAddr, Lay!Group(k)) + segs[i].init <= d + z
    <3>1. CASE i = m BY <2>5, <3>1
    <3>2. CASE i # m
      <4>1. i < m BY <1>2, <2>2, <2>4, <2>8, <3>2
      <4>2. segs[i].size # 0 BY <1>2, <2>8
      <4>3. Lay!Delta(i, NewAddr, Lay!Group(k)) \in Nat /\ Lay!Delta(i, NewAddr, Lay!Group(k)) + segs[i].size <= d
        BY <2>4, <2>5, <4>1, <4>2, Offsets
      <4> QED BY <1>2, <4>3
    <3> QED BY <3>1, <3>2
  <2> QED BY <2>5, <2>7, <2>8
<1> QED BY <1>4, <1>5

\* Groups follow each other in NE and PE files.
LEMMA FollowRight ==
  ASSUME Input, AllocInv, Lay!CalcAddresses PROVE Lay!GroupsFollow'
<1>1. Sorted BY DEF AllocInv
<1>2. grp' = [k \in DOMAIN groups |-> Summed(k)] /\ groups' = groups /\ fmt' = fmt BY <1>1, CalcFacts DEF Lay!input
<1>3. \A k \in DOMAIN groups : grp'[k].total = Lay!Group(k).total /\ grp'[k].seg = Lay!Group(k).seg /\ grp'[k].linear = Lay!Group(k).linear
  BY <1>2 DEF Summed
<1> SUFFICES ASSUME NEW j \in DOMAIN groups, NEW k \in DOMAIN groups
    PROVE  /\ fmt \in {"os2", "pe"} /\ grp'[k].total # 0 => grp'[k].seg = Cardinality({h \in 1 .. k : grp'[h].total # 0})
           /\ fmt = "pe" /\ j < k => grp'[j].linear + grp'[j].total <= grp'[k].linear
  BY <1>2, CardSame DEF Lay!GroupsFollow
<1>4. CASE ~InFile BY <1>4 DEF InFile
<1>5. CASE InFile
  <2>1. \A h \in DOMAIN groups : Lay!Group(h).seg = Lay!Renumbered(h) /\ Lay!Group(h).total = total[groups[h]]
                                 /\ (fmt = "pe" => Lay!Group(h).linear = Lay!FlatEnds[h])
    BY <1>5 DEF Lay!Group, InFile
  <2>2. \A h \in 1 .. k : h \in DOMAIN groups BY <1>1 DEF Sorted
  <2>3. {h \in 1 .. k : grp'[h].total # 0} = {h \in 1 .. k : total[groups[h]] # 0} BY <1>3, <2>1, <2>2
  <2>4. grp'[k].total # 0 => grp'[k].seg = Cardinality({h \in 1 .. k : grp'[h].total # 0})
    BY <1>1, <1>3, <2>1, <2>3, RenumberedIs
  <2>5. \A h \in DOMAIN groups : total[groups[h]] \in Nat
    <3>1. \A h \in DOMAIN groups : groups[h] \in Lay!Range(group) BY <1>1 DEF Sorted, Lay!Range
    <3> QED BY <1>5, <3>1 DEF AllocInv, FileInv
  <2>6. fmt = "pe" /\ j < k => grp'[j].linear + grp'[j].total <= grp'[k].linear
    BY <1>1, <1>3, <2>1, <2>5, ChainUp
  <2> QED BY <2>4, <2>6
<1> QED BY <1>4, <1>5

\* With the groups known, everything is where it should be.
LEMMA StepCalc ==
  ASSUME Input, AllocInv, Lay!CalcAddresses PROVE Lay!EverythingPlaced'
<1>1. Sorted /\ AddrType /\ MemInv /\ FileInv BY DEF AllocInv
<1>2. /\ Lay!Placed = DOMAIN addr /\ addr' = NewAddr /\ grp' = [k \in DOMAIN groups |-> Summed(k)]
      /\ segs' = segs /\ fmt' = fmt /\ group' = group /\ groups' = groups /\ Lay!Placed' = Lay!Placed /\ \A i : Lay!Space(i)' = Lay!Space(i)
  BY <1>1, CalcFacts DEF Lay!input, Lay!Placed, Lay!All, Lay!Space
<1>3. Machine /\ Lay!Placed \subseteq Lay!All /\ (\A i \in Lay!Placed : i \in Nat /\ segs[i].size \in Nat) BY InputFacts DEF Input
<1>4. \A i \in Lay!Placed : K(i) \in DOMAIN groups /\ groups[K(i)] = group[i] /\ i \in Lay!Leaders(groups[K(i)]) BY <1>1, KIs DEF Lay!Leaders
<1>5. \A k \in DOMAIN groups : /\ grp'[k].total = Lay!Group(k).total /\ grp'[k].seg = Lay!Group(k).seg /\ grp'[k].off = Lay!Group(k).off
                               /\ grp'[k].size = Lay!InitSize(groups[k], NewAddr, Lay!Group(k))
  BY <1>2 DEF Summed
<1>6. \A i \in Lay!Placed : Lay!Of(i)' = grp'[K(i)] BY <1>2 DEF Lay!Of, K
<1>7. \A i \in Lay!Placed : Lay!Offset(i)' = Lay!Delta(i, NewAddr, Lay!Group(K(i)))
  <2> SUFFICES ASSUME NEW i \in Lay!Placed PROVE Lay!Offset(i)' = Lay!Delta(i, NewAddr, Lay!Group(K(i)))
    OBVIOUS
  <2>1. Lay!Offset(i)' = Lay!Linear(addr'[i]) - (grp'[K(i)].seg * Para + grp'[K(i)].off) BY <1>6 DEF Lay!Offset, Lay!Delta, Lay!Linear
  <2> QED BY <1>2, <1>4, <1>5, <2>1 DEF Lay!Delta
<1>8. \A i \in Lay!Placed : addr[i] \in Spot /\ addr'[i] = IF InFile THEN [addr[i] EXCEPT !.seg = Lay!Group(K(i)).seg] ELSE addr[i]
  BY <1>1, <1>2 DEF AddrType, NewAddr
<1>9. ASSUME NEW i \in Lay!Placed, NEW j \in Lay!Placed, segs[i].size # 0, segs[j].size # 0, i < j,
             IF InFile THEN group[i] = group[j] ELSE Lay!Space(i) = Lay!Space(j)
      PROVE  Lay!Linear(addr'[i]) + segs[i].size <= Lay!Linear(addr'[j])
  <2>1. CASE ~InFile BY <1>1, <1>2, <1>8, <1>9, <2>1 DEF MemInv
  <2>2. CASE InFile
    <3>1. addr[i].off + segs[i].size <= addr[j].off BY <1>1, <1>2, <1>9, <2>2 DEF FileInv
    <3>2. PICK o \in Nat, p \in Nat, n \in Nat : o = addr[i].off /\ p = addr[j].off /\ n = segs[i].size
      BY <1>3, <1>8 DEF Spot
    <3>3. K(i) = K(j) BY <1>9, <2>2 DEF K
    <3>4. Lay!Group(K(i)).seg = Lay!Renumbered(K(i)) BY <2>2 DEF Lay!Group, InFile
    <3>5. PICK r \in Nat : r = Lay!Renumbered(K(i)) * Para
      <4>1. Lay!Renumbered(K(i)) \in Nat /\ Para \in Nat BY <1>1, <1>3, <1>4, RenumberedIs DEF Machine
      <4>2. Lay!Renumbered(K(i)) * Para \in Nat BY <4>1
      <4> QED BY <4>2
    <3>6. addr'[i].seg = Lay!Renumbered(K(i)) /\ addr'[i].off = o /\ addr'[j].seg = Lay!Renumbered(K(i)) /\ addr'[j].off = p
      <4>1. addr'[i] = [addr[i] EXCEPT !.seg = Lay!Group(K(i)).seg] /\ addr[i] \in Spot BY <1>8, <2>2
      <4>2. addr'[j] = [addr[j] EXCEPT !.seg = Lay!Group(K(j)).seg] /\ addr[j] \in Spot BY <1>8, <2>2
      <4>3. addr'[i].seg = Lay!Group(K(i)).seg /\ addr'[i].off = addr[i].off BY <4>1 DEF Spot
      <4>4. addr'[j].seg = Lay!Group(K(j)).seg /\ addr'[j].off = addr[j].off BY <4>2 DEF Spot
      <4> QED BY <3>2, <3>3, <3>4, <4>3, <4>4
    <3>7. Lay!Linear(addr'[i]) = r + o /\ Lay!Linear(addr'[j]) = r + p BY <3>5, <3>6 DEF Lay!Linear
    <3> QED BY <3>1, <3>2, <3>7
  <2> QED BY <2>1, <2>2
<1>10. ASSUME NEW i \in Lay!Placed
       PROVE  (IF fmt = "real" THEN Lay!Linear(addr'[i]) ELSE addr'[i].off) % segs[i].align = 0
  <2>1. CASE ~InFile BY <1>1, <1>2, <1>8, <2>1 DEF MemInv
  <2>2. CASE InFile
    <3>1. fmt # "real" /\ addr'[i].off = addr[i].off BY <1>8, <2>2 DEF InFile, Spot
    <3> QED BY <1>1, <1>2, <2>2, <3>1 DEF FileInv
  <2> QED BY <2>1, <2>2
<1>11. ASSUME NEW i \in Lay!Placed
       PROVE  /\ Lay!Offset(i)' >= 0 /\ (segs[i].size # 0 => Lay!Offset(i)' + segs[i].size <= Lay!Of(i)'.total)
              /\ segs[i].init # 0 => Lay!Offset(i)' + segs[i].init <= Lay!Of(i)'.size
  <2>1. K(i) \in DOMAIN groups /\ i \in Lay!Leaders(groups[K(i)]) BY <1>4
  <2>2. Lay!Delta(i, NewAddr, Lay!Group(K(i))) \in Nat
        /\ (segs[i].size # 0 => Lay!Delta(i, NewAddr, Lay!Group(K(i))) + segs[i].size <= Lay!Group(K(i)).total)
    BY <1>2, <2>1, Offsets
  <2>3. segs[i].init # 0 => Lay!Delta(i, NewAddr, Lay!Group(K(i))) + segs[i].init <= Lay!InitSize(groups[K(i)], NewAddr, Lay!Group(K(i)))
    BY <1>2, <2>1, InitRight
  <2>4. Lay!Of(i)'.total = Lay!Group(K(i)).total /\ Lay!Of(i)'.size = Lay!InitSize(groups[K(i)], NewAddr, Lay!Group(K(i)))
        /\ Lay!Offset(i)' = Lay!Delta(i, NewAddr, Lay!Group(K(i)))
    BY <1>5, <1>6, <1>7, <2>1
  <2> QED BY <2>2, <2>3, <2>4
<1>12. \A k \in DOMAIN groups : grp'[k].size <= grp'[k].total BY <1>2, <1>5, InitRight
<1>13. Lay!GroupsFollow' BY FollowRight
<1>14. InFile <=> fmt \in {"os2", "pe"} BY DEF InFile
<1> QED BY <1>2, <1>9, <1>10, <1>11, <1>12, <1>13, <1>14 DEF Lay!EverythingPlaced, Lay!Linear

\* The invariant: what each phase leaves to the next.
LayoutInv ==
  /\ Input /\ Lay!TypeOK
  /\ phase \in {"pack", "sort"} =>
        /\ GroupInv /\ addr = << >>
        /\ \A s \in {"code", "data"} : s \in DOMAIN loc /\ loc[s] \in Spot
  /\ phase = "pack" => PackInv
  /\ phase = "sort" => Grouped
  /\ phase = "alloc" => AllocInv
  /\ Lay!EverythingPlaced

\* What depends on the segments and their groups alone.
LEMMA Same ==
  ASSUME Lay!input' = Lay!input, group' = group
  PROVE  /\ Input' = Input /\ fmt' = fmt /\ segs' = segs /\ Lay!All' = Lay!All /\ Lay!Placed' = Lay!Placed /\ Lay!Range(group)' = Lay!Range(group)
         /\ \A g : Lay!Leaders(g)' = Lay!Leaders(g)
BY DEF Lay!input, Input, Lay!All, Lay!Placed, Lay!Leaders

\* It holds before the first round.
LEMMA LayoutStarts == ASSUME Machine, Lay!Init PROVE LayoutInv
<1>1. Input BY DEF Lay!Init, Input
<1>2. PICK b \in BOOLEAN : pack = [at |-> 0, start |-> 0, num |-> 0, size |-> 0, limit |-> 0, lastseg |-> b] BY DEF Lay!Init
<1>3. {"at", "start", "num"} \subseteq DOMAIN pack /\ pack.at = 0 /\ pack.start = 0 /\ pack.num = 0 BY <1>2
<1>4. GroupInv /\ PackInv BY <1>1, <1>3, PackStart DEF Lay!Init
<1>5. addr = << >> /\ phase = "pack" BY DEF Lay!Init
<1>6. \A s \in {"code", "data"} : s \in DOMAIN loc /\ loc[s] \in Spot
  <2>1. loc = [code |-> [seg |-> IF fmt = "real" THEN 0 ELSE 1, off |-> 0], data |-> [seg |-> 2, off |-> 0]] BY DEF Lay!Init
  <2>2. loc["code"] = [seg |-> IF fmt = "real" THEN 0 ELSE 1, off |-> 0] /\ loc["data"] = [seg |-> 2, off |-> 0]
        /\ DOMAIN loc = {"code", "data"} BY <2>1
  <2> QED BY <2>2 DEF Spot
<1>7. Len(segs) \in Nat BY <1>1, InputFacts
<1>8. Lay!TypeOK BY <1>3, <1>4, <1>5, <1>7 DEF Lay!TypeOK, GroupInv
<1>9. Lay!EverythingPlaced BY <1>5 DEF Lay!EverythingPlaced, Lay!Done
<1> QED BY <1>1, <1>4, <1>5, <1>6, <1>8, <1>9 DEF LayoutInv

\* Each step keeps it.
LEMMA LayoutSteps == ASSUME LayoutInv, [Lay!Next]_(Lay!vars) PROVE LayoutInv'
<1>1. Input /\ Lay!TypeOK BY DEF LayoutInv
<1>2. Len(segs) \in Nat BY <1>1, InputFacts
<1>3. CASE Lay!PackSegment
  <2>1. phase = "pack" /\ phase' = "pack" /\ Lay!input' = Lay!input /\ addr' = addr /\ loc' = loc BY <1>3 DEF Lay!PackSegment
  <2>2. GroupInv /\ PackInv /\ addr = << >> BY <2>1 DEF LayoutInv
  <2>3. GroupInv' /\ PackInv' BY <1>1, <1>3, <2>2, StepPackSegment
  <2>4. Input' BY <1>1, <2>1 DEF Input, Lay!input
  <2>5. Lay!TypeOK' BY <2>1, <2>2, <2>3 DEF Lay!TypeOK, GroupInv, PackInv
  <2>6. Lay!EverythingPlaced' BY <2>1 DEF Lay!EverythingPlaced, Lay!Done
  <2> QED BY <2>1, <2>2, <2>3, <2>4, <2>5, <2>6 DEF LayoutInv
<1>4. CASE Lay!PackLast
  <2>1. phase = "pack" /\ phase' = "sort" /\ Lay!input' = Lay!input /\ addr' = addr /\ loc' = loc /\ pack' = pack BY <1>4 DEF Lay!PackLast
  <2>2. GroupInv /\ PackInv /\ addr = << >> BY <2>1 DEF LayoutInv
  <2>3. GroupInv' /\ Grouped' BY <1>1, <1>4, <2>2, StepPackLast
  <2>4. Input' BY <1>1, <2>1 DEF Input, Lay!input
  <2>5. Lay!TypeOK' BY <1>1, <2>1, <2>2, <2>3 DEF Lay!TypeOK, GroupInv, Lay!input
  <2>6. Lay!EverythingPlaced' BY <2>1 DEF Lay!EverythingPlaced, Lay!Done
  <2> QED BY <2>1, <2>2, <2>3, <2>4, <2>5, <2>6 DEF LayoutInv
<1>5. CASE Lay!SortGroupList
  <2>1. phase = "sort" /\ phase' = "alloc" /\ Lay!input' = Lay!input /\ addr' = addr /\ loc' = loc /\ pack' = pack /\ group' = group
        /\ dataGroups' = dataGroups
    BY <1>5 DEF Lay!SortGroupList
  <2>2. GroupInv /\ Grouped /\ addr = << >> BY <2>1 DEF LayoutInv
  <2>3. Sorted' /\ total' \in [Lay!Range(group') -> Nat] BY <1>1, <1>5, <2>2, StepSort
  <2>4. Input' /\ segs' = segs BY <1>1, <2>1 DEF Input, Lay!input
  <2>5. Lay!TypeOK' BY <1>1, <2>1, <2>2, <2>3, <2>4 DEF Lay!TypeOK, Sorted
  <2>6. DOMAIN addr' = {} BY <2>1, <2>2
  <2>7. AddrType' /\ MemInv' /\ FileInv' BY <2>1, <2>3, <2>6 DEF LayoutInv, AddrType, MemInv, FileInv
  <2>8. Lay!EverythingPlaced' BY <2>1 DEF Lay!EverythingPlaced, Lay!Done
  <2> QED BY <2>1, <2>3, <2>4, <2>5, <2>7, <2>8 DEF LayoutInv, AllocInv
<1>6. CASE Lay!AllocSeg
  <2>1. phase = "alloc" /\ phase' = "alloc" /\ Lay!input' = Lay!input /\ pack' = pack BY <1>6 DEF Lay!AllocSeg
  <2>2. AllocInv' BY <1>1, <1>6, <2>1, StepAlloc DEF LayoutInv
  <2>3. Input' /\ segs' = segs BY <1>1, <2>1 DEF Input, Lay!input
  <2>4. Lay!TypeOK' BY <1>1, <2>1, <2>2, <2>3 DEF Lay!TypeOK, AllocInv, Sorted, AddrType
  <2>5. Lay!EverythingPlaced' BY <2>1 DEF Lay!EverythingPlaced, Lay!Done
  <2> QED BY <2>1, <2>2, <2>3, <2>4, <2>5 DEF LayoutInv
<1>7. CASE Lay!CalcAddresses
  <2>1. phase = "alloc" BY <1>7 DEF Lay!CalcAddresses
  <2>2. AllocInv BY <2>1 DEF LayoutInv
  <2>3. Lay!EverythingPlaced' BY <1>1, <1>7, <2>2, StepCalc
  <2>4. /\ Lay!Placed = DOMAIN addr /\ addr' = NewAddr /\ phase' = "done"
        /\ UNCHANGED <<Lay!input, group, groups, dataGroups, pack>>
    BY <1>7, <2>2, CalcFacts DEF AllocInv
  <2>5. Input' /\ segs' = segs BY <1>1, <2>4 DEF Input, Lay!input
  <2>6. DOMAIN addr' = DOMAIN addr BY <2>4 DEF NewAddr
  <2>7. Lay!TypeOK' BY <1>1, <2>4, <2>5, <2>6 DEF Lay!TypeOK, Lay!All, Lay!Placed
  <2> QED BY <2>3, <2>4, <2>5, <2>7 DEF LayoutInv
<1>8. CASE UNCHANGED Lay!vars
  <2>1. /\ Lay!input' = Lay!input /\ group' = group /\ groups' = groups /\ dataGroups' = dataGroups /\ pack' = pack /\ addr' = addr
        /\ loc' = loc /\ total' = total /\ grp' = grp /\ errors' = errors /\ phase' = phase
    BY <1>8 DEF Lay!vars
  <2>2. /\ Input' /\ fmt' = fmt /\ segs' = segs /\ Lay!All' = Lay!All /\ Lay!Placed' = Lay!Placed /\ \A g : Lay!Leaders(g)' = Lay!Leaders(g)
    BY <1>1, <2>1, Same
  <2>3. Lay!TypeOK' BY <1>1, <2>1, <2>2 DEF Lay!TypeOK
  <2>4. GroupInv => GroupInv' BY <2>1, <2>2 DEF GroupInv
  <2>5. \A j : InPack(j)' <=> InPack(j) BY <2>1, <2>2 DEF InPack, Lay!Alone
  <2>6. Waiting' = Waiting /\ Begun' = Begun BY <2>1, <2>2, <2>5 DEF Waiting, Begun, Lay!Alone
  <2>7. PackInv => PackInv' BY <2>1, <2>2, <2>5, <2>6 DEF PackInv
  <2>8. Grouped => Grouped' BY <2>1, <2>2 DEF Grouped
  <2>9. Sorted => Sorted' BY <2>1, <2>2 DEF Sorted
  <2>10. AddrType => AddrType' BY <2>1, <2>2 DEF AddrType
  <2>11. \A i : Lay!Space(i)' = Lay!Space(i) BY <2>1, <2>2 DEF Lay!Space
  <2>12. InFile' = InFile BY <2>2 DEF InFile
  <2>13. MemInv => MemInv' BY <2>1, <2>2, <2>11, <2>12 DEF MemInv, Lay!Linear
  <2>14. FileInv => FileInv' BY <2>1, <2>2, <2>12 DEF FileInv
  <2>15. \A i : Lay!Of(i)' = Lay!Of(i) BY <2>1 DEF Lay!Of
  <2>16. \A i : Lay!Offset(i)' = Lay!Offset(i) BY <2>1, <2>15 DEF Lay!Offset, Lay!Delta, Lay!Linear
  <2>17. Lay!GroupsFollow' = Lay!GroupsFollow BY <2>1, <2>2 DEF Lay!GroupsFollow
  <2>18. Lay!EverythingPlaced => Lay!EverythingPlaced'
    BY <2>1, <2>2, <2>11, <2>15, <2>16, <2>17 DEF Lay!EverythingPlaced, Lay!Done, Lay!Linear
  <2> QED BY <2>1, <2>2, <2>3, <2>4, <2>7, <2>8, <2>9, <2>10, <2>13, <2>14, <2>18 DEF LayoutInv, AllocInv
<1> QED BY <1>3, <1>4, <1>5, <1>6, <1>7, <1>8 DEF Lay!Next

\* Whatever segments a link has, and however they are packed into groups: when
\* CalcAddresses is done no two segments of an address space (of a group, where a
\* group is a segment of the file) share a byte, each is aligned, its group reaches
\* over all of it and the initialised part of the group over what is initialised
\* in it, and the groups of NE and PE files follow each other.
THEOREM EverySegmentPlaced == ASSUME Machine PROVE Lay!Spec => [](Lay!TypeOK /\ Lay!EverythingPlaced)
<1>1. Lay!Init => LayoutInv BY LayoutStarts
<1>2. LayoutInv /\ [Lay!Next]_(Lay!vars) => LayoutInv' BY LayoutSteps
<1>3. LayoutInv => Lay!TypeOK /\ Lay!EverythingPlaced BY DEF LayoutInv
<1> QED BY <1>1, <1>2, <1>3, PTL DEF Lay!Spec
-----------------------------------------------------------------------------
(* Packing predicts what allocation does                                    *)

\* A multiple of the divisor goes through a division.
LEMMA DivShift ==
  ASSUME NEW a \in Nat \ {0}, NEW c \in Nat, NEW z \in Nat PROVE (a * c + z) \div a = c + (z \div a)
<1>1. PICK q \in Nat, r \in Nat : q = z \div a /\ r = z % a OBVIOUS
<1>2. z = a * (z \div a) + (z % a) /\ z % a < a OBVIOUS
<1>3. PICK n \in Nat : n = a * c + z
  <2>1. a * c \in Nat OBVIOUS
  <2> QED BY <2>1
<1>4. PICK u \in Nat, v \in Nat : u = n \div a /\ v = n % a OBVIOUS
<1>5. n = a * (n \div a) + (n % a) /\ n % a < a OBVIOUS
<1>6. n = a * u + v /\ v < a /\ z = a * q + r /\ r < a BY <1>1, <1>2, <1>4, <1>5
<1>7. a * c + a * q = a * (c + q) OBVIOUS
<1>8. PICK w \in Nat : w = c + q OBVIOUS
<1>9. a * u + v = a * w + r
  <2>1. a * c \in Nat /\ a * q \in Nat /\ a * u \in Nat /\ a * w \in Nat OBVIOUS
  <2> QED BY <1>3, <1>6, <1>7, <1>8, <2>1
<1>10. u = w
  <2>1. a * u \in Nat /\ a * w \in Nat OBVIOUS
  <2>2. CASE u < w
    <3>1. PICK d \in Nat : w = u + 1 + d BY <2>2
    <3>2. a * (u + 1 + d) = a * u + a + a * d /\ a * d \in Nat OBVIOUS
    <3> QED BY <1>6, <1>9, <2>1, <3>1, <3>2
  <2>3. CASE w < u
    <3>1. PICK d \in Nat : u = w + 1 + d BY <2>3
    <3>2. a * (w + 1 + d) = a * w + a + a * d /\ a * d \in Nat OBVIOUS
    <3> QED BY <1>6, <1>9, <2>1, <3>1, <3>2
  <2> QED BY <2>2, <2>3
<1> QED BY <1>1, <1>3, <1>4, <1>8, <1>10

\* It leaves no trace in the remainder.
LEMMA ModShift ==
  ASSUME NEW p \in Nat \ {0}, NEW k \in Nat, NEW z \in Nat PROVE (p * k + z) % p = z % p
<1>1. PICK n \in Nat : n = p * k + z
  <2>1. p * k \in Nat OBVIOUS
  <2> QED BY <2>1
<1>2. PICK q \in Nat : q = z \div p OBVIOUS
<1>3. n \div p = k + q BY <1>1, <1>2, DivShift
<1>4. z = p * (z \div p) + (z % p) /\ n = p * (n \div p) + (n % p) OBVIOUS
<1>5. p * (k + q) = p * k + p * q /\ p * k \in Nat /\ p * q \in Nat OBVIOUS
<1>6. z % p \in Nat /\ n % p \in Nat OBVIOUS
<1>7. z = p * q + (z % p) BY <1>2, <1>4
<1>8. n = p * (k + q) + (n % p) BY <1>3, <1>4
<1> QED BY <1>1, <1>5, <1>6, <1>7, <1>8

\* Nothing to align at the start; and never more than what is missing.
LEMMA AlignBounds ==
  ASSUME NEW a \in Nat \ {0}, NEW n \in Nat
  PROVE  Lay!AlignUp(0, a) = 0 /\ Lay!AlignUp(n, a) <= n + a - 1
<1>1. PICK m \in Nat : m = n + a - 1 OBVIOUS
<1>2. PICK q \in Nat : q = m \div a OBVIOUS
<1>3. m = a * (m \div a) + (m % a) /\ m % a \in Nat OBVIOUS
<1>4. q * a = a * q /\ q * a \in Nat OBVIOUS
<1>5. Lay!AlignUp(n, a) = q * a BY <1>1, <1>2 DEF Lay!AlignUp
<1>6. q * a <= m BY <1>2, <1>3, <1>4
<1>7. PICK b \in Nat : b = a - 1 /\ b < a OBVIOUS
<1>8. b \div a = 0
  <2>1. b = a * (b \div a) + (b % a) /\ b % a \in Nat /\ b \div a \in Nat OBVIOUS
  <2>2. PICK c \in Nat, d \in Nat : c = b \div a /\ b = a * c + d BY <2>1
  <2>3. c # 0 => a * c >= a
    <3>1. c # 0 => \E e \in Nat : c = e + 1
      <4>1. c # 0 => c - 1 \in Nat /\ c = (c - 1) + 1 OBVIOUS
      <4> QED BY <4>1
    <3>2. ASSUME NEW e \in Nat, c = e + 1 PROVE a * c >= a
      <4>1. a * (e + 1) = a * e + a /\ a * e \in Nat OBVIOUS
      <4> QED BY <3>2, <4>1
    <3> QED BY <3>1, <3>2
  <2>4. a * c \in Nat OBVIOUS
  <2>5. ~(a * c >= a) BY <1>7, <2>2, <2>4
  <2> QED BY <2>2, <2>3, <2>5
<1>9. Lay!AlignUp(0, a) = (b \div a) * a BY <1>7 DEF Lay!AlignUp
<1>10. 0 * a = 0 OBVIOUS
<1> QED BY <1>1, <1>5, <1>6, <1>8, <1>9, <1>10

\* What is further on stays further on.
LEMMA AlignMono ==
  ASSUME NEW a \in Nat \ {0}, NEW x \in Nat, NEW y \in Nat, x <= y
  PROVE  Lay!AlignUp(x, a) <= Lay!AlignUp(y, a)
<1>1. PICK u \in Nat, v \in Nat : u = (x + a - 1) \div a /\ v = (y + a - 1) \div a
  <2>1. PICK m \in Nat, n \in Nat : m = x + a - 1 /\ n = y + a - 1 OBVIOUS
  <2>2. m \div a \in Nat /\ n \div a \in Nat OBVIOUS
  <2> QED BY <2>1, <2>2
<1>2. Lay!AlignUp(x, a) = u * a /\ Lay!AlignUp(y, a) = v * a BY <1>1 DEF Lay!AlignUp
<1>3. y <= v * a BY <1>2, AlignUpRight
<1>4. u * a <= x + a - 1 BY <1>2, AlignBounds
<1>5. u * a \in Nat /\ v * a \in Nat OBVIOUS
<1>6. CASE v < u
  <2>1. PICK d \in Nat : u = v + 1 + d BY <1>6
  <2>2. (v + 1 + d) * a = v * a + a + d * a /\ d * a \in Nat OBVIOUS
  <2> QED BY <1>3, <1>4, <1>5, <2>1, <2>2
<1>7. CASE u <= v
  <2>1. PICK d \in Nat : v = u + d BY <1>7
  <2>2. (u + d) * a = u * a + d * a /\ d * a \in Nat OBVIOUS
  <2> QED BY <1>2, <1>5, <2>1, <2>2
<1> QED BY <1>6, <1>7

\* Aligning within a paragraph: only the place in the paragraph counts.
LEMMA AlignMod ==
  ASSUME NEW a \in Nat \ {0}, NEW p \in Nat \ {0}, p % a = 0, NEW x \in Nat
  PROVE  Lay!AlignUp(x, a) % p = Lay!AlignUp(x % p, a) % p
<1>1. PICK k \in Nat, r \in Nat, m \in Nat : k = x \div p /\ r = x % p /\ m = p \div a OBVIOUS
<1>2. x = p * (x \div p) + (x % p) /\ p = a * (p \div a) + (p % a) OBVIOUS
<1>3. p = a * m
  <2>1. a * m \in Nat OBVIOUS
  <2> QED BY <1>1, <1>2, <2>1
<1>4. p * k = a * (m * k)
  <2>1. (a * m) * k = a * (m * k) OBVIOUS
  <2> QED BY <1>3, <2>1
<1>5. PICK c \in Nat : c = m * k OBVIOUS
<1>6. PICK z \in Nat : z = r + a - 1 OBVIOUS
<1>7. x + a - 1 = a * c + z
  <2>1. a * c \in Nat /\ p * k \in Nat OBVIOUS
  <2>2. x = a * c + r BY <1>1, <1>2, <1>4, <1>5, <2>1
  <2> QED BY <1>6, <2>1, <2>2
<1>8. PICK q \in Nat : q = z \div a OBVIOUS
<1>9. (x + a - 1) \div a = c + q
  <2>1. (a * c + z) \div a = c + (z \div a) BY DivShift
  <2> QED BY <1>7, <1>8, <2>1
<1>10. (c + q) * a = a * c + q * a OBVIOUS
<1>11. PICK y \in Nat : y = q * a OBVIOUS
<1>12. Lay!AlignUp(x, a) = p * k + y BY <1>4, <1>5, <1>9, <1>10, <1>11 DEF Lay!AlignUp
<1>13. Lay!AlignUp(r, a) = y BY <1>6, <1>8, <1>11 DEF Lay!AlignUp
<1>14. (p * k + y) % p = y % p BY ModShift
<1> QED BY <1>1, <1>12, <1>13, <1>14

\* Segments and groups of real mode and NE that get places one after the other.
Usual == fmt \in {"real", "os2"} /\ \A i \in Lay!All : ~segs[i].noClass /\ segs[i].base = 0

\* What the code takes for granted of sizes: they fit into 32 bits with what
\* aligning adds, 64K is more than a paragraph, and nobody asks for groups that
\* are larger than 64K.
Fits ==
  /\ Max16 \in Nat /\ Max32 \in Nat /\ Para <= Max16 /\ Max16 <= Max32 /\ Max32 % Para = 0
  /\ Limits \subseteq 0 .. Max16
  /\ \A f \in Formats : \A s \in Segments(f) : \A i \in 1 .. Len(s) : s[i].size + s[i].align + Para <= Max32

Known == Input /\ Fits /\ packLimit \in Limits /\ Usual

\* A group begins somewhere in a frame.
Frame == IF fmt = "real" THEN Para ELSE 1

\* j is the last segment with a place before i.
Before(j, i) == j \in Lay!Placed /\ i \in Lay!Placed /\ j < i /\ \A k \in Lay!Placed : k <= j \/ i <= k

\* P[i] is the place packing thinks i has in its group, H[i] the first segment of
\* what was packed with i.
Member(P, H, i) ==
  /\ H[i] \in Lay!Placed /\ H[i] <= i /\ H[H[i]] = H[i]
  /\ group[H[i]] = group[i] /\ segs[H[i]].use32 = segs[i].use32
  /\ H[i] = i => P[i] < Frame
  /\ H[i] # i => /\ P[i] + segs[i].size < Lay!SetSegType(H[i]) /\ P[H[i]] + segs[H[i]].size <= P[i]
                 /\ \E j \in Lay!Placed : /\ Before(j, i) /\ H[j] = H[i]
                                          /\ P[i] = Lay!AlignUp(P[j] + segs[j].size, segs[i].align)
  /\ \A j \in Lay!Placed : Before(j, i) => P[i] % Frame = Lay!AlignUp(P[j] + segs[j].size, segs[i].align) % Frame
  /\ (\A j \in Lay!Placed : i <= j) => P[i] = 0

Upto(n) == {i \in Lay!Placed : i <= n}
Predicted(P, H, n) ==
  /\ P \in [Lay!All -> Nat] /\ H \in [Lay!All -> Lay!All]
  /\ \A i \in Upto(n) : Member(P, H, i)
  /\ \A i, j \in Upto(n) : Lay!Auto(group[i]) /\ group[i] = group[j] => H[i] = H[j]

\* What AutoGroupSect has of it: the group being made begins at pack.start, and
\* pack.size is the end of its last segment.
Sizes == {"size", "limit", "lastseg"} \subseteq DOMAIN pack
Ends(P, H, l) == l \in Upto(pack.at) /\ (\A k \in Upto(pack.at) : k <= l) /\ H[l] = pack.start /\ pack.size = P[l] + segs[l].size
Drawn(P, H) ==
  /\ Predicted(P, H, pack.at)
  /\ Sizes /\ pack.size \in Nat /\ pack.size < Max32
  /\ \A j \in Lay!All : j > pack.at => ~Lay!Auto(group[j])
  /\ \A j \in Lay!All : InPack(j) => ~Lay!Auto(group[j])
  /\ pack.start = 0 => pack.size = 0 /\ Upto(pack.at) = {}
  /\ pack.start # 0 => /\ pack.limit = Lay!SetSegType(pack.start) /\ pack.start \in Lay!Placed
                       /\ \A j \in Upto(pack.at) : pack.start <= j <=> H[j] = pack.start
                       /\ \E l \in Lay!Placed : Ends(P, H, l)

\* What there is to know of sizes.
LEMMA SizeFacts ==
  ASSUME Known
  PROVE  /\ Max16 \in Nat /\ Max32 \in Nat /\ Para \in Nat \ {0} /\ Para <= Max16 /\ Max16 <= Max32 /\ Max32 % Para = 0 /\ Max32 # 0
         /\ Frame \in Nat \ {0} /\ Frame <= Para /\ \A i \in Lay!All : Frame % segs[i].align = 0 \/ fmt = "os2"
         /\ \A i \in Lay!All : /\ segs[i].size \in Nat /\ segs[i].align \in Nat \ {0}
                               /\ segs[i].size + segs[i].align + Para <= Max32
                               /\ Lay!SetSegType(i) \in Int /\ (~segs[i].use32 => Lay!SetSegType(i) <= Max16)
         /\ \A i \in Lay!All : Lay!Alone(i) <=> segs[i].abs
<1>1. Input /\ Fits /\ packLimit \in Limits /\ Usual /\ Machine BY DEF Known, Input
<1>2. fmt \in Formats /\ segs \in Segments(fmt) BY <1>1 DEF Input
<1>3. packLimit \in Nat /\ packLimit <= Max16 BY <1>1 DEF Fits
<1>4. Para \in Nat \ {0} /\ Max16 \in Nat /\ Max32 \in Nat /\ Para <= Max16 /\ Max16 <= Max32 /\ Max32 % Para = 0
  BY <1>1 DEF Fits, Machine
<1>5. \A i \in Lay!All : segs[i].size \in Nat /\ segs[i].align \in Nat \ {0} /\ (fmt = "real" => Para % segs[i].align = 0)
  BY <1>1, InputFacts
<1>6. \A i \in Lay!All : segs[i].size + segs[i].align + Para <= Max32 BY <1>1, <1>2 DEF Fits, Lay!All
<1>7. \A i \in Lay!All : Lay!SetSegType(i) \in Int /\ (~segs[i].use32 => Lay!SetSegType(i) <= Max16)
  BY <1>3, <1>4 DEF Lay!SetSegType
<1>8. Frame \in Nat \ {0} /\ Frame <= Para /\ (fmt = "real" => Frame = Para) BY <1>4 DEF Frame
<1>9. \A i \in Lay!All : Frame % segs[i].align = 0 \/ fmt = "os2" BY <1>1, <1>5, <1>8 DEF Usual
<1>10. \A i \in Lay!All : Lay!Alone(i) <=> segs[i].abs BY <1>1 DEF Usual, Lay!Alone
<1> QED BY <1>4, <1>5, <1>6, <1>7, <1>8, <1>9, <1>10

\* One place for each number: the one before it is the only one.
LEMMA OneBefore ==
  ASSUME Input, NEW i, NEW j, NEW k, Before(j, i), Before(k, i) PROVE j = k
<1>1. j \in Nat /\ k \in Nat /\ i \in Nat /\ j < i /\ k < i BY InputFacts DEF Before
<1>2. k <= j /\ j <= k BY <1>1 DEF Before
<1> QED BY <1>1, <1>2

\* The groups Packed leaves alone, and the one it makes.
LEMMA PackOnly ==
  ASSUME Input, GroupInv, PackInv, pack.num # 0, Lay!Packed(pack.start, pack.num)
  PROVE  \E new \in Nat : /\ Lay!Auto(new) /\ \A j \in Lay!All : group[j] # new
                          /\ \A j \in Lay!All : group'[j] = IF InPack(j) /\ group[j] = 0 THEN new ELSE group[j]
<1> DEFINE new == Lay!Max({Lay!UserGroup} \cup Lay!Range(group)) + 1
           i == pack.start
           g == IF group[i] # 0 THEN group[i] ELSE new
           in == Lay!Counted(i, group[i], pack.num)
           fit == {j \in i .. Len(segs) : group[j] \in {0, group[i]}}
           Low(j) == {k \in fit : k <= j}
           S == Waiting
           T == {Lay!UserGroup} \cup Lay!Range(group)
<1>1. group \in [Lay!All -> Nat] /\ Len(segs) \in Nat /\ Lay!All = 1 .. Len(segs) BY InputFacts DEF GroupInv, Lay!All
<1>2. new \in Nat /\ Lay!Auto(new) /\ \A j \in Lay!All : group[j] # new
  <2>1. PICK b \in Nat : \A j \in Lay!All : group[j] <= b BY DEF GroupInv
  <2>2. \A x \in Lay!Range(group) : x \in Nat /\ x <= b BY <1>1, <2>1 DEF Lay!Range
  <2>3. \A x \in T : x \in Nat /\ x <= b + 1 BY <2>2 DEF Lay!UserGroup
  <2>4. 1 \in T /\ \A j \in Lay!All : group[j] \in T BY <1>1 DEF Lay!UserGroup, Lay!Range
  <2> HIDE DEF T
  <2>5. PICK n \in Nat : n = b + 1 OBVIOUS
  <2>6. T \in SUBSET Nat /\ T # {} /\ \A x \in T : x <= n BY <2>3, <2>4, <2>5
  <2>7. PICK m \in T : \A x \in T : x <= m BY <2>5, <2>6, Greatest
  <2>8. \A x \in T : m >= x BY <2>6, <2>7
  <2>9. Lay!Max(T) \in T /\ \A x \in T : Lay!Max(T) >= x BY <2>8 DEF Lay!Max
  <2>10. PICK t \in Nat : t = Lay!Max(T) /\ t >= 1 BY <2>4, <2>6, <2>9
  <2>11. \A j \in Lay!All : group[j] \in Nat /\ group[j] <= t BY <2>4, <2>6, <2>9, <2>10
  <2>12. new = t + 1 BY <2>10 DEF T
  <2> HIDE DEF new
  <2>13. \A j \in Lay!All : group[j] # new BY <2>11, <2>12
  <2> QED BY <2>10, <2>12, <2>13 DEF Lay!Auto, Lay!UserGroup
<1>3. \A j \in Lay!All : group'[j] = IF j \in in /\ group[j] = 0 THEN g ELSE group[j]
  BY DEF Lay!Packed, Lay!PackSegs
<1>4. i # 0 /\ i \in Lay!All /\ pack.at \in Nat
  <2>1. i \in Lay!All BY PackTakes
  <2> QED BY <1>1, <2>1 DEF PackInv
<1>5. ASSUME NEW j \in Lay!All, InPack(j), group[j] = 0 PROVE j \in in /\ group[i] = 0
  <2>1. group[i] = 0 BY <1>5 DEF PackInv
  <2>2. j <= pack.at BY <1>5 DEF InPack
  <2> QED BY <1>5, <2>1, <2>2, PackTakes
<1>6. ASSUME NEW j \in in, group[j] = 0 PROVE InPack(j)
  <2>1. j \in fit /\ Cardinality(Low(j)) <= pack.num BY CardSame DEF Lay!Counted
  <2>2. j \in Lay!All BY <1>1, <1>4, <2>1
  <2>3. CASE j <= pack.at BY <1>6, <2>2, <2>3 DEF PackInv
  <2>4. CASE ~(j <= pack.at)
    <3>1. S \cup {j} \in SUBSET Low(j)
      <4> SUFFICES ASSUME NEW k \in S PROVE k \in fit /\ k <= j
        BY <1>1, <1>4, <2>1
      <4>1. k \in Lay!All /\ i <= k /\ k <= pack.at /\ group[k] = group[i] BY DEF Waiting, InPack, PackInv
      <4> QED BY <1>1, <1>4, <2>2, <2>4, <4>1
    <3>2. j \notin S BY <2>4 DEF Waiting, InPack
    <3>3. IsFiniteSet(S) /\ Cardinality(S) = pack.num /\ pack.num \in Nat BY DEF PackInv
    <3>4. IsFiniteSet(S \cup {j}) /\ Cardinality(S \cup {j}) = pack.num + 1
      <4> HIDE DEF S
      <4> QED BY <3>2, <3>3, FS_AddElement
    <3>5. Low(j) \in SUBSET Nat /\ (\A k \in Low(j) : k <= j) /\ j \in Nat BY <1>1, <1>4, <2>2
    <3>6. IsFiniteSet(Low(j))
      <4> HIDE DEF Low
      <4> QED BY <3>5, FS_BoundedSetOfNaturals
    <3>7. Cardinality(S \cup {j}) <= Cardinality(Low(j)) /\ Cardinality(Low(j)) \in Nat
      <4> HIDE DEF Low, S
      <4> QED BY <3>1, <3>6, FS_Subset, FS_CardinalityType
    <3> HIDE DEF Low, S
    <3> QED BY <2>1, <3>3, <3>4, <3>7
  <2> QED BY <2>3, <2>4
<1> HIDE DEF new, in
<1>7. ASSUME NEW j \in Lay!All PROVE group'[j] = IF InPack(j) /\ group[j] = 0 THEN new ELSE group[j]
  <2>1. CASE InPack(j) /\ group[j] = 0 BY <1>3, <1>5, <2>1
  <2>2. CASE ~InPack(j) /\ group[j] = 0
    <3>1. j \notin in BY <1>6, <2>2
    <3> QED BY <1>3, <2>2, <3>1
  <2>3. CASE group[j] # 0 BY <1>3, <2>3
  <2> QED BY <2>1, <2>2, <2>3
<1> QED BY <1>2, <1>7

\* What a Member depends on.
LEMMA MemberSame ==
  ASSUME NEW P, NEW H, NEW i, Member(P, H, i), fmt' = fmt, segs' = segs, packLimit' = packLimit,
         (group'[H[i]] = group'[i]) \/ (group'[H[i]] = group[H[i]] /\ group'[i] = group[i])
  PROVE  Member(P, H, i)'
<1>1. Lay!All' = Lay!All /\ Lay!Placed' = Lay!Placed /\ Frame' = Frame BY DEF Lay!All, Lay!Placed, Frame
<1>2. \A j : Before(j, i)' <=> Before(j, i) BY <1>1 DEF Before
<1>3. Lay!SetSegType(H[i])' = Lay!SetSegType(H[i]) BY DEF Lay!SetSegType
<1>4. group'[H[i]] = group'[i] BY DEF Member
<1> QED BY <1>1, <1>2, <1>3, <1>4 DEF Member

\* One more segment changes nothing of those before it.
LEMMA MemberKept ==
  ASSUME Input, NEW P, NEW H, NEW n, NEW p, NEW h, NEW i \in Lay!Placed, i < n, n \in Lay!All,
         P \in [Lay!All -> Nat], H \in [Lay!All -> Lay!All], Member(P, H, i)
  PROVE  Member([P EXCEPT ![n] = p], [H EXCEPT ![n] = h], i)
<1> DEFINE Q == [P EXCEPT ![n] = p]
           G == [H EXCEPT ![n] = h]
<1>1. \A k \in Lay!All : k # n => Q[k] = P[k] /\ G[k] = H[k] OBVIOUS
<1>2. i \in Nat /\ n \in Nat /\ \A k \in Lay!Placed : k \in Lay!All /\ k \in Nat BY InputFacts
<1>3. i # n /\ H[i] # n /\ H[i] \in Lay!All BY <1>2 DEF Member
<1>4. Q[i] = P[i] /\ G[i] = H[i] /\ Q[H[i]] = P[H[i]] /\ G[H[i]] = H[H[i]] BY <1>1, <1>2, <1>3
<1>5. \A j \in Lay!Placed : Before(j, i) => Q[j] = P[j] /\ G[j] = H[j]
  <2> SUFFICES ASSUME NEW j \in Lay!Placed, Before(j, i) PROVE j # n
    BY <1>1, <1>2
  <2> QED BY <1>2 DEF Before
<1> HIDE DEF Q, G
<1>6. Member(Q, G, i) BY <1>4, <1>5 DEF Member
<1> QED BY <1>6 DEF Q, G

\* Remainders of what is not much too large.
LEMMA ModSmall ==
  ASSUME NEW m \in Nat \ {0}, NEW x \in Nat
  PROVE  (x < m => x % m = x) /\ (m <= x /\ x < m + m => x % m = x - m)
<1>1. ASSUME NEW y \in Nat, y < m PROVE y % m = y
  <2>1. PICK q \in Nat, r \in Nat : q = y \div m /\ r = y % m OBVIOUS
  <2>2. y = m * (y \div m) + (y % m) OBVIOUS
  <2>3. y = m * q + r BY <2>1, <2>2
  <2>4. q # 0 => m * q >= m
    <3> SUFFICES ASSUME q # 0 PROVE m * q >= m
      OBVIOUS
    <3>1. PICK e \in Nat : q = e + 1
      <4>1. q - 1 \in Nat /\ q = (q - 1) + 1 OBVIOUS
      <4> QED BY <4>1
    <3>2. m * (e + 1) = m * e + m /\ m * e \in Nat OBVIOUS
    <3> QED BY <3>1, <3>2
  <2>5. m * q \in Nat /\ m * 0 = 0 OBVIOUS
  <2>6. q = 0 BY <1>1, <2>3, <2>4, <2>5
  <2> QED BY <2>1, <2>3, <2>5, <2>6
<1>2. CASE m <= x /\ x < m + m
  <2>1. PICK y \in Nat : y = x - m /\ y < m BY <1>2
  <2>2. m * 1 + y = x BY <2>1
  <2>3. (m * 1 + y) % m = y % m BY ModShift
  <2>4. y % m = y BY <1>1, <2>1
  <2> QED BY <2>1, <2>2, <2>3, <2>4
<1> QED BY <1>1, <1>2

\* 32 bits are whole paragraphs.
LEMMA ModMod ==
  ASSUME NEW m \in Nat \ {0}, NEW p \in Nat \ {0}, m % p = 0, NEW x \in Nat PROVE (x % m) % p = x % p
<1>1. PICK k \in Nat, r \in Nat, d \in Nat : k = x \div m /\ r = x % m /\ d = m \div p OBVIOUS
<1>2. x = m * (x \div m) + (x % m) /\ m = p * (m \div p) + (m % p) OBVIOUS
<1>3. m = p * d
  <2>1. p * d \in Nat OBVIOUS
  <2> QED BY <1>1, <1>2, <2>1
<1>4. m * k = p * (d * k)
  <2>1. (p * d) * k = p * (d * k) OBVIOUS
  <2> QED BY <1>3, <2>1
<1>5. PICK c \in Nat : c = d * k OBVIOUS
<1>6. x = p * c + r BY <1>1, <1>2, <1>4, <1>5
<1>7. (p * c + r) % p = r % p BY ModShift
<1> QED BY <1>1, <1>6, <1>7

\* The size packing adds up does not wrap around.
LEMMA NoWrap ==
  ASSUME NEW m \in Nat \ {0}, NEW s \in Nat, s < m, NEW t \in Nat, NEW a \in Nat \ {0}, NEW z \in Nat, t <= s + a - 1, z + a <= m,
         ~(((t % m) + z) % m < s)
  PROVE  ((t % m) + z) % m = t + z
<1>1. CASE t < m
  <2>1. t % m = t BY <1>1, ModSmall
  <2>2. PICK x \in Nat : x = t + z OBVIOUS
  <2>3. CASE x < m BY <2>1, <2>2, <2>3, ModSmall
  <2>4. CASE ~(x < m)
    <3>1. m <= x /\ x < m + m BY <1>1, <2>2, <2>4
    <3>2. x % m = x - m BY <3>1, ModSmall
    <3>3. x - m < s BY <2>2
    <3> QED BY <2>1, <2>2, <3>2, <3>3
  <2> QED BY <2>3, <2>4
<1>2. CASE ~(t < m)
  <2>1. m <= t /\ t < m + m BY <1>2
  <2>2. t % m = t - m BY <2>1, ModSmall
  <2>3. PICK x \in Nat : x = (t - m) + z BY <2>1
  <2>4. x < s BY <2>3
  <2>5. x % m = x BY <2>4, ModSmall
  <2> QED BY <2>2, <2>3, <2>4, <2>5
<1> QED BY <1>1, <1>2

\* The numbers of a round: a segment that joins ends where aligning and adding
\* its size says; before a cut only the rest of a paragraph remains.
LEMMA RoundIs ==
  ASSUME Known, PackInv, Sizes, pack.size \in Nat, pack.size < Max32, Lay!PackSegment, ~Lay!Alone(pack.at + 1)
  PROVE  LET i == pack.at + 1
             t == Lay!AlignUp(pack.size, segs[i].align)
             limit == IF pack.start = 0 THEN Lay!SetSegType(i) ELSE pack.limit IN
         /\ Sizes' /\ i \in Lay!Placed /\ t \in Nat
         /\ \/ /\ Becomes(IF pack.start = 0 THEN i ELSE pack.start, pack.num + 1) /\ group' = group
               /\ pack.start # 0 => Lay!CanPack(pack.start, i)
               /\ pack'.size = t + segs[i].size /\ ~(t + segs[i].size >= limit) /\ pack'.limit = limit /\ t + segs[i].size < Max32
            \/ /\ Becomes(i, 1) /\ (IF pack.num # 0 THEN Lay!Packed(pack.start, pack.num) ELSE group' = group)
               /\ pack'.size = (t % Frame) + segs[i].size /\ pack'.limit = Lay!SetSegType(i)
<1> DEFINE i == pack.at + 1
           t == Lay!AlignUp(pack.size, segs[i].align)
           limit == IF pack.start = 0 THEN Lay!SetSegType(i) ELSE pack.limit
           first == IF pack.start = 0 THEN i ELSE pack.start
           p == IF pack.start = 0 THEN [pack EXCEPT !.start = i, !.limit = Lay!SetSegType(i)] ELSE pack
           aligned == t % Max32
           newSize == (aligned + segs[i].size) % Max32
           cut == newSize >= p.limit \/ newSize < p.size \/ p.lastseg \/ ~Lay!CanPack(p.start, i)
<1>1. {"at", "start", "num", "size", "limit", "lastseg"} \subseteq DOMAIN pack BY DEF PackInv, Sizes
<1>2. p.start = first /\ p.num = pack.num /\ p.at = pack.at /\ p.size = pack.size /\ p.limit = limit
      /\ {"at", "start", "num", "size", "limit", "lastseg"} \subseteq DOMAIN p BY <1>1
<1>3. /\ pack' = IF cut THEN [p EXCEPT !.at = i, !.start = i, !.num = 1, !.size = Lay!CutSize(aligned, i),
                                    !.limit = Lay!SetSegType(i), !.lastseg = segs[i].last]
                  ELSE [p EXCEPT !.at = i, !.num = @ + 1, !.size = newSize, !.lastseg = @ \/ segs[i].last]
      /\ IF cut /\ p.num # 0 THEN Lay!Packed(p.start, p.num) ELSE UNCHANGED <<group, groups, dataGroups>>
  BY DEF Lay!PackSegment
<1>4. pack.start = 0 => pack.num = 0
  <2>1. pack.start = 0 => Waiting = {} BY DEF InPack, Waiting
  <2>2. Cardinality({}) = 0 BY FS_EmptySet
  <2> QED BY <2>1, <2>2 DEF PackInv
<1>5. i \in Lay!All /\ i \in Lay!Placed
  <2>1. pack.at < Len(segs) /\ pack.at \in Nat /\ Len(segs) \in Nat BY InputFacts DEF Lay!PackSegment, PackInv, Known
  <2> QED BY <2>1, SizeFacts DEF Lay!Placed, Lay!All
<1>6. /\ segs[i].size \in Nat /\ segs[i].align \in Nat \ {0} /\ segs[i].size + segs[i].align + Para <= Max32
      /\ Max32 \in Nat \ {0} /\ Para \in Nat \ {0} /\ Max32 % Para = 0 /\ Frame \in Nat \ {0}
  BY <1>5, SizeFacts
<1>7. t \in Nat /\ t <= pack.size + segs[i].align - 1 BY <1>6, AlignUpRight, AlignBounds
<1>8. Lay!CutSize(aligned, i) = (t % Frame) + segs[i].size
  <2>1. CASE fmt = "real"
    <3>1. (t % Max32) % Para = t % Para BY <1>6, <1>7, ModMod
    <3> QED BY <2>1, <3>1 DEF Lay!CutSize, Frame
  <2>2. CASE fmt # "real"
    <3> HIDE DEF t
    <3>1. t % 1 = 0 BY <1>7
    <3> QED BY <2>2, <3>1 DEF Lay!CutSize, Frame
  <2> QED BY <2>1, <2>2
<1>9. ~cut => newSize = t + segs[i].size
  <2> SUFFICES ASSUME ~(newSize < pack.size) PROVE newSize = t + segs[i].size
    BY <1>2
  <2>1. segs[i].size + segs[i].align <= Max32 BY <1>6
  <2>2. PICK m \in Nat \ {0}, y \in Nat, a \in Nat \ {0}, z \in Nat, n \in Nat :
              m = Max32 /\ y = t /\ a = segs[i].align /\ z = segs[i].size /\ n = pack.size
    BY <1>6, <1>7
  <2>3. n < m /\ y <= n + a - 1 /\ z + a <= m /\ ~(((y % m) + z) % m < n) BY <1>7, <2>1, <2>2
  <2>4. ((y % m) + z) % m = y + z BY <2>3, NoWrap
  <2> HIDE DEF t, i
  <2> QED BY <2>2, <2>4
<1>10. ~cut => t + segs[i].size < Max32
  <2>1. PICK n \in Nat : n = aligned + segs[i].size
    <3> HIDE DEF t
    <3> QED BY <1>6, <1>7
  <2>2. n % Max32 < Max32 BY <1>6
  <2> HIDE DEF t, i, cut
  <2> QED BY <1>9, <2>1, <2>2
<1>11. ~cut => (pack.start # 0 => Lay!CanPack(pack.start, i)) /\ ~(newSize >= limit) BY <1>2
<1>12. cut => /\ Becomes(i, 1) /\ pack'.size = Lay!CutSize(aligned, i) /\ pack'.limit = Lay!SetSegType(i) /\ Sizes'
  <2> HIDE DEF p, cut, aligned, newSize
  <2>1. cut => pack' = [p EXCEPT !.at = i, !.start = i, !.num = 1, !.size = Lay!CutSize(aligned, i),
                                 !.limit = Lay!SetSegType(i), !.lastseg = segs[i].last] BY <1>3
  <2>2. cut => Becomes(i, 1) BY <1>2, <2>1 DEF Becomes
  <2>3. cut => pack'.size = Lay!CutSize(aligned, i) /\ pack'.limit = Lay!SetSegType(i) BY <1>2, <2>1
  <2>4. cut => Sizes' BY <1>2, <2>1 DEF Sizes
  <2> QED BY <2>2, <2>3, <2>4
<1>13. ~cut => Becomes(first, pack.num + 1) /\ pack'.size = newSize /\ pack'.limit = limit /\ Sizes'
  <2> HIDE DEF p, cut, aligned, newSize, first, limit
  <2>1. ~cut => pack' = [p EXCEPT !.at = i, !.num = p.num + 1, !.size = newSize, !.lastseg = p.lastseg \/ segs[i].last] BY <1>3
  <2> QED BY <1>2, <2>1 DEF Becomes, Sizes
<1>14. pack.num # 0 => first = pack.start BY <1>4
<1> HIDE DEF p, cut, aligned, newSize, t
<1>15. CASE cut
  <2>1. IF pack.num # 0 THEN Lay!Packed(pack.start, pack.num) ELSE group' = group BY <1>2, <1>3, <1>14, <1>15
  <2> QED BY <1>5, <1>7, <1>8, <1>12, <1>15, <2>1 DEF t
<1>16. CASE ~cut
  <2>1. group' = group BY <1>3, <1>16
  <2>2. ~(t + segs[i].size >= limit) BY <1>9, <1>11, <1>16
  <2> QED BY <1>5, <1>7, <1>9, <1>10, <1>11, <1>13, <1>16, <2>1, <2>2 DEF t
<1> QED BY <1>15, <1>16

-----------------------------------------------------------------------------
(* What packing predicts, round by round                                    *)

\* Segment i gets place p, in a group that begins with h: itself, or the one being made.
Goes(i, p, h) ==
  \/ /\ h = i /\ p < Frame /\ p % Frame = Lay!AlignUp(pack.size, segs[i].align) % Frame /\ (pack.start = 0 => p = 0)
  \/ /\ pack.start # 0 /\ h = pack.start /\ p = Lay!AlignUp(pack.size, segs[i].align)
     /\ p + segs[i].size < Lay!SetSegType(h) /\ group[h] = group[i] /\ segs[h].use32 = segs[i].use32

\* A segment that is packed is a member, of the group being made or of the next.
LEMMA Appended ==
  ASSUME Known, PackInv, NEW P, NEW H, Drawn(P, H), NEW i \in Lay!Placed, i = pack.at + 1, NEW p \in Nat, NEW h \in Lay!Placed,
         Goes(i, p, h)
  PROVE  \E Q, G : /\ Q \in [Lay!All -> Nat] /\ G \in [Lay!All -> Lay!All] /\ Q[i] = p /\ G[i] = h
                   /\ \A k \in Upto(i) : k = i \/ (k \in Upto(pack.at) /\ Q[k] = P[k] /\ G[k] = H[k])
                   /\ \A k \in Upto(i) : Member(Q, G, k)
<1>0. PICK Q, G : Q = [P EXCEPT ![i] = p] /\ G = [H EXCEPT ![i] = h] OBVIOUS
<1>1. P \in [Lay!All -> Nat] /\ H \in [Lay!All -> Lay!All] /\ \A k \in Upto(pack.at) : Member(P, H, k) BY DEF Drawn, Predicted
<1>2. Input /\ \A k \in Lay!Placed : k \in Lay!All /\ k \in Nat /\ segs[k].size \in Nat /\ segs[k].align \in Nat \ {0}
  BY InputFacts DEF Known
<1>3. Q \in [Lay!All -> Nat] /\ G \in [Lay!All -> Lay!All] /\ Q[i] = p /\ G[i] = h /\ \A k \in Lay!All : k # i => Q[k] = P[k] /\ G[k] = H[k]
  BY <1>0, <1>1, <1>2
<1>4. pack.at \in Nat /\ i \in Nat BY <1>2 DEF PackInv
<1>5. \A k \in Upto(i) : k = i \/ (k \in Upto(pack.at) /\ Q[k] = P[k] /\ G[k] = H[k]) BY <1>2, <1>3, <1>4 DEF Upto
<1>6. ASSUME NEW k \in Upto(i), k # i PROVE Member(Q, G, k)
  <2>1. k \in Upto(pack.at) /\ i \in Lay!All BY <1>2, <1>5, <1>6
  <2>2. k \in Lay!Placed /\ k <= pack.at /\ k \in Nat BY <1>2, <2>1 DEF Upto
  <2>3. k < i BY <1>4, <2>2
  <2>4. Member(P, H, k) BY <1>1, <2>1
  <2>5. Member([P EXCEPT ![i] = p], [H EXCEPT ![i] = h], k) BY <1>1, <1>2, <2>1, <2>2, <2>3, <2>4, MemberKept
  <2> QED BY <1>0, <2>5
<1>7. Member(Q, G, i)
  <2>1. CASE pack.start = 0
    <3>1. Upto(pack.at) = {} BY <2>1 DEF Drawn
    <3>2. ASSUME NEW j \in Lay!Placed PROVE ~(j < i)
      <4>1. ~(j <= pack.at) BY <3>1 DEF Upto
      <4>2. j \in Nat BY <1>2
      <4> QED BY <1>4, <4>1, <4>2
    <3>3. \A j \in Lay!Placed : ~Before(j, i) BY <3>2 DEF Before
    <3>4. h = i /\ p = 0 /\ 0 < Frame BY <2>1 DEF Goes
    <3> QED BY <1>2, <1>3, <3>3, <3>4 DEF Member
  <2>2. CASE pack.start # 0
    <3>1. PICK l \in Lay!Placed : Ends(P, H, l) BY <2>2 DEF Drawn
    <3>2. l \in Nat /\ l <= pack.at /\ H[l] = pack.start /\ pack.size = P[l] + segs[l].size /\ \A k \in Upto(pack.at) : k <= l
      BY <1>2, <3>1 DEF Ends, Upto
    <3>3. Before(l, i)
      <4>1. \A k \in Lay!Placed : k <= l \/ i <= k BY <1>2, <1>4, <3>2 DEF Upto
      <4> QED BY <1>4, <3>2, <4>1 DEF Before
    <3>4. \A j \in Lay!Placed : Before(j, i) => j = l BY <1>2, <3>3, OneBefore
    <3>5. l # i /\ Q[l] = P[l] /\ G[l] = H[l] /\ P[l] \in Nat BY <1>1, <1>2, <1>3, <1>4, <3>2
    <3>6. ~(\A j \in Lay!Placed : i <= j) BY <1>4, <3>2
    <3>7. pack.size \in Nat /\ pack.size <= Lay!AlignUp(pack.size, segs[i].align) /\ Lay!AlignUp(pack.size, segs[i].align) \in Nat
      BY <1>2, AlignUpRight DEF Drawn
    <3>8. \A j \in Lay!Placed : Before(j, i) => Lay!AlignUp(Q[j] + segs[j].size, segs[i].align) = Lay!AlignUp(pack.size, segs[i].align)
      BY <3>2, <3>4, <3>5
    <3>9. CASE h = i /\ p < Frame /\ p % Frame = Lay!AlignUp(pack.size, segs[i].align) % Frame
      <4>1. G[i] = i /\ Q[i] = p /\ i \in Lay!Placed /\ i <= i BY <1>3, <1>4, <3>9
      <4>2. \A j \in Lay!Placed : Before(j, i) => Q[i] % Frame = Lay!AlignUp(Q[j] + segs[j].size, segs[i].align) % Frame
        BY <3>8, <3>9, <4>1
      <4> QED BY <3>6, <3>9, <4>1, <4>2 DEF Member
    <3>10. CASE /\ h = pack.start /\ p = Lay!AlignUp(pack.size, segs[i].align)
                /\ p + segs[i].size < Lay!SetSegType(h) /\ group[h] = group[i] /\ segs[h].use32 = segs[i].use32
      <4>1. h \in Upto(pack.at) /\ h <= pack.at /\ h \in Nat BY <1>2, <3>10 DEF PackInv, Upto
      <4>2. H[h] = h BY <2>2, <3>10, <4>1 DEF Drawn
      <4>3. h # i /\ h <= i /\ G[h] = h /\ Q[h] = P[h] BY <1>2, <1>3, <1>4, <4>1, <4>2
      <4>4. P[h] + segs[h].size <= p
        <5>1. CASE h = l BY <3>2, <3>7, <3>10, <5>1
        <5>2. CASE h # l
          <6>1. Member(P, H, l) BY <1>1, <3>1 DEF Ends
          <6>2. P[h] + segs[h].size <= P[l] BY <3>2, <3>10, <5>2, <6>1 DEF Member
          <6>3. P[h] \in Nat /\ segs[h].size \in Nat /\ segs[l].size \in Nat BY <1>1, <1>2
          <6> QED BY <3>2, <3>5, <3>7, <3>10, <6>2, <6>3
        <5> QED BY <5>1, <5>2
      <4>5. \E j \in Lay!Placed : /\ Before(j, i) /\ G[j] = h /\ p = Lay!AlignUp(Q[j] + segs[j].size, segs[i].align)
        BY <3>2, <3>3, <3>5, <3>10
      <4> QED BY <1>3, <3>6, <3>8, <3>10, <4>3, <4>4, <4>5 DEF Member
    <3> QED BY <3>9, <3>10 DEF Goes
  <2> QED BY <2>1, <2>2
<1> QED BY <1>3, <1>5, <1>6, <1>7

\* When the group is made, what was packed together is together, and nothing else.
LEMMA AfterPack ==
  ASSUME Known, GroupInv, PackInv, NEW P, NEW H, Drawn(P, H),
         IF pack.num # 0 THEN Lay!Packed(pack.start, pack.num) ELSE group' = group
  PROVE  /\ \A k \in Upto(pack.at) : group'[H[k]] = group'[k]
         /\ \A j, k \in Upto(pack.at) : Lay!Auto(group'[j]) /\ group'[j] = group'[k] => H[j] = H[k]
         /\ \A j \in Lay!All : j > pack.at => group'[j] = group[j]
<1>1. /\ \A k \in Upto(pack.at) : Member(P, H, k)
      /\ \A j, k \in Upto(pack.at) : Lay!Auto(group[j]) /\ group[j] = group[k] => H[j] = H[k]
  BY DEF Drawn, Predicted
<1>2. Input /\ \A k \in Lay!Placed : k \in Lay!All /\ k \in Nat BY InputFacts DEF Known
<1>3. pack.at \in Nat BY DEF PackInv
<1>4. \A k \in Upto(pack.at) : H[k] \in Upto(pack.at) /\ H[H[k]] = H[k] /\ group[H[k]] = group[k]
  <2> SUFFICES ASSUME NEW k \in Upto(pack.at) PROVE H[k] \in Upto(pack.at) /\ H[H[k]] = H[k] /\ group[H[k]] = group[k]
    OBVIOUS
  <2>1. Member(P, H, k) BY <1>1
  <2>2. H[k] \in Lay!Placed /\ H[k] <= k /\ k <= pack.at /\ k \in Lay!Placed BY <2>1 DEF Member, Upto
  <2> QED BY <1>2, <1>3, <2>1, <2>2 DEF Member, Upto
<1>5. CASE pack.num = 0 BY <1>1, <1>4, <1>5
<1>6. CASE pack.num # 0
  <2>1. PICK new \in Nat : /\ Lay!Auto(new) /\ \A j \in Lay!All : group[j] # new
                           /\ \A j \in Lay!All : group'[j] = IF InPack(j) /\ group[j] = 0 THEN new ELSE group[j]
    BY <1>2, <1>6, PackOnly
  <2>2. pack.start # 0
    <3>1. pack.start = 0 => Waiting = {} BY DEF InPack, Waiting
    <3>2. Cardinality({}) = 0 BY FS_EmptySet
    <3> QED BY <1>6, <3>1, <3>2 DEF PackInv
  <2>3. \A j \in Upto(pack.at) : InPack(j) <=> H[j] = pack.start
    <3> SUFFICES ASSUME NEW j \in Upto(pack.at) PROVE InPack(j) <=> H[j] = pack.start
      OBVIOUS
    <3>1. j \in Lay!Placed /\ j \in Lay!All /\ j <= pack.at /\ ~segs[j].abs BY <1>2 DEF Upto, Lay!Placed
    <3>2. ~Lay!Alone(j) BY <3>1, SizeFacts
    <3> QED BY <2>2, <3>1, <3>2 DEF Drawn, InPack
  <2>4. \A k \in Upto(pack.at) : InPack(H[k]) <=> InPack(k) BY <1>4, <2>3
  <2>5. \A k \in Upto(pack.at) : k \in Lay!All /\ H[k] \in Lay!All BY <1>2, <1>4 DEF Upto
  <2>6. \A k \in Upto(pack.at) : group'[H[k]] = group'[k] BY <1>4, <2>1, <2>4, <2>5
  <2>7. \A j, k \in Upto(pack.at) : Lay!Auto(group'[j]) /\ group'[j] = group'[k] => H[j] = H[k]
    <3> SUFFICES ASSUME NEW j \in Upto(pack.at), NEW k \in Upto(pack.at), Lay!Auto(group'[j]), group'[j] = group'[k] PROVE H[j] = H[k]
      OBVIOUS
    <3>1. CASE InPack(j) /\ group[j] = 0
      <4>1. group'[k] = new BY <2>1, <2>5, <3>1
      <4>2. InPack(k) BY <2>1, <2>5, <4>1
      <4> QED BY <2>3, <3>1, <4>2
    <3>2. CASE ~(InPack(j) /\ group[j] = 0)
      <4>1. group'[j] = group[j] BY <2>1, <2>5, <3>2
      <4>2. group'[k] # new BY <2>1, <2>5, <4>1
      <4>3. group'[k] = group[k] BY <2>1, <2>5, <4>2
      <4> QED BY <1>1, <4>1, <4>3
    <3> QED BY <3>1, <3>2
  <2>8. \A j \in Lay!All : j > pack.at => ~InPack(j) BY <1>3 DEF InPack, Lay!All
  <2> QED BY <2>1, <2>6, <2>7, <2>8
<1> QED BY <1>5, <1>6

\* Before the first round nothing is packed.
LEMMA DrawStart == ASSUME Known, Lay!Init PROVE \E P, H : Drawn(P, H)
<1> DEFINE P == [j \in Lay!All |-> 0]
           H == [j \in Lay!All |-> j]
<1>1. PICK b \in BOOLEAN : pack = [at |-> 0, start |-> 0, num |-> 0, size |-> 0, limit |-> 0, lastseg |-> b] BY DEF Lay!Init
<1>2. pack.at = 0 /\ pack.start = 0 /\ pack.size = 0 /\ Sizes BY <1>1 DEF Sizes
<1>3. \A k \in Lay!All : k \in Nat /\ k # 0 BY InputFacts DEF Known, Lay!All
<1>4. Upto(0) = {} BY <1>3, InputFacts DEF Upto, Known
<1>5. P \in [Lay!All -> Nat] /\ H \in [Lay!All -> Lay!All] OBVIOUS
<1>6. \A j \in Lay!All : ~Lay!Auto(group[j]) /\ ~InPack(j) BY <1>2 DEF Lay!Init, Lay!Auto, Lay!UserGroup, InPack
<1>7. 0 < Max32 BY SizeFacts
<1> HIDE DEF P, H
<1>8. Predicted(P, H, 0) BY <1>4, <1>5 DEF Predicted
<1>9. Drawn(P, H) BY <1>2, <1>4, <1>6, <1>7, <1>8 DEF Drawn
<1> QED BY <1>9

\* An absolute segment has no place: what is packed stays as it is.
LEMMA DrawAlone ==
  ASSUME Known, GroupInv, PackInv, NEW P, NEW H, Drawn(P, H), Lay!PackSegment, Lay!Alone(pack.at + 1) PROVE Drawn(P, H)'
<1> DEFINE i == pack.at + 1
<1>1. /\ fmt' = fmt /\ segs' = segs /\ packLimit' = packLimit /\ Lay!All' = Lay!All /\ Lay!Placed' = Lay!Placed
      /\ UNCHANGED Lay!input /\ Lay!Packed(i, 1) /\ pack' = [pack EXCEPT !.at = i]
  BY DEF Lay!PackSegment, Lay!input, Lay!All, Lay!Placed
<1>2. Input /\ \A k \in Lay!Placed : k \in Lay!All /\ k \in Nat BY InputFacts DEF Known
<1>3. pack.at \in Nat /\ i \in Lay!All /\ \A j \in Lay!All : j \in Nat BY <1>2, InputFacts DEF Lay!PackSegment, PackInv, Lay!All
<1>4. i \notin Lay!Placed BY <1>3, SizeFacts DEF Lay!Placed
<1>5. Lay!Counted(i, group[i], 1) = {i} BY <1>2, <1>3, CountedOne
<1>6. \A j \in Lay!All \ {i} : group'[j] = group[j]
  <2>1. \A j \in Lay!All \ Lay!Counted(i, group[i], 1) : group'[j] = group[j] BY <1>1, <1>2, <1>3, AfterPacked
  <2> QED BY <1>5, <2>1
<1>7. Sizes /\ {"at", "start", "num"} \subseteq DOMAIN pack BY DEF Drawn, PackInv
<1>8. /\ pack'.at = i /\ pack'.start = pack.start /\ pack'.size = pack.size /\ pack'.limit = pack.limit
      /\ {"size", "limit", "lastseg"} \subseteq DOMAIN pack'
  BY <1>1, <1>7 DEF Sizes
<1> HIDE DEF i
<1>9. i = pack.at + 1 BY DEF i
<1>10. \A k \in Lay!Placed : k <= i <=> k <= pack.at
  <2> SUFFICES ASSUME NEW k \in Lay!Placed PROVE k <= i <=> k <= pack.at
    OBVIOUS
  <2>1. k \in Nat /\ k # i BY <1>2, <1>4
  <2> QED BY <1>3, <1>9, <2>1
<1>11. Upto(i) = Upto(pack.at) BY <1>10 DEF Upto
<1>12. Upto(pack.at)' = Upto(pack.at) BY <1>1, <1>8, <1>11 DEF Upto
<1>13. \A k \in Lay!Placed : group'[k] = group[k] BY <1>2, <1>4, <1>6
<1>14. Predicted(P, H, pack.at) BY DEF Drawn
<1>15. \A k \in Upto(pack.at) : k \in Lay!Placed /\ H[k] \in Lay!Placed BY <1>14 DEF Predicted, Member, Upto
<1>16. ASSUME NEW k \in Upto(pack.at) PROVE Member(P, H, k)'
  <2>1. Member(P, H, k) /\ group'[H[k]] = group[H[k]] /\ group'[k] = group[k] BY <1>13, <1>14, <1>15 DEF Predicted
  <2> QED BY <1>1, <2>1, MemberSame
<1>17. Predicted(P, H, pack.at)'
  <2>1. P \in [Lay!All' -> Nat] /\ H \in [Lay!All' -> Lay!All'] BY <1>1, <1>14 DEF Predicted
  <2>2. \A j, k \in Upto(pack.at) : Lay!Auto(group'[j]) /\ group'[j] = group'[k] => H[j] = H[k]
    BY <1>13, <1>14, <1>15 DEF Predicted
  <2>3. \A k \in Upto(pack.at)' : Member(P, H, k)' BY <1>8, <1>12, <1>16
  <2>4. \A j, k \in Upto(pack.at)' : Lay!Auto(group'[j]) /\ group'[j] = group'[k] => H[j] = H[k] BY <1>8, <1>12, <2>2
  <2> QED BY <2>1, <2>3, <2>4 DEF Predicted, Lay!Auto, Lay!UserGroup
<1>18. \A j \in Lay!All : j > i => ~Lay!Auto(group'[j])
  <2> SUFFICES ASSUME NEW j \in Lay!All, j > i PROVE ~Lay!Auto(group'[j])
    OBVIOUS
  <2>1. j > pack.at /\ j # i BY <1>3, <1>9
  <2>2. group'[j] = group[j] BY <1>6, <2>1
  <2> QED BY <2>1, <2>2 DEF Drawn
<1>19. \A j \in Lay!All : InPack(j)' => ~Lay!Auto(group'[j])
  <2> SUFFICES ASSUME NEW j \in Lay!All, InPack(j)' PROVE ~Lay!Auto(group'[j])
    OBVIOUS
  <2>1. pack.start # 0 /\ pack.start <= j /\ j <= i /\ ~Lay!Alone(j) BY <1>1, <1>8 DEF InPack, Lay!Alone
  <2>2. j # i BY <1>9, <2>1
  <2>3. j <= pack.at BY <1>3, <1>9, <2>1, <2>2
  <2>4. group'[j] = group[j] /\ InPack(j) BY <1>6, <2>1, <2>2, <2>3 DEF InPack
  <2> QED BY <2>4 DEF Drawn
<1>20. pack.start # 0 => /\ pack.limit = Lay!SetSegType(pack.start) /\ pack.start \in Lay!Placed
                         /\ \A j \in Upto(pack.at) : pack.start <= j <=> H[j] = pack.start
                         /\ \E l \in Lay!Placed : Ends(P, H, l)
  BY DEF Drawn
<1>21. ASSUME pack.start # 0
       PROVE  /\ pack'.limit = Lay!SetSegType(pack.start)' /\ pack'.start \in Lay!Placed'
              /\ \A j \in Upto(pack.at)' : pack'.start <= j <=> H[j] = pack'.start
              /\ \E l \in Lay!Placed' : Ends(P, H, l)'
  <2>1. PICK l \in Lay!Placed : Ends(P, H, l) BY <1>20, <1>21
  <2>2. Ends(P, H, l)' BY <1>1, <1>8, <1>12, <2>1 DEF Ends
  <2>3. Lay!SetSegType(pack.start)' = Lay!SetSegType(pack.start) BY <1>1, <1>8 DEF Lay!SetSegType
  <2> QED BY <1>1, <1>8, <1>12, <1>20, <1>21, <2>2, <2>3
<1>22. pack.start = 0 => pack'.size = 0 /\ Upto(pack.at)' = {} BY <1>8, <1>12 DEF Drawn
<1>23. pack'.size \in Nat /\ pack'.size < Max32 BY <1>8 DEF Drawn
<1>24. /\ \A j \in Lay!All' : j > pack'.at => ~Lay!Auto(group[j])'
       /\ \A j \in Lay!All' : InPack(j)' => ~Lay!Auto(group[j])'
  BY <1>1, <1>8, <1>18, <1>19 DEF Lay!Auto, Lay!UserGroup
<1> QED BY <1>8, <1>17, <1>21, <1>22, <1>23, <1>24 DEF Drawn, Sizes

\* A segment that is packed joins what is being made or begins something new.
LEMMA DrawNew ==
  ASSUME Known, PackInv, NEW P, NEW H, Drawn(P, H), NEW i \in Lay!Placed, i = pack.at + 1, NEW p \in Nat, NEW h \in Lay!Placed,
         Goes(i, p, h),
         fmt' = fmt, segs' = segs, packLimit' = packLimit, Sizes', pack'.at = i, pack'.start = h, pack'.limit = Lay!SetSegType(h),
         pack'.size = p + segs[i].size, pack'.size < Max32,
         h # i => group' = group,
         \A k \in Upto(pack.at) : group'[H[k]] = group'[k],
         \A j, k \in Upto(pack.at) : Lay!Auto(group'[j]) /\ group'[j] = group'[k] => H[j] = H[k],
         \A j \in Lay!All : j > pack.at => group'[j] = group[j]
  PROVE  \E Q, G : Drawn(Q, G)'
<1>2. PICK Q, G :
      /\ Q \in [Lay!All -> Nat] /\ G \in [Lay!All -> Lay!All] /\ Q[i] = p /\ G[i] = h
      /\ \A k \in Upto(i) : k = i \/ (k \in Upto(pack.at) /\ Q[k] = P[k] /\ G[k] = H[k])
      /\ \A k \in Upto(i) : Member(Q, G, k)
  BY Appended
<1>3. Lay!All' = Lay!All /\ Lay!Placed' = Lay!Placed BY DEF Lay!All, Lay!Placed
<1>4. Input /\ \A k \in Lay!Placed : k \in Lay!All /\ k \in Nat /\ segs[k].size \in Nat BY InputFacts DEF Known
<1>5. pack.at \in Nat /\ i \in Nat /\ i # 0 /\ i \in Lay!All /\ h \in Nat /\ \A j \in Lay!All : j \in Nat
  BY <1>4, InputFacts DEF PackInv, Lay!All
<1>6. Upto(pack.at)' = Upto(i) BY <1>3 DEF Upto
<1>7. ~Lay!Auto(group[i]) /\ group'[i] = group[i] BY <1>5 DEF Drawn
<1>8. ASSUME NEW k \in Upto(i) PROVE Member(Q, G, k)'
  <2>1. group'[G[k]] = group'[k]
    <3>1. CASE k = i
      <4>1. CASE h = i BY <1>2, <3>1, <4>1
      <4>2. CASE h # i BY <1>2, <3>1, <4>2 DEF Goes
      <4> QED BY <4>1, <4>2
    <3>2. CASE k # i BY <1>2, <3>2
    <3> QED BY <3>1, <3>2
  <2> QED BY <1>2, <2>1, MemberSame
<1>9. \A j, k \in Upto(i) : Lay!Auto(group'[j]) /\ group'[j] = group'[k] => G[j] = G[k]
  <2> SUFFICES ASSUME NEW j \in Upto(i), NEW k \in Upto(i), Lay!Auto(group'[j]), group'[j] = group'[k] PROVE G[j] = G[k]
    OBVIOUS
  <2>1. j # i /\ k # i BY <1>7
  <2> QED BY <1>2, <2>1
<1>10. Predicted(Q, G, pack.at)'
  <2>1. \A k \in Upto(pack.at)' : Member(Q, G, k)' BY <1>6, <1>8
  <2>2. \A j, k \in Upto(pack.at)' : Lay!Auto(group'[j]) /\ group'[j] = group'[k] => G[j] = G[k] BY <1>6, <1>9
  <2>3. Q \in [Lay!All' -> Nat] /\ G \in [Lay!All' -> Lay!All'] BY <1>2, <1>3
  <2> QED BY <2>1, <2>2, <2>3 DEF Predicted, Lay!Auto, Lay!UserGroup
<1>11. \A j \in Lay!All : j > i => ~Lay!Auto(group'[j])
  <2> SUFFICES ASSUME NEW j \in Lay!All, j > i PROVE ~Lay!Auto(group'[j])
    OBVIOUS
  <2>1. j > pack.at BY <1>5
  <2> QED BY <2>1 DEF Drawn
<1>12. \A j \in Lay!All : InPack(j)' => ~Lay!Auto(group'[j])
  <2> SUFFICES ASSUME NEW j \in Lay!All, InPack(j)' PROVE ~Lay!Auto(group'[j])
    OBVIOUS
  <2>1. h <= j /\ j <= i /\ ~Lay!Alone(j) BY DEF InPack, Lay!Alone
  <2>2. CASE j = i BY <1>7, <2>2
  <2>3. CASE j # i
    <3>1. j <= pack.at /\ h # i
      <4>1. j \in Nat /\ j < i BY <1>5, <2>1, <2>3
      <4>2. h < i BY <1>5, <2>1, <4>1
      <4> QED BY <1>5, <4>1, <4>2
    <3>2. h = pack.start /\ pack.start # 0 /\ group' = group BY <3>1 DEF Goes
    <3>3. InPack(j) BY <2>1, <3>1, <3>2 DEF InPack
    <3> QED BY <3>2, <3>3 DEF Drawn
  <2> QED BY <2>2, <2>3
<1>13. \A j \in Upto(i) : h <= j <=> G[j] = h
  <2> SUFFICES ASSUME NEW j \in Upto(i) PROVE h <= j <=> G[j] = h
    OBVIOUS
  <2>1. CASE j = i
    <3>1. h <= i BY <1>5 DEF PackInv, Goes
    <3> QED BY <1>2, <2>1, <3>1
  <2>2. CASE j # i
    <3>1. j \in Upto(pack.at) /\ G[j] = H[j] BY <1>2, <2>2
    <3>2. CASE h = i
      <4>1. Member(P, H, j) /\ j <= pack.at /\ j \in Lay!Placed BY <3>1 DEF Drawn, Predicted, Upto
      <4>2. H[j] <= j /\ j \in Nat /\ H[j] \in Nat BY <1>4, <4>1 DEF Member
      <4> QED BY <1>5, <3>1, <3>2, <4>1, <4>2
    <3>3. CASE h # i BY <3>1, <3>3 DEF Drawn, Goes
    <3> QED BY <3>2, <3>3
  <2> QED BY <2>1, <2>2
<1>14. Ends(Q, G, i)'
  <2>1. i \in Upto(i) /\ \A k \in Upto(i) : k <= i BY <1>5 DEF Upto
  <2> QED BY <1>2, <1>6, <2>1 DEF Ends
<1>15. h # 0 BY <1>4, <1>5 DEF Lay!All
<1>16. Lay!SetSegType(pack.start)' = Lay!SetSegType(h) BY DEF Lay!SetSegType
<1>17. pack'.size \in Nat BY <1>4
<1>18. /\ \A j \in Lay!All' : j > pack'.at => ~Lay!Auto(group[j])'
       /\ \A j \in Lay!All' : InPack(j)' => ~Lay!Auto(group[j])'
  BY <1>3, <1>11, <1>12 DEF Lay!Auto, Lay!UserGroup
<1>19. /\ pack'.limit = Lay!SetSegType(pack.start)' /\ pack'.start \in Lay!Placed'
       /\ \A j \in Upto(pack.at)' : pack'.start <= j <=> G[j] = pack'.start
       /\ \E l \in Lay!Placed' : Ends(Q, G, l)'
  BY <1>3, <1>6, <1>13, <1>14, <1>16
<1>20. Drawn(Q, G)' BY <1>10, <1>15, <1>17, <1>18, <1>19 DEF Drawn
<1> QED BY <1>20

\* A round of AutoGroupSect keeps what packing has predicted.
LEMMA StepDraw ==
  ASSUME Known, GroupInv, PackInv, NEW P, NEW H, Drawn(P, H), Lay!PackSegment PROVE \E Q, G : Drawn(Q, G)'
<1>0. PICK i \in Nat : i = pack.at + 1 BY DEF PackInv
<1> DEFINE t == Lay!AlignUp(pack.size, segs[i].align)
           limit == IF pack.start = 0 THEN Lay!SetSegType(i) ELSE pack.limit
<1>1. fmt' = fmt /\ segs' = segs /\ packLimit' = packLimit BY DEF Lay!PackSegment, Lay!input
<1>2. CASE Lay!Alone(i) BY <1>0, <1>2, DrawAlone
<1>3. CASE ~Lay!Alone(i)
  <2>1. Sizes /\ pack.size \in Nat /\ pack.size < Max32 BY DEF Drawn
  <2>2. /\ Sizes' /\ i \in Lay!Placed /\ t \in Nat
        /\ \/ /\ Becomes(IF pack.start = 0 THEN i ELSE pack.start, pack.num + 1) /\ group' = group
              /\ pack.start # 0 => Lay!CanPack(pack.start, i)
              /\ pack'.size = t + segs[i].size /\ ~(t + segs[i].size >= limit) /\ pack'.limit = limit /\ t + segs[i].size < Max32
           \/ /\ Becomes(i, 1) /\ (IF pack.num # 0 THEN Lay!Packed(pack.start, pack.num) ELSE group' = group)
              /\ pack'.size = (t % Frame) + segs[i].size /\ pack'.limit = Lay!SetSegType(i)
    BY <1>0, <1>3, <2>1, RoundIs
  <2>3. i \in Lay!All BY <2>2, InputFacts DEF Known
  <2>4. /\ segs[i].size \in Nat /\ segs[i].align \in Nat \ {0} /\ segs[i].size + segs[i].align + Para <= Max32
        /\ Max32 \in Nat \ {0} /\ Para \in Nat \ {0} /\ Frame \in Nat \ {0} /\ Frame <= Para
        /\ \A j \in Lay!All : Lay!SetSegType(j) \in Int
    BY <2>3, SizeFacts
  <2>5. pack.start = 0 => t = 0 /\ Upto(pack.at) = {} BY <2>4, AlignBounds DEF Drawn
  <2>6. \A k \in Upto(pack.at) : group[H[k]] = group[k] BY DEF Drawn, Predicted, Member
  <2>7. \A j, k \in Upto(pack.at) : Lay!Auto(group[j]) /\ group[j] = group[k] => H[j] = H[k] BY DEF Drawn, Predicted
  <2> HIDE DEF t, limit
  <2>8. i = pack.at + 1 BY <1>0
  <2>9. t = Lay!AlignUp(pack.size, segs[i].align) BY DEF t
  <2>10. CASE /\ Becomes(IF pack.start = 0 THEN i ELSE pack.start, pack.num + 1) /\ group' = group
              /\ pack.start # 0 => Lay!CanPack(pack.start, i)
              /\ pack'.size = t + segs[i].size /\ ~(t + segs[i].size >= limit) /\ pack'.limit = limit /\ t + segs[i].size < Max32
    <3>1. pack'.at = i /\ pack'.start = (IF pack.start = 0 THEN i ELSE pack.start) BY <2>8, <2>10 DEF Becomes
    <3>2. CASE pack.start = 0
      <4>1. Goes(i, 0, i)
        <5>1. t = 0 /\ 0 < Frame BY <2>4, <2>5, <3>2
        <5> QED BY <2>9, <5>1 DEF Goes
      <4>2. pack'.size = 0 + segs[i].size /\ pack'.size < Max32 BY <2>4, <2>5, <2>10, <3>2
      <4>3. pack'.limit = Lay!SetSegType(i) BY <2>10, <3>2 DEF limit
      <4>4. pack'.start = i BY <3>1, <3>2
      <4>5. Upto(pack.at) = {} BY <2>5, <3>2
      <4>6. group' = group BY <2>10
      <4>7. \A k \in Upto(pack.at) : group'[H[k]] = group'[k] BY <4>5
      <4>8. \A j, k \in Upto(pack.at) : Lay!Auto(group'[j]) /\ group'[j] = group'[k] => H[j] = H[k] BY <4>5
      <4>9. \A j \in Lay!All : j > pack.at => group'[j] = group[j] BY <4>6
      <4> QED BY <1>1, <2>2, <2>8, <3>1, <4>1, <4>2, <4>3, <4>4, <4>6, <4>7, <4>8, <4>9, DrawNew
    <3>3. CASE pack.start # 0
      <4>1. pack.start \in Lay!Placed /\ pack.limit = Lay!SetSegType(pack.start) /\ limit = pack.limit BY <3>3 DEF Drawn, limit
      <4>2. pack.start \in Lay!All BY <4>1, InputFacts DEF Known
      <4>3. t + segs[i].size < Lay!SetSegType(pack.start) BY <2>2, <2>4, <2>10, <4>1, <4>2
      <4>4. group[pack.start] = group[i] /\ segs[pack.start].use32 = segs[i].use32 BY <2>10, <3>3 DEF Lay!CanPack
      <4>5. Goes(i, t, pack.start) BY <2>9, <3>3, <4>3, <4>4 DEF Goes
      <4>6. group' = group BY <2>10
      <4>7. \A k \in Upto(pack.at) : group'[H[k]] = group'[k] BY <2>6, <4>6
      <4>8. \A j, k \in Upto(pack.at) : Lay!Auto(group'[j]) /\ group'[j] = group'[k] => H[j] = H[k] BY <2>7, <4>6
      <4>9. \A j \in Lay!All : j > pack.at => group'[j] = group[j] BY <4>6
      <4>10. pack'.start = pack.start /\ pack'.limit = Lay!SetSegType(pack.start) /\ pack'.size = t + segs[i].size /\ pack'.size < Max32
        BY <2>10, <3>1, <3>3, <4>1
      <4>11. PICK h \in Lay!Placed : h = pack.start BY <4>1
      <4>12. PICK p \in Nat : p = t BY <2>2
      <4>13. Goes(i, p, h) BY <4>5, <4>11, <4>12
      <4>14. pack'.start = h /\ pack'.limit = Lay!SetSegType(h) /\ pack'.size = p + segs[i].size BY <4>10, <4>11, <4>12
      <4> QED BY <1>1, <2>2, <2>8, <3>1, <4>6, <4>7, <4>8, <4>9, <4>10, <4>13, <4>14, DrawNew
    <3> QED BY <3>2, <3>3
  <2>11. CASE /\ Becomes(i, 1) /\ (IF pack.num # 0 THEN Lay!Packed(pack.start, pack.num) ELSE group' = group)
              /\ pack'.size = (t % Frame) + segs[i].size /\ pack'.limit = Lay!SetSegType(i)
    <3>1. pack'.at = i /\ pack'.start = i BY <2>8, <2>11 DEF Becomes
    <3>2. PICK p \in Nat : p = t % Frame /\ p < Frame BY <2>2, <2>4
    <3>3. p % Frame = p BY <2>4, <3>2, ModSmall
    <3>4. pack.start = 0 => p = 0
      <4>1. 0 % Frame = 0 BY <2>4, ModSmall
      <4> QED BY <2>5, <3>2, <4>1
    <3>5. Goes(i, p, i) BY <2>9, <3>2, <3>3, <3>4 DEF Goes
    <3>6. pack'.size = p + segs[i].size /\ pack'.size < Max32 BY <2>4, <2>11, <3>2
    <3>7. /\ \A k \in Upto(pack.at) : group'[H[k]] = group'[k]
          /\ \A j, k \in Upto(pack.at) : Lay!Auto(group'[j]) /\ group'[j] = group'[k] => H[j] = H[k]
          /\ \A j \in Lay!All : j > pack.at => group'[j] = group[j]
      BY <2>11, AfterPack
    <3>8. pack'.limit = Lay!SetSegType(i) BY <2>11
    <3> QED BY <1>1, <2>2, <2>8, <3>1, <3>5, <3>6, <3>7, <3>8, DrawNew
  <2> QED BY <2>2, <2>10, <2>11
<1> QED BY <1>2, <1>3

\* When the last group is made, the prediction is about all segments.
LEMMA DrawLast ==
  ASSUME Known, GroupInv, PackInv, NEW P, NEW H, Drawn(P, H), Lay!PackLast PROVE Predicted(P, H, Len(segs))'
<1>1. /\ fmt' = fmt /\ segs' = segs /\ packLimit' = packLimit /\ pack.at = Len(segs)
      /\ IF pack.num # 0 THEN Lay!Packed(pack.start, pack.num) ELSE group' = group
  BY DEF Lay!PackLast, Lay!input
<1>2. Lay!All' = Lay!All /\ Lay!Placed' = Lay!Placed /\ Upto(Len(segs))' = Upto(pack.at)
  BY <1>1 DEF Lay!All, Lay!Placed, Upto
<1>3. /\ \A k \in Upto(pack.at) : group'[H[k]] = group'[k]
      /\ \A j, k \in Upto(pack.at) : Lay!Auto(group'[j]) /\ group'[j] = group'[k] => H[j] = H[k]
  BY <1>1, AfterPack
<1>4. P \in [Lay!All -> Nat] /\ H \in [Lay!All -> Lay!All] /\ \A k \in Upto(pack.at) : Member(P, H, k) BY DEF Drawn, Predicted
<1>5. ASSUME NEW k \in Upto(pack.at) PROVE Member(P, H, k)'
  <2>1. Member(P, H, k) /\ group'[H[k]] = group'[k] BY <1>3, <1>4
  <2> QED BY <1>1, <2>1, MemberSame
<1>6. \A k \in Upto(Len(segs))' : Member(P, H, k)' BY <1>2, <1>5
<1>7. \A j, k \in Upto(Len(segs))' : Lay!Auto(group'[j]) /\ group'[j] = group'[k] => H[j] = H[k] BY <1>2, <1>3
<1>8. P \in [Lay!All' -> Nat] /\ H \in [Lay!All' -> Lay!All'] BY <1>2, <1>4
<1> QED BY <1>6, <1>7, <1>8 DEF Predicted, Lay!Auto, Lay!UserGroup

\* It stays, as long as the groups do.
LEMMA PredictedStays ==
  ASSUME NEW P, NEW H, Predicted(P, H, Len(segs)), fmt' = fmt, segs' = segs, packLimit' = packLimit, group' = group
  PROVE  Predicted(P, H, Len(segs))'
<1>1. Lay!All' = Lay!All /\ Lay!Placed' = Lay!Placed /\ Upto(Len(segs))' = Upto(Len(segs)) BY DEF Lay!All, Lay!Placed, Upto
<1>2. ASSUME NEW k \in Upto(Len(segs)) PROVE Member(P, H, k)'
  <2>1. Member(P, H, k) BY DEF Predicted
  <2> QED BY <2>1, MemberSame
<1>3. \A k \in Upto(Len(segs))' : Member(P, H, k)' BY <1>1, <1>2
<1>4. P \in [Lay!All' -> Nat] /\ H \in [Lay!All' -> Lay!All'] BY <1>1 DEF Predicted
<1>5. \A j, k \in Upto(Len(segs))' : Lay!Auto(group'[j]) /\ group'[j] = group'[k] => H[j] = H[k] BY <1>1 DEF Predicted
<1> QED BY <1>3, <1>4, <1>5 DEF Predicted, Lay!Auto, Lay!UserGroup

\* The first of what was packed together is the first of the group.
LEMMA HeadIsFirst ==
  ASSUME Known, NEW P, NEW H, Predicted(P, H, Len(segs))
  PROVE  \A i \in Lay!Placed : Member(P, H, i) /\ (Lay!Auto(group[i]) => H[i] = Lay!First(group[i]))
<1>1. Input /\ Len(segs) \in Nat /\ \A i \in Lay!Placed : i \in Nat /\ i \in Lay!All BY InputFacts DEF Known
<1>2. Lay!Placed \subseteq Upto(Len(segs)) BY <1>1 DEF Upto, Lay!All
<1>3. \A i \in Lay!Placed : Member(P, H, i) BY <1>2 DEF Predicted
<1>4. ASSUME NEW i \in Lay!Placed, Lay!Auto(group[i]) PROVE H[i] = Lay!First(group[i])
  <2> DEFINE S == Lay!Leaders(group[i])
  <2>1. H[i] \in S BY <1>3 DEF Member, Lay!Leaders
  <2>2. ASSUME NEW j \in S PROVE H[i] <= j
    <3>1. j \in Lay!Placed /\ group[i] = group[j] BY DEF Lay!Leaders
    <3>2. H[i] = H[j] BY <1>2, <1>4, <3>1 DEF Predicted
    <3> QED BY <1>3, <3>1, <3>2 DEF Member
  <2>3. Lay!First(group[i]) \in S /\ \A j \in S : Lay!First(group[i]) <= j BY <2>1, <2>2 DEF Lay!First, Lay!Min
  <2>4. H[i] <= Lay!First(group[i]) /\ Lay!First(group[i]) <= H[i] BY <2>1, <2>2, <2>3
  <2>5. H[i] \in Nat /\ Lay!First(group[i]) \in Nat BY <1>1, <2>1, <2>3 DEF Lay!Leaders
  <2> QED BY <2>4, <2>5
<1> QED BY <1>3, <1>4

-----------------------------------------------------------------------------
(* Allocation follows the prediction                                        *)

\* What is aligned stays.
LEMMA AlignNone == ASSUME NEW a \in Nat \ {0}, NEW n \in Nat, n % a = 0 PROVE Lay!AlignUp(n, a) <= n
<1>1. PICK q \in Nat, u \in Nat : q = n \div a /\ u = (n + a - 1) \div a
  <2>1. PICK m \in Nat : m = n + a - 1 OBVIOUS
  <2>2. m \div a \in Nat /\ n \div a \in Nat OBVIOUS
  <2> QED BY <2>1, <2>2
<1>2. n = a * (n \div a) + (n % a) OBVIOUS
<1>3. n = a * q
  <2>1. a * q \in Nat OBVIOUS
  <2> QED BY <1>1, <1>2, <2>1
<1>4. Lay!AlignUp(n, a) = u * a /\ u * a <= n + a - 1 /\ u * a = a * u BY <1>1, AlignBounds DEF Lay!AlignUp
<1>5. CASE q < u
  <2>1. PICK d \in Nat : u = q + 1 + d BY <1>5
  <2>2. a * (q + 1 + d) = a * q + a + a * d /\ a * d \in Nat /\ a * q \in Nat OBVIOUS
  <2> QED BY <1>3, <1>4, <2>1, <2>2
<1>6. CASE u <= q
  <2>1. PICK d \in Nat : q = u + d BY <1>6
  <2>2. a * (u + d) = a * u + a * d /\ a * d \in Nat /\ a * u \in Nat OBVIOUS
  <2> QED BY <1>3, <1>4, <2>1, <2>2
<1> QED BY <1>5, <1>6

\* Two numbers with the same rest.
Alike(p, x, y) == x % p = y % p

\* The same rest stays the same rest.
LEMMA ModAdd ==
  ASSUME NEW p \in Nat \ {0}, NEW x \in Nat, NEW y \in Nat, NEW s \in Nat, Alike(p, x, y) PROVE Alike(p, x + s, y + s)
<1>1. PICK a \in Nat, b \in Nat, r \in Nat : a = x \div p /\ b = y \div p /\ r = x % p OBVIOUS
<1>2. x = p * (x \div p) + (x % p) /\ y = p * (y \div p) + (y % p) OBVIOUS
<1>3. PICK z \in Nat : z = r + s OBVIOUS
<1>4. x + s = p * a + z /\ y + s = p * b + z
  <2>1. p * a \in Nat /\ p * b \in Nat OBVIOUS
  <2>2. y % p = r BY <1>1 DEF Alike
  <2>3. x = p * a + r /\ y = p * b + r BY <1>1, <1>2, <2>2
  <2> QED BY <1>3, <2>1, <2>3
<1>5. (p * a + z) % p = z % p /\ (p * b + z) % p = z % p BY ModShift
<1> QED BY <1>4, <1>5 DEF Alike

\* Where an address is in its paragraph.
LEMMA LinearMod ==
  ASSUME Machine, NEW a \in Spot
  PROVE  Lay!Linear(a) % Para = a.off % Para /\ Lay!Normal(a).off = a.off % Para /\ Lay!Normal(a).off < Para
<1>1. PICK s \in Nat, o \in Nat, p \in Nat \ {0} : s = a.seg /\ o = a.off /\ p = Para BY DEF Spot, Machine
<1>2. (p * s + o) % p = o % p BY ModShift
<1>3. s * p = p * s OBVIOUS
<1>4. Lay!Linear(a) = p * s + o BY <1>1, <1>3 DEF Lay!Linear
<1>5. Lay!Normal(a).off = o % p BY <1>1 DEF Lay!Normal
<1>6. o % p < p OBVIOUS
<1> QED BY <1>1, <1>2, <1>4, <1>5, <1>6

\* The segment that was placed last.
Latest(i) == i \in DOMAIN addr /\ \A k \in DOMAIN addr : k <= i

\* In real mode a segment is where in a paragraph packing thought, and where in its
\* group; all of an automatic group has one frame.
RealFit(P) == fmt = "real" =>
  /\ \A i \in DOMAIN addr :
       /\ Lay!Linear(addr[i]) % Para = P[i] % Para
       /\ Lay!Auto(group[i]) => addr[i].off = P[i] /\ \A j \in DOMAIN addr : group[j] = group[i] => addr[j].seg = addr[i].seg
  /\ DOMAIN addr = {} => loc["code"] = [seg |-> 0, off |-> 0]
  /\ \A i : Latest(i) => loc["code"] = Lay!Grown(addr[i], segs[i].size)

\* In an NE file a group is not longer than packing thought.
FileFit(P) == fmt = "os2" =>
  /\ \A i \in DOMAIN addr :
       Lay!Auto(group[i]) /\ (\A k \in DOMAIN addr : group[k] = group[i] => k <= i) => total[group[i]] <= P[i] + segs[i].size
  /\ \A i \in Lay!Placed \ DOMAIN addr : (\A k \in DOMAIN addr : group[k] # group[i]) => total[group[i]] = 0

\* A segment that may be complained about.
Blamed(i) == ~Lay!Auto(group[i]) \/ segs[i].size + Para > Max16
SegFaults == \A e \in errors : \E i \in Lay!Placed : e = <<"segment too big", i>> /\ Blamed(i)

\* i is the next segment to be placed.
Upcoming(i) == /\ i \in Lay!Placed /\ i \notin DOMAIN addr
               /\ (\A j \in DOMAIN addr : j < i) /\ (\A j \in Lay!Placed : j < i => j \in DOMAIN addr)

\* The one before it was placed last.
LEMMA BeforeIsLatest ==
  ASSUME Known, AddrType, NEW i, Upcoming(i)
  PROVE  /\ DOMAIN addr = {} \/ \E j \in DOMAIN addr : Latest(j) /\ Before(j, i)
         /\ \A j : Before(j, i) => Latest(j)
<1>1. DOMAIN addr \subseteq Lay!Placed /\ \A j \in Lay!Placed : j \in Nat BY InputFacts DEF AddrType, Known
<1>2. i \in Nat /\ i \in Lay!Placed BY <1>1 DEF Upcoming
<1>3. ASSUME DOMAIN addr # {} PROVE \E j \in DOMAIN addr : Latest(j) /\ Before(j, i)
  <2>1. PICK S : S = DOMAIN addr OBVIOUS
  <2>2. S \in SUBSET Nat /\ S # {} /\ \A x \in S : x <= i
    <3>1. \A x \in DOMAIN addr : x \in Nat /\ x < i BY <1>1 DEF Upcoming
    <3>2. \A x \in DOMAIN addr : x <= i BY <1>2, <3>1
    <3> QED BY <1>3, <2>1, <3>1, <3>2
  <2>3. PICK j \in S : \A x \in S : x <= j BY <1>2, <2>2, Greatest
  <2>4. \A k \in Lay!Placed : k <= j \/ i <= k BY <1>1, <1>2, <2>1, <2>3 DEF Upcoming
  <2>5. Latest(j) /\ Before(j, i) BY <1>1, <1>2, <2>1, <2>3, <2>4 DEF Latest, Before, Upcoming
  <2> QED BY <2>1, <2>5
<1>4. ASSUME NEW j, Before(j, i) PROVE Latest(j)
  <2>1. j \in DOMAIN addr BY <1>4 DEF Before, Upcoming
  <2>2. \A k \in DOMAIN addr : k \in Lay!Placed /\ k \in Nat /\ k < i BY <1>1 DEF Upcoming
  <2>3. \A k \in DOMAIN addr : k <= j BY <1>2, <1>4, <2>2 DEF Before
  <2> QED BY <2>1, <2>3 DEF Latest
<1> QED BY <1>3, <1>4

\* Real mode: the next segment gets the place packing thought.
LEMMA RealPlaceFit ==
  ASSUME Known, AllocInv, fmt = "real", NEW P, NEW H, Predicted(P, H, Len(segs)), RealFit(P), NEW i, Upcoming(i)
  PROVE  /\ Lay!Linear(Place(i).at) % Para = P[i] % Para /\ Place(i).next = Lay!Grown(Place(i).at, segs[i].size)
         /\ Lay!Auto(group[i]) => Place(i).at.off = P[i] /\ \A j \in DOMAIN addr : group[j] = group[i] => addr[j].seg = Place(i).at.seg
         /\ Lay!SegErrors(i, Place(i).low) \cup Lay!SegErrors(i, Place(i).next) # {} => Blamed(i)
<1> DEFINE al == Lay!Aligned(IF Lay!FreshFrame(i) THEN Lay!Normal(loc["code"]) ELSE loc["code"], i)
           at == IF Lay!FreshFrame(i) THEN Lay!Normal(al) ELSE al
<1>1. Input /\ Machine /\ AddrType /\ Sorted /\ Frame = Para BY DEF Known, Input, AllocInv, Frame
<1>2. i \in Lay!Placed /\ i \in Lay!All /\ i \in Nat /\ \A j \in Lay!Placed : j \in Lay!All /\ j \in Nat
  BY <1>1, InputFacts DEF Upcoming
<1>3. /\ segs[i].size \in Nat /\ segs[i].align \in Nat \ {0} /\ Para \in Nat \ {0} /\ Para % segs[i].align = 0 /\ segs[i].base = 0
      /\ Max16 \in Nat /\ Para <= Max16
  BY <1>1, <1>2, SizeFacts, InputFacts DEF Known, Usual
<1>4. \A j \in DOMAIN addr : j \in Lay!Placed /\ addr[j] \in Spot /\ segs[j].size \in Nat BY <1>1, InputFacts DEF AddrType
<1>5. PICK a \in Spot : a = loc["code"] BY <1>1 DEF AddrType
<1>6. Lay!Space(i) = "code" BY DEF Lay!Space
<1>7. From(i) = a BY <1>3, <1>5, <1>6 DEF From, Lay!Located
<1>8. Place(i) = [at |-> at, next |-> Lay!Grown(at, segs[i].size), low |-> al] BY <1>5, <1>7 DEF Place, Lay!RealSegment
<1>9. \A j \in Lay!Placed : Member(P, H, j) /\ P[j] \in Nat /\ (Lay!Auto(group[j]) => H[j] = Lay!First(group[j]))
  BY <1>2, HeadIsFirst DEF Predicted
<1>10. PICK z \in Nat : Lay!Linear(a) % Para = z % Para /\ P[i] % Para = Lay!AlignUp(z, segs[i].align) % Para
  <2>1. CASE DOMAIN addr = {}
    <3>1. a = [seg |-> 0, off |-> 0] BY <1>5, <2>1 DEF RealFit
    <3>2. Lay!Linear(a) = 0
      <4>1. 0 * Para + 0 = 0 BY <1>3
      <4> QED BY <3>1, <4>1 DEF Lay!Linear
    <3>3. \A j \in Lay!Placed : i <= j BY <1>2, <2>1 DEF Upcoming
    <3>4. P[i] = 0 BY <1>2, <1>9, <3>3 DEF Member
    <3>5. Lay!AlignUp(0, segs[i].align) = 0 BY <1>3, AlignBounds
    <3> QED BY <3>2, <3>4, <3>5
  <2>2. CASE DOMAIN addr # {}
    <3>1. PICK j \in DOMAIN addr : Latest(j) /\ Before(j, i) BY <1>1, <2>2, BeforeIsLatest
    <3>2. a = Lay!Grown(addr[j], segs[j].size) /\ Lay!Linear(addr[j]) % Para = P[j] % Para BY <1>5, <3>1 DEF RealFit
    <3>3. PICK x \in Nat, y \in Nat, s \in Nat : x = Lay!Linear(addr[j]) /\ y = P[j] /\ s = segs[j].size BY <1>1, <1>4, <1>9, LinearIs
    <3>4. Lay!Linear(a) = x + s BY <1>1, <1>4, <3>2, <3>3, GrownRight
    <3>5. (x + s) % Para = (y + s) % Para
      <4>1. PICK p \in Nat \ {0} : p = Para BY <1>3
      <4>2. Alike(p, x, y) BY <3>2, <3>3, <4>1 DEF Alike
      <4>3. Alike(p, x + s, y + s) BY <4>2, ModAdd
      <4> QED BY <4>1, <4>3 DEF Alike
    <3>6. P[i] % Para = Lay!AlignUp(P[j] + segs[j].size, segs[i].align) % Para BY <1>1, <1>2, <1>4, <1>9, <3>1 DEF Member
    <3>7. y + s \in Nat OBVIOUS
    <3> QED BY <3>3, <3>4, <3>5, <3>6, <3>7
  <2> QED BY <2>1, <2>2
<1>11. CASE Lay!FreshFrame(i)
  <2>1. PICK b \in Spot : b = Lay!Normal(a) BY <1>1, NormalRight
  <2>2. PICK c \in Spot : c = Lay!Aligned(b, i) /\ c.off = Lay!AlignUp(b.off, segs[i].align) BY <1>1, <1>3, AlignedRight
  <2>3. PICK d \in Spot : d = Lay!Normal(c) BY <1>1, NormalRight
  <2>4. al = c /\ at = d BY <1>5, <1>11, <2>1, <2>2, <2>3
  <2>5. b.off = z % Para /\ b.off < Para /\ b.off \in Nat
    <3>1. b.off = a.off % Para /\ b.off < Para /\ Lay!Linear(a) % Para = a.off % Para BY <1>1, <2>1, LinearMod
    <3> QED BY <1>10, <3>1 DEF Spot
  <2>6. c.off <= Para
    <3>1. Lay!AlignUp(b.off, segs[i].align) <= Lay!AlignUp(Para, segs[i].align) BY <1>3, <2>5, AlignMono
    <3>2. Lay!AlignUp(Para, segs[i].align) <= Para BY <1>3, AlignNone
    <3>3. Lay!AlignUp(b.off, segs[i].align) \in Nat /\ Lay!AlignUp(Para, segs[i].align) \in Nat BY <1>3, <2>5, AlignUpRight
    <3> QED BY <1>3, <2>2, <3>1, <3>2, <3>3
  <2>7. d.off = c.off % Para /\ d.off < Para /\ d.off \in Nat /\ Lay!Linear(d) % Para = d.off % Para
    BY <1>1, <2>3, LinearMod DEF Spot
  <2>8. d.off = P[i] % Para
    <3>1. Lay!AlignUp(z, segs[i].align) % Para = Lay!AlignUp(z % Para, segs[i].align) % Para BY <1>3, AlignMod
    <3> QED BY <1>10, <2>2, <2>5, <2>7, <3>1
  <2>9. Lay!Linear(d) % Para = P[i] % Para
    <3>1. d.off % Para = d.off BY <1>3, <2>7, ModSmall
    <3> QED BY <2>7, <2>8, <3>1
  <2>10. ASSUME Lay!Auto(group[i]) PROVE d.off = P[i] /\ \A j \in DOMAIN addr : group[j] # group[i]
    <3>1. H[i] = i BY <1>2, <1>9, <1>11, <2>10 DEF Lay!FreshFrame
    <3>2. P[i] < Para BY <1>1, <1>2, <1>9, <3>1 DEF Member
    <3>3. P[i] % Para = P[i] BY <1>2, <1>3, <1>9, <3>2, ModSmall
    <3>4. ASSUME NEW j \in DOMAIN addr, group[j] = group[i] PROVE FALSE
      <4>1. H[j] = H[i] BY <1>2, <1>4, <1>9, <2>10, <3>4
      <4>2. i <= j BY <1>4, <1>9, <3>1, <4>1 DEF Member
      <4>3. j < i /\ j \in Nat BY <1>2, <1>4 DEF Upcoming
      <4> QED BY <1>2, <4>2, <4>3
    <3> QED BY <2>8, <3>3, <3>4
  <2>11. Lay!SegErrors(i, c) = {}
    <3>1. c.off \in Nat BY DEF Spot
    <3>2. ~(c.off > Max16) BY <1>3, <2>6, <3>1
    <3> QED BY <3>2 DEF Lay!SegErrors
  <2>12. Lay!SegErrors(i, Lay!Grown(d, segs[i].size)) # {} => segs[i].size + Para > Max16
    <3>1. Lay!Grown(d, segs[i].size).off = d.off + segs[i].size BY <1>1, <1>3, GrownRight
    <3>2. Lay!SegErrors(i, Lay!Grown(d, segs[i].size)) # {} => d.off + segs[i].size > Max16 BY <3>1 DEF Lay!SegErrors
    <3> QED BY <1>3, <2>7, <3>2
  <2> HIDE DEF al, at
  <2> QED BY <1>8, <2>4, <2>9, <2>10, <2>11, <2>12 DEF Blamed
<1>12. CASE ~Lay!FreshFrame(i)
  <2>1. Lay!Auto(group[i]) /\ H[i] # i BY <1>2, <1>9, <1>12 DEF Lay!FreshFrame
  <2>2. PICK j \in Lay!Placed : Before(j, i) /\ H[j] = H[i] /\ P[i] = Lay!AlignUp(P[j] + segs[j].size, segs[i].align)
    BY <1>2, <1>9, <2>1 DEF Member
  <2>3. Latest(j) /\ j \in DOMAIN addr BY <1>1, <2>2, BeforeIsLatest DEF Latest
  <2>4. group[j] = group[i] BY <1>2, <1>9, <2>2 DEF Member
  <2>5. addr[j].off = P[j] /\ \A k \in DOMAIN addr : group[k] = group[j] => addr[k].seg = addr[j].seg
    BY <2>1, <2>3, <2>4 DEF RealFit
  <2>6. a = Lay!Grown(addr[j], segs[j].size) BY <1>5, <2>3 DEF RealFit
  <2>7. a.off = P[j] + segs[j].size /\ a.seg = addr[j].seg
    <3>1. a.off = addr[j].off + segs[j].size BY <1>1, <1>4, <2>3, <2>6, GrownRight
    <3>2. a.seg = addr[j].seg BY <1>4, <2>3, <2>6 DEF Lay!Grown, Spot
    <3> QED BY <2>5, <3>1, <3>2
  <2>8. PICK c \in Spot : c = Lay!Aligned(a, i) /\ c.off = P[i] /\ c.seg = a.seg
    <3>1. Lay!Aligned(a, i) \in Spot /\ Lay!Aligned(a, i).seg = a.seg /\ Lay!Aligned(a, i).off = Lay!AlignUp(a.off, segs[i].align)
      BY <1>1, <1>3, AlignedRight
    <3> QED BY <2>2, <2>7, <3>1
  <2>9. al = c /\ at = c BY <1>5, <1>12, <2>8
  <2>10. Lay!Linear(c) % Para = P[i] % Para BY <1>1, <2>8, LinearMod
  <2>11. \A k \in DOMAIN addr : group[k] = group[i] => addr[k].seg = c.seg BY <2>4, <2>5, <2>7, <2>8
  <2>12. segs[i].use32 \/ P[i] + segs[i].size < Max16
    <3>1. P[i] + segs[i].size < Lay!SetSegType(H[i]) /\ segs[H[i]].use32 = segs[i].use32 /\ H[i] \in Lay!All
      BY <1>2, <1>9, <2>1 DEF Member
    <3>2. Lay!SetSegType(H[i]) \in Int /\ (~segs[H[i]].use32 => Lay!SetSegType(H[i]) <= Max16) BY <3>1, SizeFacts
    <3>3. P[i] \in Nat BY <1>2, <1>9
    <3> QED BY <1>3, <3>1, <3>2, <3>3
  <2>13. Lay!SegErrors(i, c) = {} /\ Lay!SegErrors(i, Lay!Grown(c, segs[i].size)) = {}
    <3>1. Lay!Grown(c, segs[i].size).off = P[i] + segs[i].size
      <4>1. PICK n \in Nat : n = segs[i].size BY <1>3
      <4>2. Lay!Grown(c, n).off = c.off + n BY <1>1, GrownRight
      <4> QED BY <2>8, <4>1, <4>2
    <3>2. P[i] \in Nat BY <1>2, <1>9
    <3>3. ~segs[i].use32 => ~(c.off > Max16) /\ ~(Lay!Grown(c, segs[i].size).off > Max16) BY <1>3, <2>8, <2>12, <3>1, <3>2
    <3> QED BY <3>3 DEF Lay!SegErrors
  <2> HIDE DEF al, at
  <2> QED BY <1>8, <2>8, <2>9, <2>10, <2>11, <2>13
<1> QED BY <1>11, <1>12

\* NE: an automatic group does not get longer than packing thought.
LEMMA FilePlaceFit ==
  ASSUME Known, AllocInv, fmt = "os2", NEW P, NEW H, Predicted(P, H, Len(segs)), FileFit(P), NEW i, Upcoming(i), Lay!Auto(group[i])
  PROVE  /\ Place(i).next.off <= P[i] + segs[i].size /\ total[group[i]] <= P[i] + segs[i].size
         /\ Lay!SegErrors(i, Place(i).low) \cup Lay!SegErrors(i, Place(i).next) # {} => Blamed(i)
<1>1. Input /\ Machine /\ AddrType /\ Sorted /\ FileInv /\ InFile BY DEF Known, Input, AllocInv, InFile
<1>2. i \in Lay!Placed /\ i \in Lay!All /\ i \in Nat /\ \A j \in Lay!Placed : j \in Lay!All /\ j \in Nat
  BY <1>1, InputFacts DEF Upcoming
<1>3. segs[i].size \in Nat /\ segs[i].align \in Nat \ {0} /\ Para \in Nat \ {0} /\ Max16 \in Nat
  BY <1>1, <1>2, SizeFacts, InputFacts
<1>4. \A j \in DOMAIN addr : j \in Lay!Placed /\ segs[j].size \in Nat BY <1>1, InputFacts DEF AddrType
<1>5. \A j \in Lay!Placed : Member(P, H, j) /\ P[j] \in Nat BY <1>2, HeadIsFirst DEF Predicted
<1>6. group[i] \in Nat /\ group[i] \in Lay!Range(group) BY <1>1, <1>2 DEF Sorted, Lay!Range
<1>7. PICK t \in Nat : t = total[group[i]] BY <1>1, <1>6 DEF FileInv
<1>8. PICK u \in Nat : u = Lay!AlignUp(t, segs[i].align) BY <1>3, AlignUpRight
<1>9. Place(i).low.off = u /\ Place(i).next.off = u + segs[i].size
  <2>1. PICK a \in Spot : a = [seg |-> group[i], off |-> total[group[i]]] /\ a.off = t
    <3>1. [seg |-> group[i], off |-> t] \in Spot BY <1>6 DEF Spot
    <3> QED BY <1>7, <3>1
  <2>2. PICK c \in Spot : c = Lay!Aligned(a, i) /\ c.off = u BY <1>1, <1>3, <1>8, <2>1, AlignedRight
  <2>3. Place(i) = [at |-> c, next |-> Lay!Grown(c, segs[i].size), low |-> c] BY <2>1, <2>2 DEF Place, Lay!GroupSegment
  <2>4. Lay!Grown(c, segs[i].size).off = u + segs[i].size BY <1>1, <1>3, <2>2, GrownRight
  <2> QED BY <2>2, <2>3, <2>4
<1>10. (u + segs[i].size <= P[i] + segs[i].size /\ t <= P[i] + segs[i].size) /\ (~segs[i].use32 /\ u + segs[i].size > Max16 => Blamed(i))
  <2>1. CASE \A k \in DOMAIN addr : group[k] # group[i]
    <3>1. t = 0 BY <1>2, <1>7, <2>1 DEF FileFit, Upcoming
    <3>2. u = 0 BY <1>3, <1>8, <3>1, AlignBounds
    <3>3. P[i] \in Nat BY <1>2, <1>5
    <3>4. segs[i].size > Max16 => segs[i].size + Para > Max16 BY <1>3
    <3> QED BY <1>3, <3>1, <3>2, <3>3, <3>4 DEF Blamed
  <2>2. CASE \E k \in DOMAIN addr : group[k] = group[i]
    <3>1. PICK k \in DOMAIN addr : group[k] = group[i] BY <2>2
    <3>2. H[k] = H[i] /\ H[i] # i
      <4>1. H[k] = H[i] BY <1>2, <1>4, <1>1, <3>1, HeadIsFirst
      <4>2. H[k] <= k /\ k < i /\ k \in Nat /\ H[k] \in Nat BY <1>2, <1>4, <1>5 DEF Member, Upcoming
      <4> QED BY <1>2, <4>1, <4>2
    <3>3. PICK j \in Lay!Placed : Before(j, i) /\ H[j] = H[i] /\ P[i] = Lay!AlignUp(P[j] + segs[j].size, segs[i].align)
      BY <1>2, <1>5, <3>2 DEF Member
    <3>4. Latest(j) /\ j \in DOMAIN addr /\ group[j] = group[i] BY <1>1, <1>2, <1>5, <3>3, BeforeIsLatest DEF Latest, Member
    <3>5. t <= P[j] + segs[j].size BY <1>7, <3>4 DEF FileFit, Latest
    <3>6. PICK y \in Nat : y = P[j] + segs[j].size BY <1>4, <1>5, <3>4
    <3>7. u <= P[i] BY <1>3, <1>8, <3>3, <3>5, <3>6, AlignMono
    <3>8. t <= u BY <1>3, <1>8, AlignUpRight
    <3>9. P[i] \in Nat BY <1>2, <1>5
    <3>10. P[i] + segs[i].size < Lay!SetSegType(H[i]) /\ segs[H[i]].use32 = segs[i].use32 /\ H[i] \in Lay!All
      BY <1>2, <1>5, <3>2 DEF Member
    <3>11. Lay!SetSegType(H[i]) \in Int /\ (~segs[H[i]].use32 => Lay!SetSegType(H[i]) <= Max16) BY <3>10, SizeFacts
    <3>12. ~segs[i].use32 => ~(u + segs[i].size > Max16) BY <1>3, <3>7, <3>9, <3>10, <3>11
    <3> QED BY <1>3, <3>7, <3>8, <3>9, <3>12
  <2> QED BY <2>1, <2>2
<1>11. Lay!SegErrors(i, Place(i).low) \cup Lay!SegErrors(i, Place(i).next) # {} => ~segs[i].use32 /\ u + segs[i].size > Max16
  <2>1. u > Max16 => u + segs[i].size > Max16 BY <1>3
  <2> QED BY <1>9, <2>1 DEF Lay!SegErrors
<1> QED BY <1>7, <1>9, <1>10, <1>11

\* What AllocSeg complains about.
LEMMA AllocErrors ==
  ASSUME Known, AddrType, Lay!AllocSeg, NEW i, Upcoming(i)
  PROVE  errors' = errors \cup Lay!SegErrors(i, Place(i).low) \cup Lay!SegErrors(i, Place(i).next)
<1> DEFINE R == Lay!Placed \ DOMAIN addr
<1>1. \A j \in Lay!Placed : j \in Lay!All /\ j \in Nat BY InputFacts DEF Known
<1>2. i \in R /\ i \in Nat /\ i \in Lay!All BY <1>1 DEF Upcoming
<1>3. ASSUME NEW j \in R PROVE i <= j
  <2>1. j \in Nat /\ ~(j < i) BY <1>1 DEF Upcoming
  <2> QED BY <1>2, <2>1
<1>4. Lay!Min(R) \in R /\ \A j \in R : Lay!Min(R) <= j BY <1>2, <1>3 DEF Lay!Min
<1>5. Lay!Min(R) = i
  <2>1. i <= Lay!Min(R) /\ Lay!Min(R) <= i /\ Lay!Min(R) \in Nat BY <1>1, <1>2, <1>3, <1>4
  <2> QED BY <1>2, <2>1
<1>6. errors' = errors \cup Lay!SegErrors(Lay!Min(R), Place(Lay!Min(R)).low) \cup Lay!SegErrors(Lay!Min(R), Place(Lay!Min(R)).next)
                       \cup Lay!FixedErrors(loc[Lay!Space(Lay!Min(R))], Lay!Min(R))
  BY DEF Lay!AllocSeg, Place, From
<1>7. Lay!FixedErrors(loc[Lay!Space(i)], i) = {} BY <1>2 DEF Lay!FixedErrors, Known, Usual
<1> HIDE DEF R
<1> QED BY <1>5, <1>6, <1>7

\* Allocation puts each segment where packing thought.
LEMMA StepFit ==
  ASSUME Known, AllocInv, NEW P, NEW H, Predicted(P, H, Len(segs)), RealFit(P), FileFit(P), SegFaults, Lay!AllocSeg
  PROVE  RealFit(P)' /\ FileFit(P)' /\ SegFaults'
<1>1. Input /\ Machine /\ AddrType /\ Sorted /\ FileInv /\ fmt \in {"real", "os2"} BY DEF Known, Input, AllocInv, Usual
<1>2. group' = group /\ segs' = segs /\ fmt' = fmt /\ Lay!All' = Lay!All /\ Lay!Placed' = Lay!Placed
  BY DEF Lay!AllocSeg, Lay!input, Lay!All, Lay!Placed
<1>3. PICK i \in Lay!Placed :
         /\ i \notin DOMAIN addr /\ (\A j \in DOMAIN addr : j < i) /\ (\A j \in Lay!Placed : j < i => j \in DOMAIN addr)
         /\ DOMAIN addr' = DOMAIN addr \cup {i} /\ addr'[i] = Place(i).at /\ (\A j \in DOMAIN addr : addr'[j] = addr[j])
         /\ DOMAIN loc' = DOMAIN loc /\ loc'[Lay!Space(i)] = Place(i).next /\ (\A s \in DOMAIN loc \ {Lay!Space(i)} : loc'[s] = loc[s])
         /\ total' = IF InFile /\ (segs[i].size # 0 \/ ~Lay!Auto(group[i])) THEN [total EXCEPT ![group[i]] = Place(i).next.off] ELSE total
  BY <1>1, AllocFacts
<1>4. Upcoming(i) BY <1>3 DEF Upcoming
<1>5. \A j \in Lay!Placed : j \in Nat /\ j \in Lay!All /\ segs[j].size \in Nat BY <1>1, InputFacts
<1>6. DOMAIN addr \subseteq Lay!Placed BY <1>1 DEF AddrType
<1>7. errors' = errors \cup Lay!SegErrors(i, Place(i).low) \cup Lay!SegErrors(i, Place(i).next) BY <1>1, <1>4, AllocErrors
<1>8. \A g : Lay!Auto(g)' <=> Lay!Auto(g) BY DEF Lay!Auto, Lay!UserGroup
<1>9. Lay!SegErrors(i, Place(i).low) \cup Lay!SegErrors(i, Place(i).next) # {} => Blamed(i)
  <2>1. CASE fmt = "real" BY <1>4, <2>1, RealPlaceFit
  <2>2. CASE fmt = "os2"
    <3>1. CASE Lay!Auto(group[i]) BY <1>4, <2>2, <3>1, FilePlaceFit
    <3>2. CASE ~Lay!Auto(group[i]) BY <3>2 DEF Blamed
    <3> QED BY <3>1, <3>2
  <2> QED BY <1>1, <2>1, <2>2
<1>10. SegFaults'
  <2>1. \A j : Blamed(j)' <=> Blamed(j) BY <1>2 DEF Blamed, Lay!Auto, Lay!UserGroup
  <2>2. ASSUME NEW e \in errors' PROVE \E j \in Lay!Placed : e = <<"segment too big", j>> /\ Blamed(j)
    <3>1. CASE e \in errors BY <3>1 DEF SegFaults
    <3>2. CASE e \in Lay!SegErrors(i, Place(i).low) \cup Lay!SegErrors(i, Place(i).next)
      <4>1. e = <<"segment too big", i>> BY <3>2 DEF Lay!SegErrors
      <4>2. Blamed(i) BY <1>9, <3>2
      <4> QED BY <4>1, <4>2
    <3> QED BY <1>7, <3>1, <3>2
  <2> QED BY <1>2, <2>1, <2>2 DEF SegFaults
<1>11. ASSUME fmt = "real"
       PROVE  /\ \A j \in DOMAIN addr' :
                   /\ Lay!Linear(addr'[j]) % Para = P[j] % Para
                   /\ Lay!Auto(group[j]) => addr'[j].off = P[j] /\ \A k \in DOMAIN addr' : group[k] = group[j] => addr'[k].seg = addr'[j].seg
              /\ DOMAIN addr' # {}
              /\ \A j : Latest(j)' => loc'["code"] = Lay!Grown(addr'[j], segs[j].size)
  <2>1. /\ Lay!Linear(Place(i).at) % Para = P[i] % Para /\ Place(i).next = Lay!Grown(Place(i).at, segs[i].size)
        /\ Lay!Auto(group[i]) => Place(i).at.off = P[i] /\ \A j \in DOMAIN addr : group[j] = group[i] => addr[j].seg = Place(i).at.seg
    BY <1>4, <1>11, RealPlaceFit
  <2>2. Lay!Space(i) = "code" BY <1>11 DEF Lay!Space
  <2>3. \A j \in DOMAIN addr : /\ Lay!Linear(addr[j]) % Para = P[j] % Para
                               /\ Lay!Auto(group[j]) => addr[j].off = P[j] /\ \A k \in DOMAIN addr : group[k] = group[j] => addr[k].seg = addr[j].seg
    BY <1>11 DEF RealFit
  <2>4. ASSUME NEW j, Latest(j)' PROVE j = i
    <3>1. i <= j /\ j \in DOMAIN addr' BY <1>3, <2>4 DEF Latest
    <3>2. CASE j = i BY <3>2
    <3>3. CASE j \in DOMAIN addr
      <4>1. j < i /\ j \in Nat /\ i \in Nat BY <1>3, <1>5, <1>6, <3>3
      <4> QED BY <3>1, <4>1
    <3> QED BY <1>3, <3>1, <3>2, <3>3
  <2>5. loc'["code"] = Lay!Grown(addr'[i], segs[i].size) BY <1>3, <2>1, <2>2
  <2>6. ASSUME NEW j \in DOMAIN addr'
        PROVE  /\ Lay!Linear(addr'[j]) % Para = P[j] % Para
               /\ Lay!Auto(group[j]) => addr'[j].off = P[j] /\ \A k \in DOMAIN addr' : group[k] = group[j] => addr'[k].seg = addr'[j].seg
    <3>1. CASE j = i
      <4>1. addr'[j] = Place(i).at BY <1>3, <3>1
      <4> QED BY <1>3, <2>1, <3>1, <4>1
    <3>2. CASE j \in DOMAIN addr
      <4>1. addr'[j] = addr[j] BY <1>3, <3>2
      <4> QED BY <1>3, <2>1, <2>3, <3>2, <4>1
    <3> QED BY <1>3, <3>1, <3>2
  <2> QED BY <1>3, <2>4, <2>5, <2>6
<1>12. RealFit(P)'
  <2>1. \A a : Lay!Linear(a)' = Lay!Linear(a) BY DEF Lay!Linear
  <2> QED BY <1>2, <1>8, <1>11 DEF RealFit, Lay!Linear, Lay!Grown, Lay!Auto, Lay!UserGroup
<1>13. ASSUME fmt = "os2"
       PROVE  /\ \A j \in DOMAIN addr' :
                   Lay!Auto(group[j]) /\ (\A k \in DOMAIN addr' : group[k] = group[j] => k <= j) => total'[group[j]] <= P[j] + segs[j].size
              /\ \A j \in Lay!Placed \ DOMAIN addr' : (\A k \in DOMAIN addr' : group[k] # group[j]) => total'[group[j]] = 0
  <2>1. InFile /\ total \in [Lay!Range(group) -> Nat] BY <1>1, <1>13 DEF InFile, FileInv
  <2>2. \A k \in Lay!All : group[k] \in Lay!Range(group) BY <1>1 DEF Sorted, Lay!Range
  <2>3. \A g \in Lay!Range(group) \ {group[i]} : total'[g] = total[g] BY <1>3, <2>1
  <2>4. total'[group[i]] = IF segs[i].size # 0 \/ ~Lay!Auto(group[i]) THEN Place(i).next.off ELSE total[group[i]]
    <3>1. group[i] \in Lay!Range(group) BY <1>5, <2>2
    <3> QED BY <1>3, <2>1, <3>1
  <2>5. Lay!Auto(group[i]) => total'[group[i]] <= P[i] + segs[i].size
    <3>1. Lay!Auto(group[i]) => Place(i).next.off <= P[i] + segs[i].size /\ total[group[i]] <= P[i] + segs[i].size
      BY <1>4, <1>13, FilePlaceFit
    <3> QED BY <2>4, <3>1
  <2>6. ASSUME NEW j \in DOMAIN addr', Lay!Auto(group[j]), \A k \in DOMAIN addr' : group[k] = group[j] => k <= j
        PROVE  total'[group[j]] <= P[j] + segs[j].size
    <3>1. CASE group[j] = group[i]
      <4>1. i <= j BY <1>3, <2>6, <3>1
      <4>2. j = i \/ (j \in DOMAIN addr /\ j < i /\ j \in Nat) BY <1>3, <1>5, <1>6
      <4>3. j = i BY <1>5, <4>1, <4>2
      <4> QED BY <2>5, <2>6, <4>3
    <3>2. CASE group[j] # group[i]
      <4>1. j \in DOMAIN addr /\ j \in Lay!All BY <1>3, <1>5, <1>6, <3>2
      <4>2. total'[group[j]] = total[group[j]] BY <2>2, <2>3, <3>2, <4>1
      <4>3. \A k \in DOMAIN addr : group[k] = group[j] => k <= j BY <1>3, <2>6
      <4> QED BY <1>13, <2>6, <4>1, <4>2, <4>3 DEF FileFit
    <3> QED BY <3>1, <3>2
  <2>7. ASSUME NEW j \in Lay!Placed \ DOMAIN addr', \A k \in DOMAIN addr' : group[k] # group[j] PROVE total'[group[j]] = 0
    <3>1. group[j] # group[i] /\ j \notin DOMAIN addr /\ \A k \in DOMAIN addr : group[k] # group[j] BY <1>3, <2>7
    <3>2. total'[group[j]] = total[group[j]] BY <1>5, <2>2, <2>3, <3>1
    <3> QED BY <1>13, <3>1, <3>2 DEF FileFit
  <2> QED BY <2>6, <2>7
<1>14. FileFit(P)' BY <1>2, <1>8, <1>13 DEF FileFit, Lay!Auto, Lay!UserGroup
<1> QED BY <1>10, <1>12, <1>14

-----------------------------------------------------------------------------
(* Groups stay below their limits                                           *)

\* Where a group ends is where its last byte is.
LEMMA GroupEnd ==
  ASSUME Known, AllocInv, Lay!Placed = DOMAIN addr, fmt = "real", NEW g, Lay!Leaders(g) # {}
  PROVE  \E m, low \in Lay!Leaders(g) : Lay!CalcGrpAddr(g).total = Lay!Linear(addr[m]) + segs[m].size - Lay!Linear(addr[low])
<1> DEFINE S == Lay!Leaders(g)
           Starts == {Lay!Linear(addr[i]) : i \in S}
           Ends2 == {Lay!Linear(addr[i]) + segs[i].size : i \in S}
<1>1. Input /\ Machine /\ AddrType /\ MemInv /\ ~InFile BY DEF Known, Input, AllocInv, InFile
<1>2. \A i \in S : i \in DOMAIN addr /\ segs[i].size \in Nat /\ Lay!Linear(addr[i]) \in Nat
  BY <1>1, InputFacts, LinearIs DEF Lay!Leaders, AddrType
<1>3. PICK top \in Nat : top = Lay!Linear(loc["code"]) BY <1>1, LinearIs DEF AddrType
<1>4. \A i \in S : Lay!Linear(addr[i]) + segs[i].size <= top
  <2>1. \A i : Lay!Space(i) = "code" BY DEF Lay!Space
  <2> QED BY <1>1, <1>2, <1>3, <2>1 DEF MemInv
<1>5. PICK i0 : i0 \in S OBVIOUS
<1> HIDE DEF S
<1>6. Starts \in SUBSET Nat /\ Starts # {} /\ Ends2 \in SUBSET Nat /\ Ends2 # {} /\ \A x \in Ends2 : x <= top
  <2>1. \A i \in S : Lay!Linear(addr[i]) \in Nat /\ Lay!Linear(addr[i]) + segs[i].size \in Nat BY <1>2
  <2>2. Lay!Linear(addr[i0]) \in Starts /\ Lay!Linear(addr[i0]) + segs[i0].size \in Ends2 BY <1>5
  <2>3. \A x \in Starts : x \in Nat BY <2>1
  <2>4. \A x \in Ends2 : x \in Nat /\ x <= top BY <1>4, <2>1
  <2> HIDE DEF Starts, Ends2
  <2> QED BY <2>2, <2>3, <2>4
<1>7. Lay!Lowest(g) \in S
  <2>1. PICK m \in Starts : \A x \in Starts : m <= x
    <3> HIDE DEF Starts
    <3> QED BY <1>6, Least
  <2>2. PICK i \in S : m = Lay!Linear(addr[i]) BY <2>1
  <2>3. \A j \in S : Lay!Linear(addr[i]) <= Lay!Linear(addr[j]) BY <2>1, <2>2
  <2> QED BY <2>2, <2>3 DEF Lay!Lowest, S
<1>8. Lay!EndAddr(g) \in Ends2
  <2>1. PICK m \in Ends2 : \A x \in Ends2 : x <= m
    <3> HIDE DEF Ends2
    <3> QED BY <1>3, <1>6, Greatest
  <2>2. \A x \in Ends2 : m >= x
    <3> HIDE DEF Ends2
    <3> QED BY <1>6, <2>1
  <2>3. Lay!EndAddr(g) = Lay!Max(Ends2) BY DEF Lay!EndAddr, S
  <2>4. Lay!Max(Ends2) \in Ends2
    <3> HIDE DEF Ends2
    <3> QED BY <2>1, <2>2 DEF Lay!Max
  <2> QED BY <2>3, <2>4
<1>9. PICK m \in S : Lay!EndAddr(g) = Lay!Linear(addr[m]) + segs[m].size BY <1>8
<1>10. Lay!CalcGrpAddr(g).total = Lay!EndAddr(g) - Lay!Linear(addr[Lay!Lowest(g)]) BY DEF Lay!CalcGrpAddr
<1>11. PICK low \in S : low = Lay!Lowest(g) BY <1>7
<1>12. Lay!CalcGrpAddr(g).total = Lay!Linear(addr[m]) + segs[m].size - Lay!Linear(addr[low])
  <2>1. PICK x \in Nat, y \in Nat, z \in Nat : x = Lay!Linear(addr[m]) /\ y = segs[m].size /\ z = Lay!Linear(addr[low]) BY <1>2
  <2>2. Lay!CalcGrpAddr(g).total = Lay!EndAddr(g) - z BY <1>10, <1>11, <2>1
  <2>3. Lay!EndAddr(g) = x + y BY <1>9, <2>1
  <2> QED BY <2>1, <2>2, <2>3
<1> QED BY <1>12 DEF S

\* An automatic group of several segments stays below its limit, of one segment
\* it is as long as that.
LEMMA TotalFits ==
  ASSUME Known, AllocInv, Lay!Placed = DOMAIN addr, NEW P, NEW H, Predicted(P, H, Len(segs)), RealFit(P), FileFit(P),
         NEW g, Lay!Auto(g), Lay!Leaders(g) # {}
  PROVE  LET t == IF fmt = "real" THEN Lay!CalcGrpAddr(g).total ELSE total[g] IN
         /\ Cardinality(Lay!Leaders(g)) > 1 => t < Lay!SetSegType(Lay!First(g))
         /\ fmt = "real" /\ ~(Cardinality(Lay!Leaders(g)) > 1) => \A i \in Lay!Leaders(g) : t = segs[i].size
<1> DEFINE t == IF fmt = "real" THEN Lay!CalcGrpAddr(g).total ELSE total[g]
           h == Lay!First(g)
           S == Lay!Leaders(g)
<1>1. Input /\ Machine /\ AddrType /\ Sorted /\ FileInv /\ fmt \in {"real", "os2"} BY DEF Known, Input, AllocInv, Usual
<1>2. \A j \in Lay!Placed : j \in Nat /\ j \in Lay!All /\ segs[j].size \in Nat BY <1>1, InputFacts
<1>3. \A j \in S : j \in Lay!Placed /\ group[j] = g BY DEF Lay!Leaders
<1>4. \A j \in S : Member(P, H, j) /\ P[j] \in Nat /\ H[j] = h
  <2>1. \A j \in Lay!Placed : Member(P, H, j) /\ (Lay!Auto(group[j]) => H[j] = Lay!First(group[j])) BY HeadIsFirst
  <2>2. \A j \in Lay!All : P[j] \in Nat BY DEF Predicted
  <2> HIDE DEF S
  <2>3. \A j \in S : Lay!Auto(group[j]) /\ Lay!First(group[j]) = h BY <1>3
  <2> HIDE DEF h
  <2> QED BY <1>2, <1>3, <2>1, <2>2, <2>3
<1>5. h \in S BY <1>1, FirstIs
<1>6. \E m \in S : t <= P[m] + segs[m].size /\ t \in Int
  <2>1. CASE fmt = "real"
    <3>1. PICK m \in S, low \in S : Lay!CalcGrpAddr(g).total = Lay!Linear(addr[m]) + segs[m].size - Lay!Linear(addr[low])
      BY <2>1, GroupEnd
    <3>2. addr[m].off = P[m] /\ addr[low].off = P[low] /\ addr[m].seg = addr[low].seg /\ addr[m] \in Spot /\ addr[low] \in Spot
      BY <1>1, <1>3, <2>1 DEF RealFit, AddrType
    <3>3. PICK s \in Nat : s = addr[m].seg * Para
      <4>1. addr[m].seg \in Nat /\ Para \in Nat BY <1>1, <3>2 DEF Spot, Machine
      <4>2. addr[m].seg * Para \in Nat BY <4>1
      <4> QED BY <4>2
    <3>4. Lay!Linear(addr[m]) = s + P[m] /\ Lay!Linear(addr[low]) = s + P[low] BY <3>2, <3>3 DEF Lay!Linear
    <3>5. P[m] \in Nat /\ P[low] \in Nat /\ segs[m].size \in Nat BY <1>2, <1>3, <1>4
    <3>6. t = s + P[m] + segs[m].size - (s + P[low]) BY <2>1, <3>1, <3>4
    <3>7. t <= P[m] + segs[m].size /\ t \in Int
      <4>1. PICK x \in Nat, y \in Nat, z \in Nat : x = P[m] /\ y = P[low] /\ z = segs[m].size BY <3>5
      <4>2. s + x + z - (s + y) <= x + z /\ s + x + z - (s + y) \in Int OBVIOUS
      <4> HIDE DEF t
      <4> QED BY <3>6, <4>1, <4>2
    <3> QED BY <3>7
  <2>2. CASE fmt = "os2"
    <3>1. S \in SUBSET Nat /\ (\A x \in S : x <= Len(segs)) /\ Len(segs) \in Nat BY <1>1, <1>2, <1>3, InputFacts DEF Lay!All
    <3>2. PICK m \in S : \A x \in S : x <= m
      <4> HIDE DEF S
      <4> QED BY <3>1, <1>5, Greatest
    <3>3. \A k \in DOMAIN addr : group[k] = group[m] => k <= m BY <1>3, <3>2 DEF Lay!Leaders
    <3>4. total[g] <= P[m] + segs[m].size BY <1>3, <2>2, <3>3 DEF FileFit
    <3>5. total[g] \in Nat
      <4>1. group[h] = g /\ h \in Lay!All BY <1>2, <1>3, <1>5
      <4>2. g \in Lay!Range(group) BY <1>1, <4>1 DEF Sorted, Lay!Range
      <4> QED BY <1>1, <2>2, <4>2 DEF FileInv, InFile
    <3> QED BY <2>2, <3>4, <3>5
  <2> QED BY <1>1, <2>1, <2>2
<1>7. PICK m \in S : t <= P[m] + segs[m].size /\ t \in Int BY <1>6
<1>8. ASSUME Cardinality(S) > 1 PROVE t < Lay!SetSegType(h)
  <2>1. \E i \in S : i # h
    <3> SUFFICES ASSUME \A i \in S : i = h PROVE FALSE
      OBVIOUS
    <3>1. S = {h} BY <1>5
    <3>2. Cardinality({h}) = 1 BY FS_Singleton
    <3> HIDE DEF S, h
    <3> QED BY <1>8, <3>1, <3>2
  <2>2. PICK i \in S : i # h BY <2>1
  <2>3. P[i] + segs[i].size < Lay!SetSegType(h) /\ P[h] + segs[h].size <= P[i] BY <1>4, <2>2 DEF Member
  <2>4. m # h => P[m] + segs[m].size < Lay!SetSegType(h) BY <1>4, <1>7 DEF Member
  <2>5. Lay!SetSegType(h) \in Int BY <1>2, <1>3, <1>5, SizeFacts DEF Known
  <2>6. P[i] \in Nat /\ P[h] \in Nat /\ P[m] \in Nat /\ segs[i].size \in Nat /\ segs[h].size \in Nat /\ segs[m].size \in Nat
    BY <1>2, <1>3, <1>4, <1>5, <1>7, <2>2
  <2> HIDE DEF t, h, S
  <2>7. PICK u \in Int, l \in Int : u = t /\ l = Lay!SetSegType(h) BY <1>7, <2>5
  <2>8. PICK a \in Nat, b \in Nat : a = P[m] /\ b = segs[m].size BY <2>6
  <2>9. PICK c \in Nat, d \in Nat : c = P[i] /\ d = segs[i].size BY <2>6
  <2>10. PICK e \in Nat, f \in Nat : e = P[h] /\ f = segs[h].size BY <2>6
  <2>11. u <= a + b BY <1>7, <2>7, <2>8
  <2>12. c + d < l /\ e + f <= c BY <2>3, <2>7, <2>9, <2>10
  <2>13. (m = h => a = e /\ b = f) /\ (m # h => a + b < l) BY <2>4, <2>7, <2>8, <2>10
  <2>14. u < l BY <2>11, <2>12, <2>13
  <2> QED BY <2>7, <2>14
<1>9. ASSUME fmt = "real", ~(Cardinality(S) > 1) PROVE \A i \in S : t = segs[i].size
  <2>1. IsFiniteSet(S)
    <3>1. S \in SUBSET Nat /\ (\A x \in S : x <= Len(segs)) /\ Len(segs) \in Nat BY <1>1, <1>2, <1>3, InputFacts DEF Lay!All
    <3> HIDE DEF S
    <3> QED BY <3>1, FS_BoundedSetOfNaturals
  <2>2. \A i \in S : i = h
    <3> SUFFICES ASSUME NEW i \in S, i # h PROVE FALSE
      OBVIOUS
    <3>1. {i, h} \in SUBSET S BY <1>5
    <3>2. Cardinality({i, h}) = 2
      <4>1. PICK a, b : a = i /\ b = h OBVIOUS
      <4>2. IsFiniteSet({a}) /\ Cardinality({a}) = 1 BY FS_Singleton
      <4>3. b \notin {a} BY <4>1
      <4>4. Cardinality({a} \cup {b}) = Cardinality({a}) + 1 BY <4>2, <4>3, FS_AddElement
      <4>5. {a} \cup {b} = {i, h} BY <4>1
      <4>6. Cardinality({a} \cup {b}) = 2 BY <4>2, <4>4
      <4> QED BY <4>5, <4>6
    <3>3. Cardinality({i, h}) <= Cardinality(S) /\ Cardinality(S) \in Nat
      <4> HIDE DEF S, h
      <4> QED BY <2>1, <3>1, FS_Subset, FS_CardinalityType
    <3> HIDE DEF S, h
    <3> QED BY <1>9, <3>2, <3>3
  <2>3. PICK n \in S, low \in S : Lay!CalcGrpAddr(g).total = Lay!Linear(addr[n]) + segs[n].size - Lay!Linear(addr[low])
    BY <1>9, GroupEnd
  <2>4. n = h /\ low = h BY <2>2
  <2>5. Lay!Linear(addr[h]) \in Nat /\ segs[h].size \in Nat BY <1>1, <1>2, <1>3, <1>5, LinearIs DEF AddrType
  <2>6. t = Lay!Linear(addr[h]) + segs[h].size - Lay!Linear(addr[h]) BY <1>9, <2>3, <2>4
  <2>7. t = segs[h].size
    <3> HIDE DEF t, h
    <3> QED BY <2>5, <2>6
  <2> QED BY <2>2, <2>7
<1> QED BY <1>8, <1>9

\* Nothing is complained about and nothing placed before AllocSeg.
Untouched == errors = {} /\ (fmt = "real" => loc["code"] = [seg |-> 0, off |-> 0])

\* What is drawn stays as long as nothing happens.
LEMMA DrawnStays ==
  ASSUME NEW P, NEW H, Drawn(P, H), fmt' = fmt, segs' = segs, packLimit' = packLimit, group' = group, pack' = pack
  PROVE  Drawn(P, H)'
<1>1. Lay!All' = Lay!All /\ Lay!Placed' = Lay!Placed /\ Upto(pack.at)' = Upto(pack.at) BY DEF Lay!All, Lay!Placed, Upto
<1>2. ASSUME NEW k \in Upto(pack.at) PROVE Member(P, H, k)'
  <2>1. Member(P, H, k) BY DEF Drawn, Predicted
  <2> QED BY <2>1, MemberSame
<1>3. Predicted(P, H, pack.at)'
  <2>1. \A k \in Upto(pack.at)' : Member(P, H, k)' BY <1>1, <1>2
  <2>2. P \in [Lay!All' -> Nat] /\ H \in [Lay!All' -> Lay!All'] BY <1>1 DEF Drawn, Predicted
  <2>3. \A j, k \in Upto(pack.at)' : Lay!Auto(group'[j]) /\ group'[j] = group'[k] => H[j] = H[k] BY <1>1 DEF Drawn, Predicted
  <2> QED BY <2>1, <2>2, <2>3 DEF Predicted, Lay!Auto, Lay!UserGroup
<1>4. \A j : InPack(j)' <=> InPack(j) BY DEF InPack, Lay!Alone
<1>5. \A l : Ends(P, H, l)' <=> Ends(P, H, l) BY <1>1 DEF Ends
<1>6. Lay!SetSegType(pack.start)' = Lay!SetSegType(pack.start) BY DEF Lay!SetSegType
<1>7. \A g : Lay!Auto(g)' <=> Lay!Auto(g) BY DEF Lay!Auto, Lay!UserGroup
<1>8. Sizes' BY DEF Drawn, Sizes
<1>9. pack'.size \in Nat /\ pack'.size < Max32 BY DEF Drawn
<1>10. /\ \A j \in Lay!All' : j > pack'.at => ~Lay!Auto(group[j])'
       /\ \A j \in Lay!All' : InPack(j)' => ~Lay!Auto(group[j])'
  BY <1>1, <1>4 DEF Drawn, Lay!Auto, Lay!UserGroup
<1>11. pack'.start = 0 => pack'.size = 0 /\ Upto(pack.at)' = {} BY <1>1 DEF Drawn
<1>12. pack'.start # 0 => /\ pack'.limit = Lay!SetSegType(pack.start)' /\ pack'.start \in Lay!Placed'
                          /\ \A j \in Upto(pack.at)' : pack'.start <= j <=> H[j] = pack'.start
                          /\ \E l \in Lay!Placed' : Ends(P, H, l)'
  BY <1>1, <1>5, <1>6 DEF Drawn
<1> QED BY <1>3, <1>8, <1>9, <1>10, <1>11, <1>12 DEF Drawn

\* CalcAddresses finds no automatic group over its limit, and complains about none
\* that is not too long by itself.
LEMMA CalcFits ==
  ASSUME Known, AllocInv, NEW P, NEW H, Predicted(P, H, Len(segs)), RealFit(P), FileFit(P), SegFaults, Lay!CalcAddresses
  PROVE  Lay!PackedFit'
<1>1. Input /\ Machine /\ AddrType /\ Sorted /\ fmt \in {"real", "os2"} BY DEF Known, Input, AllocInv, Usual
<1>2. /\ Lay!Placed = DOMAIN addr /\ grp' = [k \in DOMAIN groups |-> Summed(k)]
      /\ UNCHANGED <<Lay!input, group, groups>>
  BY <1>1, CalcFacts
<1>3. /\ fmt' = fmt /\ segs' = segs /\ packLimit' = packLimit /\ group' = group /\ groups' = groups
      /\ Lay!All' = Lay!All /\ Lay!Placed' = Lay!Placed /\ \A g : Lay!Leaders(g)' = Lay!Leaders(g)
  BY <1>2 DEF Lay!input, Lay!All, Lay!Placed, Lay!Leaders
<1>4. \A i : Lay!SetSegType(i)' = Lay!SetSegType(i) BY <1>3 DEF Lay!SetSegType
<1>5. \A g : Lay!First(g)' = Lay!First(g) BY <1>3 DEF Lay!First
<1>6. \A j \in Lay!Placed : j \in Nat /\ j \in Lay!All /\ segs[j].size \in Nat BY <1>1, InputFacts
<1>7. Para \in Nat \ {0} /\ Max16 \in Nat BY SizeFacts
<1>8. \A k \in DOMAIN groups : Lay!Leaders(groups[k]) # {} BY <1>1 DEF Sorted
<1>9. ASSUME NEW k \in DOMAIN groups, Lay!Auto(groups[k]), Lay!Cardinality(Lay!Leaders(groups[k])) > 1
      PROVE  grp'[k].total < Lay!SetSegType(Lay!First(groups[k]))
  <2>1. PICK g : g = groups[k] OBVIOUS
  <2>2. Cardinality(Lay!Leaders(g)) > 1 BY <1>9, <2>1, CardSame
  <2>3. grp'[k].total = Lay!Group(k).total BY <1>2 DEF Summed
  <2>4. Lay!Group(k).total = IF fmt = "real" THEN Lay!CalcGrpAddr(g).total ELSE total[g] BY <1>1, <2>1 DEF Lay!Group
  <2>5. (IF fmt = "real" THEN Lay!CalcGrpAddr(g).total ELSE total[g]) < Lay!SetSegType(Lay!First(g))
    BY <1>2, <1>8, <1>9, <2>1, <2>2, TotalFits
  <2> QED BY <2>1, <2>3, <2>4, <2>5
<1>10. ASSUME NEW e \in errors'
       PROVE  LET in == IF e[1] = "group too big" THEN Lay!Leaders(e[2]) ELSE {e[2]} IN
              (\E i \in in : ~Lay!Auto(group[i])) \/ (\E i \in in : segs[i].size + Para > Max16)
  <2>1. errors' = errors \cup Lay!GroupErrors BY DEF Lay!CalcAddresses
  <2>2. CASE e \in errors
    <3>1. PICK i \in Lay!Placed : e = <<"segment too big", i>> /\ Blamed(i) BY <2>2 DEF SegFaults
    <3>2. e[1] # "group too big" /\ e[2] = i BY <3>1
    <3> QED BY <3>1, <3>2 DEF Blamed
  <2>3. CASE e \in Lay!GroupErrors
    <3>1. PICK g \in Lay!Range(groups) : /\ e = <<"group too big", g>> /\ fmt = "real" /\ ~segs[Lay!First(g)].use32
                                         /\ Lay!CalcGrpAddr(g).total > Max16
      BY <2>3 DEF Lay!GroupErrors
    <3>2. e[1] = "group too big" /\ e[2] = g BY <3>1
    <3>3. Lay!Leaders(g) # {} BY <1>8 DEF Lay!Range
    <3>4. PICK h \in Lay!Leaders(g) : h = Lay!First(g) BY <1>1, <3>3, FirstIs
    <3>5. h \in Lay!Placed /\ group[h] = g BY DEF Lay!Leaders
    <3>6. CASE ~Lay!Auto(g) BY <3>2, <3>5, <3>6
    <3>7. CASE Lay!Auto(g)
      <4>1. /\ Cardinality(Lay!Leaders(g)) > 1 => Lay!CalcGrpAddr(g).total < Lay!SetSegType(h)
            /\ ~(Cardinality(Lay!Leaders(g)) > 1) => \A i \in Lay!Leaders(g) : Lay!CalcGrpAddr(g).total = segs[i].size
        BY <1>2, <3>1, <3>3, <3>4, <3>7, TotalFits
      <4>2. Lay!SetSegType(h) \in Int /\ Lay!SetSegType(h) <= Max16 BY <1>6, <3>1, <3>4, <3>5, SizeFacts
      <4>3. CASE Cardinality(Lay!Leaders(g)) > 1
        <5>1. Lay!CalcGrpAddr(g).total \in Int
          <6>1. PICK m \in Lay!Leaders(g), low \in Lay!Leaders(g) :
                  Lay!CalcGrpAddr(g).total = Lay!Linear(addr[m]) + segs[m].size - Lay!Linear(addr[low])
            BY <1>2, <3>1, <3>3, GroupEnd
          <6>2. m \in DOMAIN addr /\ low \in DOMAIN addr /\ segs[m].size \in Nat BY <1>2, <1>6 DEF Lay!Leaders
          <6>3. Lay!Linear(addr[m]) \in Nat /\ Lay!Linear(addr[low]) \in Nat BY <1>1, <6>2, LinearIs DEF AddrType
          <6> QED BY <6>1, <6>2, <6>3
        <5>2. PICK t \in Int, l \in Int : t = Lay!CalcGrpAddr(g).total /\ l = Lay!SetSegType(h) BY <4>2, <5>1
        <5>3. t < l /\ l <= Max16 BY <4>1, <4>2, <4>3, <5>2
        <5>4. t > Max16 BY <3>1, <5>2
        <5>5. FALSE BY <1>7, <5>2, <5>3, <5>4
        <5> QED BY <5>5
      <4>4. CASE ~(Cardinality(Lay!Leaders(g)) > 1)
        <5>1. segs[h].size > Max16 /\ segs[h].size \in Nat BY <1>6, <3>1, <3>5, <4>1, <4>4
        <5>2. segs[h].size + Para > Max16 BY <1>7, <5>1
        <5> QED BY <3>2, <5>2
      <4> QED BY <4>3, <4>4
    <3> QED BY <3>6, <3>7
  <2> QED BY <2>1, <2>2, <2>3
<1>11. \A g : Lay!Auto(g)' <=> Lay!Auto(g) BY DEF Lay!Auto, Lay!UserGroup
<1>12. \A k \in DOMAIN groups' : Lay!Auto(groups[k])' /\ Lay!Cardinality(Lay!Leaders(groups[k]))' > 1 =>
                                   grp'[k].total < Lay!SetSegType(Lay!First(groups[k]))'
  <2> SUFFICES ASSUME NEW k \in DOMAIN groups, Lay!Auto(groups'[k]), Lay!Cardinality(Lay!Leaders(groups[k]))' > 1
               PROVE  grp'[k].total < Lay!SetSegType(Lay!First(groups[k]))'
    BY <1>3 DEF Lay!Auto, Lay!UserGroup
  <2>1. PICK g : g = groups[k] /\ g = groups'[k] BY <1>3
  <2>2. Lay!Leaders(groups[k])' = Lay!Leaders(g) BY <1>3, <2>1 DEF Lay!Leaders
  <2>3. Lay!First(groups[k])' = Lay!First(g) BY <2>2 DEF Lay!First
  <2>4. Lay!SetSegType(Lay!First(groups[k]))' = Lay!SetSegType(Lay!First(g)) BY <1>3, <2>3 DEF Lay!SetSegType
  <2>5. Lay!Cardinality(Lay!Leaders(groups[k]))' = Lay!Cardinality(Lay!Leaders(groups[k])) BY <2>1, <2>2
  <2> QED BY <1>3, <1>9, <2>1, <2>4, <2>5
<1>13. ASSUME NEW e \in errors'
       PROVE  LET in == IF e[1] = "group too big" THEN Lay!Leaders(e[2])' ELSE {e[2]} IN
              (\E i \in in : ~Lay!Auto(group'[i])) \/ (\E i \in in : segs'[i].size + Para > Max16)
  BY <1>3, <1>10
<1> QED BY <1>12, <1>13 DEF Lay!PackedFit

\* The invariant: what packing predicts until there are addresses, and how far
\* allocation has followed it.
PackingInv ==
  /\ LayoutInv /\ packLimit \in Limits
  /\ Usual => /\ phase = "pack" => \E P, H : Drawn(P, H)
              /\ phase = "sort" => \E P, H : Predicted(P, H, Len(segs))
              /\ phase \in {"pack", "sort"} => Untouched
              /\ phase = "alloc" => SegFaults /\ \E P, H : Predicted(P, H, Len(segs)) /\ RealFit(P) /\ FileFit(P)
  /\ Lay!PackedFit

\* A step of a link that is not a usual one, or is not done, says nothing of the result.
LEMMA NotYet == ~(phase = "done" /\ Usual) => Lay!PackedFit
BY DEF Lay!PackedFit, Lay!Done, Usual

\* It holds before the first round.
LEMMA PackingStarts == ASSUME Machine, Fits, Lay!Init PROVE PackingInv
<1>1. LayoutInv BY LayoutStarts
<1>2. packLimit \in Limits /\ phase = "pack" BY DEF Lay!Init
<1>3. Usual => \E P, H : Drawn(P, H)
  <2>1. Usual => Known BY <1>1, <1>2 DEF Known, LayoutInv
  <2> QED BY <2>1, DrawStart
<1>4. Untouched
  <2>1. errors = {} /\ loc = [code |-> [seg |-> IF fmt = "real" THEN 0 ELSE 1, off |-> 0], data |-> [seg |-> 2, off |-> 0]]
    BY DEF Lay!Init
  <2> QED BY <2>1 DEF Untouched
<1>5. Lay!PackedFit BY <1>2, NotYet
<1> QED BY <1>1, <1>2, <1>3, <1>4, <1>5 DEF PackingInv

\* Each step keeps it.
LEMMA PackingSteps == ASSUME Fits, PackingInv, [Lay!Next]_(Lay!vars) PROVE PackingInv'
<1>1. LayoutInv /\ LayoutInv' /\ packLimit \in Limits BY LayoutSteps DEF PackingInv
<1>2. Lay!input' = Lay!input /\ fmt' = fmt /\ segs' = segs /\ packLimit' = packLimit
  <2>1. Lay!input' = Lay!input
    BY DEF Lay!Next, Lay!PackSegment, Lay!PackLast, Lay!SortGroupList, Lay!AllocSeg, Lay!CalcAddresses, Lay!vars
  <2> QED BY <2>1 DEF Lay!input
<1>3. Usual' <=> Usual BY <1>2 DEF Usual, Lay!All
<1>4. packLimit' \in Limits BY <1>1, <1>2
<1>5. CASE ~Usual
  <2>1. Lay!PackedFit' 
    <3>1. ~(phase' = "done" /\ Usual') => Lay!PackedFit' BY DEF Lay!PackedFit, Lay!Done, Usual
    <3> QED BY <1>3, <1>5, <3>1
  <2> QED BY <1>1, <1>3, <1>4, <1>5, <2>1 DEF PackingInv
<1>6. CASE Usual
  <2>1. Known BY <1>1, <1>6 DEF Known, LayoutInv
  <2>2. phase' # "done" => Lay!PackedFit' BY DEF Lay!PackedFit, Lay!Done
  <2>3. CASE Lay!PackSegment
    <3>1. phase = "pack" /\ phase' = "pack" /\ errors' = errors /\ loc' = loc BY <2>3 DEF Lay!PackSegment
    <3>2. GroupInv /\ PackInv /\ Untouched BY <1>1, <1>6, <3>1 DEF LayoutInv, PackingInv
    <3>3. PICK P, H : Drawn(P, H) BY <1>6, <3>1 DEF PackingInv
    <3>4. \E Q, G : Drawn(Q, G)' BY <2>1, <2>3, <3>2, <3>3, StepDraw
    <3>5. Untouched' BY <1>2, <3>1, <3>2 DEF Untouched
    <3> QED BY <1>1, <1>4, <2>2, <3>1, <3>4, <3>5 DEF PackingInv
  <2>4. CASE Lay!PackLast
    <3>1. phase = "pack" /\ phase' = "sort" /\ errors' = errors /\ loc' = loc BY <2>4 DEF Lay!PackLast
    <3>2. GroupInv /\ PackInv /\ Untouched BY <1>1, <1>6, <3>1 DEF LayoutInv, PackingInv
    <3>3. PICK P, H : Drawn(P, H) BY <1>6, <3>1 DEF PackingInv
    <3>4. Predicted(P, H, Len(segs))' BY <2>1, <2>4, <3>2, <3>3, DrawLast
    <3>5. \E Q, G : Predicted(Q, G, Len(segs))' BY <3>4
    <3>6. Untouched' BY <1>2, <3>1, <3>2 DEF Untouched
    <3> QED BY <1>1, <1>4, <2>2, <3>1, <3>5, <3>6 DEF PackingInv
  <2>5. CASE Lay!SortGroupList
    <3>1. phase = "sort" /\ phase' = "alloc" /\ errors' = errors /\ loc' = loc /\ addr' = addr /\ group' = group
          /\ total' = [g \in Lay!Range(group) |-> 0]
      BY <2>5 DEF Lay!SortGroupList
    <3>2. Untouched /\ addr = << >> /\ GroupInv BY <1>1, <1>6, <3>1 DEF LayoutInv, PackingInv
    <3>3. PICK P, H : Predicted(P, H, Len(segs)) BY <1>6, <3>1 DEF PackingInv
    <3>4. Predicted(P, H, Len(segs))' BY <1>2, <3>1, <3>3, PredictedStays
    <3>5. DOMAIN addr' = {} BY <3>1, <3>2
    <3>6. RealFit(P)' BY <1>2, <3>1, <3>2, <3>5 DEF RealFit, Untouched, Latest
    <3>7. Lay!Placed' = Lay!Placed /\ \A i \in Lay!Placed : i \in Lay!All BY <1>2, <2>1, InputFacts DEF Known, Lay!Placed, Lay!All
    <3>8. \A i \in Lay!Placed : total'[group'[i]] = 0
      <4> SUFFICES ASSUME NEW i \in Lay!Placed PROVE total'[group'[i]] = 0
        OBVIOUS
      <4>1. group[i] \in Lay!Range(group) BY <3>2, <3>7 DEF GroupInv, Lay!Range
      <4> QED BY <3>1, <4>1
    <3>9. FileFit(P)' BY <3>5, <3>7, <3>8 DEF FileFit
    <3>10. SegFaults' BY <3>1, <3>2 DEF SegFaults, Untouched
    <3>11. \E Q, G : Predicted(Q, G, Len(segs))' /\ RealFit(Q)' /\ FileFit(Q)' BY <3>4, <3>6, <3>9
    <3> QED BY <1>1, <1>4, <2>2, <3>1, <3>10, <3>11 DEF PackingInv
  <2>6. CASE Lay!AllocSeg
    <3>1. phase = "alloc" /\ phase' = "alloc" /\ group' = group BY <2>6 DEF Lay!AllocSeg
    <3>2. AllocInv /\ SegFaults BY <1>1, <1>6, <3>1 DEF LayoutInv, PackingInv
    <3>3. PICK P, H : Predicted(P, H, Len(segs)) /\ RealFit(P) /\ FileFit(P) BY <1>6, <3>1 DEF PackingInv
    <3>4. RealFit(P)' /\ FileFit(P)' /\ SegFaults' BY <2>1, <2>6, <3>2, <3>3, StepFit
    <3>5. Predicted(P, H, Len(segs))' BY <1>2, <3>1, <3>3, PredictedStays
    <3>6. \E Q, G : Predicted(Q, G, Len(segs))' /\ RealFit(Q)' /\ FileFit(Q)' BY <3>4, <3>5
    <3> QED BY <1>1, <1>4, <2>2, <3>1, <3>4, <3>6 DEF PackingInv
  <2>7. CASE Lay!CalcAddresses
    <3>1. phase = "alloc" /\ phase' = "done" BY <2>7 DEF Lay!CalcAddresses
    <3>2. AllocInv /\ SegFaults BY <1>1, <1>6, <3>1 DEF LayoutInv, PackingInv
    <3>3. PICK P, H : Predicted(P, H, Len(segs)) /\ RealFit(P) /\ FileFit(P) BY <1>6, <3>1 DEF PackingInv
    <3>4. Lay!PackedFit' BY <2>1, <2>7, <3>2, <3>3, CalcFits
    <3> QED BY <1>1, <1>4, <3>1, <3>4 DEF PackingInv
  <2>8. CASE UNCHANGED Lay!vars
    <3>1. /\ group' = group /\ groups' = groups /\ pack' = pack /\ addr' = addr /\ loc' = loc /\ total' = total /\ grp' = grp
          /\ errors' = errors /\ phase' = phase
      BY <2>8 DEF Lay!vars
    <3>2. Lay!All' = Lay!All /\ Lay!Placed' = Lay!Placed /\ \A g : Lay!Leaders(g)' = Lay!Leaders(g)
      BY <1>2, <3>1 DEF Lay!All, Lay!Placed, Lay!Leaders
    <3>3. phase = "pack" => \E P, H : Drawn(P, H)'
      <4> SUFFICES ASSUME phase = "pack" PROVE \E P, H : Drawn(P, H)'
        OBVIOUS
      <4>1. PICK P, H : Drawn(P, H) BY <1>6 DEF PackingInv
      <4>2. Drawn(P, H)' BY <1>2, <3>1, <4>1, DrawnStays
      <4> QED BY <4>2
    <3>4. phase = "sort" => \E P, H : Predicted(P, H, Len(segs))'
      <4> SUFFICES ASSUME phase = "sort" PROVE \E P, H : Predicted(P, H, Len(segs))'
        OBVIOUS
      <4>1. PICK P, H : Predicted(P, H, Len(segs)) BY <1>6 DEF PackingInv
      <4>2. Predicted(P, H, Len(segs))' BY <1>2, <3>1, <4>1, PredictedStays
      <4> QED BY <4>2
    <3>5. phase = "alloc" => \E P, H : Predicted(P, H, Len(segs))' /\ RealFit(P)' /\ FileFit(P)'
      <4> SUFFICES ASSUME phase = "alloc" PROVE \E P, H : Predicted(P, H, Len(segs))' /\ RealFit(P)' /\ FileFit(P)'
        OBVIOUS
      <4>1. PICK P, H : Predicted(P, H, Len(segs)) /\ RealFit(P) /\ FileFit(P) BY <1>6 DEF PackingInv
      <4>2. Predicted(P, H, Len(segs))' BY <1>2, <3>1, <4>1, PredictedStays
      <4>3. \A i : Latest(i)' <=> Latest(i) BY <3>1 DEF Latest
      <4>4. RealFit(P)'
        BY <1>2, <3>1, <4>1, <4>3 DEF RealFit, Lay!Linear, Lay!Grown, Lay!Auto, Lay!UserGroup
      <4>5. FileFit(P)' BY <1>2, <3>1, <3>2, <4>1 DEF FileFit, Lay!Auto, Lay!UserGroup
      <4> QED BY <4>2, <4>4, <4>5
    <3>6. SegFaults => SegFaults' BY <1>2, <3>1, <3>2 DEF SegFaults, Blamed, Lay!Auto, Lay!UserGroup
    <3>7. Untouched => Untouched' BY <1>2, <3>1 DEF Untouched
    <3>8. Lay!PackedFit'
      <4>1. Lay!PackedFit BY DEF PackingInv
      <4>2. \A g : Lay!First(g)' = Lay!First(g) /\ Lay!Cardinality(Lay!Leaders(g))' = Lay!Cardinality(Lay!Leaders(g))
        BY <3>2 DEF Lay!First
      <4>3. \A i : Lay!SetSegType(i)' = Lay!SetSegType(i) /\ (Lay!Auto(i)' <=> Lay!Auto(i))
        BY <1>2 DEF Lay!SetSegType, Lay!Auto, Lay!UserGroup
      <4> QED BY <1>2, <3>1, <3>2, <4>1, <4>2, <4>3 DEF Lay!PackedFit, Lay!Done, Lay!Auto, Lay!UserGroup
    <3> QED BY <1>1, <1>4, <1>6, <3>1, <3>3, <3>4, <3>5, <3>6, <3>7, <3>8 DEF PackingInv
  <2> QED BY <2>3, <2>4, <2>5, <2>6, <2>7, <2>8 DEF Lay!Next
<1> QED BY <1>5, <1>6

\* Whatever segments there are, of whatever sizes and alignments: what AutoGroupSect
\* adds up is what allocation comes to. An automatic group of several segments
\* stays below its limit, and the only segments and groups that are complained
\* about are in a group the objects made or are too large alone.
THEOREM PackingIsRight == ASSUME Machine, Fits PROVE Lay!Spec => []Lay!PackedFit
<1>1. Lay!Init => PackingInv BY PackingStarts
<1>2. PackingInv /\ [Lay!Next]_(Lay!vars) => PackingInv' BY PackingSteps
<1>3. PackingInv => Lay!PackedFit BY DEF PackingInv
<1> QED BY <1>1, <1>2, <1>3, PTL DEF Lay!Spec
=============================================================================
