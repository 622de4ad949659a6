------------------------------ MODULE NameProofs ------------------------------
(***************************************************************************)
(* Proofs about what a name stands for: among the definitions that modules *)
(* give it (Comdat), and in the dictionaries of an archive (ArDict) and of *)
(* an OMF library (OmfDict).                                               *)
(***************************************************************************)
EXTENDS Comdat, WellFoundedInduction, TLAPS

CONSTANTS StrKey(_), StrIKey(_), IndexLimit, MaxEntries
VARIABLES numdicts, caseFlag, listed, fnametab, offsettab, indexTab, ix, ixSave, saved, pc, result
Ar == INSTANCE ArDict

CONSTANTS NumBuckets, PageWords, PagesInCache, Hash(_), NameLen(_), Fold(_), MaxSyms
VARIABLES syms, numBlocks, dict, cache, search
Omf == INSTANCE OmfDict

SymbolFine(n) ==
  /\ sym[n].kind = "undefined" => sym[n].mod = 0
  /\ sym[n].kind # "undefined" => sym[n].mod \in 1 .. mod
  /\ ~Communal(n) => sym[n].seg = 0
  /\ Communal(n) => sym[n].seg \in 1 .. Len(segs) /\ segs[sym[n].seg].of = n
Read == \A c \in came : c.mod <= mod
Inv ==
  /\ TypeOK /\ Read /\ \A n \in Names : SymbolFine(n)
  /\ OneDefinition /\ InOneList /\ OnlyDefinitionStays

-----------------------------------------------------------------------------
(* Declarations *)

LEMMA Limits == ASSUME LegalRecords PROVE MaxSegment \in Nat \ {0} /\ MaxMods \in Nat
BY DEF LegalRecords

LEMMA Declared ==
  ASSUME LegalRecords, TypeOK, Read, NEW n \in Names, NEW kind \in Kinds \ {"undefined"}, NEW s \in Nat, Declare(n, kind, s)
  PROVE  \E c : /\ c \in Declaration /\ c.of = n /\ c.kind = kind /\ c.mod = mod /\ came' = came \cup {c}
                /\ mod \in 1 .. MaxMods
<1> DEFINE c == [of |-> n, kind |-> kind, mod |-> mod, size |-> s]
<1>1. mod \in 1 .. MaxMods BY Limits DEF Declare, Reading, TypeOK
<1>2. c \in Declaration BY <1>1 DEF Declaration
<1> QED BY <1>1, <1>2 DEF Declare

(* A declaration that is no better than what there is changes nothing.      *)
LEMMA NoBetter ==
  ASSUME LegalRecords, Inv, NEW n \in Names, NEW kind \in Kinds \ {"undefined"}, NEW s \in Nat, Declare(n, kind, s),
         mod' = mod, sym' = sym, publist' = publist,
         \/ kind = "public" /\ sym[n].kind = "public"
         \/ kind = "comdat" /\ sym[n].kind \in {"comdat", "public"}
         \/ kind = "communal" /\ sym[n].kind # "undefined"
  PROVE  came' \subseteq Declaration /\ Read' /\ OneDefinition' /\ InOneList'
<1>1. PICK c : /\ c \in Declaration /\ c.of = n /\ c.kind = kind /\ c.mod = mod /\ came' = came \cup {c}
               /\ mod \in 1 .. MaxMods
  BY Declared DEF Inv
<1>2. came' \subseteq Declaration /\ Read' BY <1>1 DEF Inv, TypeOK, Read
<1>3. InOneList' BY DEF InOneList, Inv
<1>4. ASSUME NEW k \in Names, NEW x \in Kinds
      PROVE  Said(k, x)' = IF k = n /\ x = kind THEN Said(k, x) \cup {c} ELSE Said(k, x)
  BY <1>1 DEF Said
<1>5. ASSUME NEW k \in Names PROVE Means(k)' = Means(k)
  BY <1>4 DEF Means, Kinds, Inv, OneDefinition
<1>6. ASSUME NEW k \in Names, Means(k) # "undefined"
      PROVE  /\ \E d \in Said(k, Means(k))' : d.mod = sym[k].mod
             /\ \A d \in Said(k, Means(k))' : d.mod >= sym[k].mod
  <2>1. Means(k) \in Kinds BY DEF Means, Kinds
  <2>2. sym[k].mod <= mod BY <1>6 DEF Inv, OneDefinition, SymbolFine, TypeOK, Symbol
  <2>3. Said(k, Means(k))' \subseteq Said(k, Means(k)) \cup {c} /\ Said(k, Means(k)) \subseteq Said(k, Means(k))'
    BY <2>1, <1>4, <1>5
  <2> QED BY <2>2, <2>3, <1>1, <1>6 DEF Inv, OneDefinition, TypeOK, Symbol
<1> QED BY <1>2, <1>3, <1>5, <1>6 DEF OneDefinition, Inv

(* One that is better gives the name its meaning.                           *)
LEMMA Better ==
  ASSUME LegalRecords, Inv, NEW n \in Names, NEW kind \in Kinds \ {"undefined"}, NEW s \in Nat, Declare(n, kind, s),
         NEW i \in Nat, mod' = mod, Become(n, kind, i), publist' = Publish(n),
         \/ kind = "public" /\ sym[n].kind # "public"
         \/ kind = "comdat" /\ sym[n].kind \notin {"comdat", "public"}
         \/ kind = "communal" /\ sym[n].kind = "undefined"
  PROVE  /\ came' \subseteq Declaration /\ Read' /\ OneDefinition' /\ InOneList'
         /\ sym' \in [Names -> Symbol] /\ publist' \subseteq (1 .. MaxMods) \X Names
         /\ sym'[n] = [kind |-> kind, seg |-> i, mod |-> mod] /\ mod \in 1 .. MaxMods
         /\ \A k \in Names \ {n} : sym'[k] = sym[k]
<1>1. PICK c : /\ c \in Declaration /\ c.of = n /\ c.kind = kind /\ c.mod = mod /\ came' = came \cup {c}
               /\ mod \in 1 .. MaxMods
  BY Declared DEF Inv
<1>2. came' \subseteq Declaration /\ Read' BY <1>1 DEF Inv, TypeOK, Read
<1>3. /\ sym'[n] = [kind |-> kind, seg |-> i, mod |-> mod]
      /\ \A k \in Names \ {n} : sym'[k] = sym[k]
  BY DEF Become, Inv, TypeOK
<1>4. sym' \in [Names -> Symbol]
  <2>1. [kind |-> kind, seg |-> i, mod |-> mod] \in Symbol BY <1>1, Limits DEF Symbol
  <2> QED BY <2>1 DEF Become, Inv, TypeOK
<1>5. InOneList' /\ publist' \subseteq (1 .. MaxMods) \X Names
  <2>1. publist' \subseteq (1 .. MaxMods) \X Names BY <1>1 DEF Publish, Inv, TypeOK
  <2>2. publist = {<<sym[k].mod, k>> : k \in {m \in Names : sym[m].kind # "undefined"}}
    BY DEF Inv, InOneList
  <2>3. ASSUME NEW p \in publist' PROVE p \in {<<sym'[k].mod, k>> : k \in {m \in Names : sym'[m].kind # "undefined"}}
    <3>1. CASE p = <<mod, n>> BY <3>1, <1>3
    <3>2. CASE p # <<mod, n>>
      <4>1. p \in publist /\ p # <<sym[n].mod, n>> BY <3>2, <2>3 DEF Publish
      <4>2. PICK k \in Names : p = <<sym[k].mod, k>> /\ sym[k].kind # "undefined" BY <4>1, <2>2
      <4>3. k # n BY <4>1, <4>2
      <4> QED BY <4>2, <4>3, <1>3
    <3> QED BY <3>1, <3>2
  <2>4. ASSUME NEW k \in Names, sym'[k].kind # "undefined" PROVE <<sym'[k].mod, k>> \in publist'
    <3>1. CASE k = n BY <3>1, <1>3 DEF Publish
    <3>2. CASE k # n
      <4>1. <<sym[k].mod, k>> \in publist BY <3>2, <2>4, <2>2, <1>3
      <4>2. <<sym[k].mod, k>> # <<sym[n].mod, n>> BY <3>2
      <4> QED BY <4>1, <4>2, <3>2, <1>3 DEF Publish
    <3> QED BY <3>1, <3>2
  <2> QED BY <2>1, <2>3, <2>4 DEF InOneList
<1>6. ASSUME NEW k \in Names, NEW x \in Kinds
      PROVE  Said(k, x)' = IF k = n /\ x = kind THEN Said(k, x) \cup {c} ELSE Said(k, x)
  BY <1>1 DEF Said
<1>7. ASSUME NEW k \in Names \ {n}
      PROVE  /\ sym'[k].kind = Means(k)'
             /\ Means(k)' # "undefined" => /\ \E d \in Said(k, Means(k))' : d.mod = sym'[k].mod
                                           /\ \A d \in Said(k, Means(k))' : d.mod >= sym'[k].mod
  <2>1. Means(k)' = Means(k) BY <1>6 DEF Means, Kinds
  <2>2. Means(k) \in Kinds BY DEF Means, Kinds
  <2>3. Said(k, Means(k))' = Said(k, Means(k)) BY <2>1, <2>2, <1>6
  <2> QED BY <2>1, <2>3, <1>3 DEF Inv, OneDefinition
<1>8. Means(n)' = kind /\ Said(n, kind)' = {c}
  <2>1. Said(n, kind) = {} BY DEF Inv, OneDefinition, Means, Kinds
  <2>2. Said(n, kind)' = {c} BY <2>1, <1>6
  <2>3. kind # "public" => Said(n, "public")' = {}
    BY <1>6 DEF Inv, OneDefinition, Means, Kinds
  <2>4. kind = "communal" => Said(n, "comdat")' = {}
    BY <1>6 DEF Inv, OneDefinition, Means, Kinds
  <2> QED BY <2>2, <2>3, <2>4 DEF Means, Kinds
<1>9. OneDefinition'
  <2>1. /\ sym'[n].kind = Means(n)'
        /\ Means(n)' # "undefined" => /\ \E d \in Said(n, Means(n))' : d.mod = sym'[n].mod
                                      /\ \A d \in Said(n, Means(n))' : d.mod >= sym'[n].mod
    BY <1>8, <1>3, <1>1
  <2> QED BY <2>1, <1>7 DEF OneDefinition
<1> QED BY <1>1, <1>2, <1>3, <1>4, <1>5, <1>9

-----------------------------------------------------------------------------
(* Segments *)

LEMMA SegmentsReplaced ==
  ASSUME LegalRecords, Inv, NEW n \in Names
  PROVE  /\ Replaced(n) \in Seq(Segment) /\ Len(Replaced(n)) = Len(segs)
         /\ \A i \in 1 .. Len(segs) :
              /\ Replaced(n)[i].of = segs[i].of /\ Replaced(n)[i].rest = segs[i].rest
              /\ Replaced(n)[i].dead <=> segs[i].dead \/ (Communal(n) /\ i = sym[n].seg)
<1>1. CASE ~Communal(n) BY <1>1 DEF Replaced, Inv, TypeOK
<1>2. CASE Communal(n)
  <2> DEFINE j == sym[n].seg
  <2>1. j \in 1 .. Len(segs) /\ segs \in Seq(Segment) BY <1>2 DEF Inv, SymbolFine, TypeOK
  <2>2. Replaced(n) = [segs EXCEPT ![j] = [segs[j] EXCEPT !.dead = TRUE]] BY <1>2 DEF Replaced
  <2>3. segs[j] \in Segment BY <2>1
  <2>4. [segs[j] EXCEPT !.dead = TRUE] \in Segment BY <2>3 DEF Segment
  <2>5. Replaced(n) \in Seq(Segment) /\ Len(Replaced(n)) = Len(segs) BY <2>1, <2>2, <2>4
  <2>6. ASSUME NEW i \in 1 .. Len(segs)
        PROVE  /\ Replaced(n)[i].of = segs[i].of /\ Replaced(n)[i].rest = segs[i].rest
               /\ Replaced(n)[i].dead <=> segs[i].dead \/ (Communal(n) /\ i = sym[n].seg)
    <3>1. CASE i = j BY <3>1, <2>2, <2>1, <2>3, <1>2 DEF Segment
    <3>2. CASE i # j BY <3>2, <2>2, <2>1
    <3> QED BY <3>1, <3>2
  <2> QED BY <2>5, <2>6
<1> QED BY <1>1, <1>2

(* The segment a symbol had is dead when the symbol has another one.        *)
LEMMA OldSegments ==
  ASSUME LegalRecords, Inv, NEW n \in Names, NEW j \in Nat, j \notin 1 .. Len(segs),
         sym'[n].seg = j, \A k \in Names \ {n} : sym'[k] = sym[k],
         NEW i \in 1 .. Len(segs), ~segs[i].rest
  PROVE  Replaced(n)[i].dead <=> sym'[segs[i].of].seg # i
<1>1. segs[i] \in Segment /\ segs[i].of \in Names
  <2>1. segs \in Seq(Segment) BY DEF Inv, TypeOK
  <2>2. segs[i] \in Segment BY <2>1
  <2> QED BY <2>2 DEF Segment
<1>2. segs[i].dead <=> sym[segs[i].of].seg # i BY DEF Inv, OnlyDefinitionStays, TypeOK
<1>3. Replaced(n)[i].dead <=> segs[i].dead \/ (Communal(n) /\ i = sym[n].seg) BY SegmentsReplaced
<1>4. SymbolFine(n) BY DEF Inv
<1>5. CASE segs[i].of = n BY <1>2, <1>3, <1>4, <1>5 DEF SymbolFine
<1>6. CASE segs[i].of # n BY <1>1, <1>2, <1>3, <1>4, <1>6 DEF SymbolFine
<1> QED BY <1>5, <1>6

LEMMA NewSegments ==
  ASSUME LegalRecords, Inv, NEW n \in Names, NEW e \in Seq(Segment), e # << >>,
         \A i \in 1 .. Len(e) : e[i].of = n /\ ~e[i].dead /\ (e[i].rest <=> i # 1),
         NEW r, r = Replaced(n), segs' = r \o e, mod' = mod, mod \in 1 .. MaxMods,
         sym' \in [Names -> Symbol], sym'[n].seg = Len(segs) + 1, sym'[n].mod = mod,
         sym'[n].kind \in {"communal", "comdat"}, \A k \in Names \ {n} : sym'[k] = sym[k]
  PROVE  /\ segs' \in Seq(Segment) /\ Len(segs') >= Len(segs) + 1
         /\ OnlyDefinitionStays' /\ \A k \in Names : SymbolFine(k)'
<1>1. /\ Replaced(n) \in Seq(Segment) /\ Len(Replaced(n)) = Len(segs) /\ Len(segs) \in Nat
      /\ Len(e) \in Nat /\ Len(e) >= 1
  BY SegmentsReplaced DEF Inv, TypeOK
<1>2. /\ segs' \in Seq(Segment) /\ Len(segs') = Len(segs) + Len(e)
      /\ \A i \in 1 .. Len(segs) : segs'[i] = Replaced(n)[i]
      /\ \A i \in 1 .. Len(e) : segs'[Len(segs) + i] = e[i]
  <2>1. r \in Seq(Segment) /\ Len(r) = Len(segs) BY <1>1
  <2>2. /\ segs' \in Seq(Segment) /\ Len(segs') = Len(r) + Len(e)
        /\ \A i \in 1 .. Len(r) : segs'[i] = r[i]
        /\ \A i \in 1 .. Len(e) : segs'[Len(r) + i] = e[i]
    BY ONLY <2>1, e \in Seq(Segment), segs' = r \o e
  <2> QED BY <2>1, <2>2
<1>3. ASSUME NEW i \in DOMAIN segs', ~segs'[i].rest PROVE segs'[i].dead <=> sym'[segs'[i].of].seg # i
  <2>1. i \in 1 .. Len(segs) + Len(e) BY <1>2
  <2>2. CASE i \in 1 .. Len(segs)
    <3>1. segs'[i] = Replaced(n)[i] /\ Replaced(n)[i].of = segs[i].of /\ ~segs[i].rest
      BY <2>2, <1>2, <1>3, SegmentsReplaced
    <3>2. Len(segs) + 1 \in Nat /\ Len(segs) + 1 \notin 1 .. Len(segs) BY <1>1
    <3>3. Replaced(n)[i].dead <=> sym'[segs[i].of].seg # i BY <3>1, <3>2, <2>2, OldSegments
    <3> QED BY <3>1, <3>3
  <2>3. CASE i \notin 1 .. Len(segs)
    <3>1. PICK k \in 1 .. Len(e) : i = Len(segs) + k
      <4>1. i - Len(segs) \in 1 .. Len(e) /\ i = Len(segs) + (i - Len(segs)) BY <2>1, <2>3, <1>1
      <4> QED BY <4>1
    <3>2. segs'[i] = e[k] BY <3>1, <1>2
    <3>3. k = 1 BY <3>2, <1>3
    <3> QED BY <3>1, <3>2, <3>3
  <2> QED BY <2>2, <2>3
<1>4. ASSUME NEW k \in Names \ {n} PROVE SymbolFine(k)' /\ (Communal(k)' => segs'[sym'[k].seg].of = k)
  <2>1. SymbolFine(k) /\ sym'[k] = sym[k] BY DEF Inv
  <2>2. CASE Communal(k)
    <3>1. sym[k].seg \in 1 .. Len(segs) /\ segs[sym[k].seg].of = k BY <2>1, <2>2 DEF SymbolFine
    <3>2. segs'[sym[k].seg].of = k BY <3>1, <1>2, SegmentsReplaced
    <3> QED BY <2>1, <3>1, <3>2, <1>1, <1>2 DEF SymbolFine, Communal
  <2>3. CASE ~Communal(k) BY <2>1, <2>3 DEF SymbolFine, Communal
  <2> QED BY <2>2, <2>3
<1>5. segs'[sym'[n].seg].of = n /\ sym'[n].seg \in 1 .. Len(segs')
  <2>1. 1 \in 1 .. Len(e) /\ segs'[Len(segs) + 1] = e[1] BY <1>1, <1>2
  <2> QED BY <2>1, <1>1, <1>2
<1>6. SymbolFine(n)' /\ Communal(n)' BY <1>5 DEF SymbolFine, Communal
<1>7. OnlyDefinitionStays'
  <2>1. ASSUME NEW k \in Names, Communal(k)' PROVE sym'[k].seg \in DOMAIN segs' /\ segs'[sym'[k].seg].of = k
    BY <2>1, <1>2, <1>4, <1>5 DEF SymbolFine
  <2> QED BY <1>3, <2>1 DEF OnlyDefinitionStays
<1> QED BY <1>1, <1>2, <1>4, <1>6, <1>7

(* Segments that only get longer, or get their data                         *)
LEMMA SameSegments ==
  ASSUME LegalRecords, Inv, sym' = sym, mod' \in {mod, mod + 1}, segs' \in Seq(Segment), Len(segs') = Len(segs),
         \A i \in 1 .. Len(segs) : /\ segs'[i].of = segs[i].of /\ segs'[i].rest = segs[i].rest
                                  /\ segs'[i].dead = segs[i].dead
  PROVE  OnlyDefinitionStays' /\ \A k \in Names : SymbolFine(k)'
<1>1. DOMAIN segs = 1 .. Len(segs) /\ DOMAIN segs' = 1 .. Len(segs) /\ mod \in Nat
  BY Limits DEF Inv, TypeOK
<1>2. ASSUME NEW k \in Names PROVE SymbolFine(k)'
  <2>1. SymbolFine(k) BY DEF Inv
  <2> QED BY <2>1, <1>1 DEF SymbolFine, Communal
<1>3. OnlyDefinitionStays' BY <1>1 DEF OnlyDefinitionStays, Inv, Communal
<1> QED BY <1>2, <1>3

LEMMA Lengthened ==
  ASSUME LegalRecords, Inv, NEW i \in 0 .. Len(segs), NEW l \in Nat, NEW t,
         \/ t = segs
         \/ i # 0 /\ t = [segs EXCEPT ![i].length = l]
  PROVE  /\ t \in Seq(Segment) /\ Len(t) = Len(segs)
         /\ \A k \in 1 .. Len(segs) : /\ t[k].of = segs[k].of /\ t[k].rest = segs[k].rest
                                      /\ t[k].dead = segs[k].dead
<1>1. segs \in Seq(Segment) BY DEF Inv, TypeOK
<1>2. CASE t = segs BY <1>1, <1>2
<1>3. CASE i # 0 /\ t = [segs EXCEPT ![i].length = l]
  <2>1. segs[i] \in Segment /\ i \in 1 .. Len(segs) BY <1>1, <1>3
  <2>2. [segs[i] EXCEPT !.length = l] \in Segment BY <2>1 DEF Segment
  <2>3. t = [segs EXCEPT ![i] = [segs[i] EXCEPT !.length = l]] BY <1>3
  <2>4. t \in Seq(Segment) /\ Len(t) = Len(segs) BY <1>1, <2>1, <2>2, <2>3
  <2>5. ASSUME NEW k \in 1 .. Len(segs)
        PROVE  t[k].of = segs[k].of /\ t[k].rest = segs[k].rest /\ t[k].dead = segs[k].dead
    <3>1. CASE k = i BY <3>1, <2>3, <2>1, <1>1 DEF Segment
    <3>2. CASE k # i BY <3>2, <2>3, <1>1
    <3> QED BY <3>1, <3>2
  <2> QED BY <2>4, <2>5
<1> QED BY <1>2, <1>3
-----------------------------------------------------------------------------
(* Steps *)

LEMMA PubDefInv == ASSUME LegalRecords, Inv, NEW n \in Names, PubDef(n) PROVE Inv'
<1>1. /\ Declare(n, "public", 0) /\ mod' = mod /\ cdatSegments' = cdatSegments /\ cdatSegNum' = cdatSegNum
      /\ infos' = infos
  BY DEF PubDef
<1>2. CASE sym[n].kind = "public"
  <2>1. sym' = sym /\ publist' = publist /\ segs' = segs BY <1>2 DEF PubDef
  <2>2. came' \subseteq Declaration /\ Read' /\ OneDefinition' /\ InOneList'
    BY <1>1, <1>2, <2>1, NoBetter DEF Kinds
  <2>3. OnlyDefinitionStays' /\ \A k \in Names : SymbolFine(k)'
    BY <1>1, <2>1 DEF Inv, OnlyDefinitionStays, SymbolFine, Communal
  <2>4. TypeOK' BY <1>1, <2>1, <2>2 DEF Inv, TypeOK
  <2> QED BY <2>2, <2>3, <2>4 DEF Inv
<1>3. CASE sym[n].kind # "public"
  <2>1. Become(n, "public", 0) /\ publist' = Publish(n) /\ segs' = Replaced(n) BY <1>3 DEF PubDef
  <2>2. /\ came' \subseteq Declaration /\ Read' /\ OneDefinition' /\ InOneList'
        /\ sym' \in [Names -> Symbol] /\ publist' \subseteq (1 .. MaxMods) \X Names
        /\ sym'[n] = [kind |-> "public", seg |-> 0, mod |-> mod] /\ mod \in 1 .. MaxMods
        /\ \A k \in Names \ {n} : sym'[k] = sym[k]
    BY <1>1, <1>3, <2>1, Better DEF Kinds
  <2>3. /\ segs' \in Seq(Segment) /\ Len(segs') = Len(segs) /\ Len(segs) \in Nat
        /\ \A i \in 1 .. Len(segs) : segs'[i].of = segs[i].of /\ segs'[i].rest = segs[i].rest
    BY <2>1, SegmentsReplaced DEF Inv, TypeOK
  <2>4. TypeOK' BY <1>1, <2>2, <2>3 DEF Inv, TypeOK
  <2>5. ASSUME NEW i \in DOMAIN segs', ~segs'[i].rest PROVE segs'[i].dead <=> sym'[segs'[i].of].seg # i
    <3>1. i \in 1 .. Len(segs) /\ ~segs[i].rest /\ segs'[i].of = segs[i].of BY <2>3, <2>5
    <3>2. sym'[n].seg = 0 /\ 0 \notin 1 .. Len(segs) BY <2>2, <2>3
    <3>3. Replaced(n)[i].dead <=> sym'[segs[i].of].seg # i BY <3>1, <3>2, <2>2, OldSegments
    <3> QED BY <3>1, <3>3, <2>1
  <2>6. ASSUME NEW k \in Names
        PROVE SymbolFine(k)' /\ (Communal(k)' => sym'[k].seg \in DOMAIN segs' /\ segs'[sym'[k].seg].of = k)
    <3>1. CASE k = n BY <3>1, <2>2, <1>1 DEF SymbolFine, Communal
    <3>2. CASE k # n
      <4>1. SymbolFine(k) /\ sym'[k] = sym[k] BY <3>2, <2>2 DEF Inv
      <4> QED BY <4>1, <1>1, <2>3 DEF SymbolFine, Communal
    <3> QED BY <3>1, <3>2
  <2> QED BY <2>2, <2>4, <2>5, <2>6 DEF Inv, OnlyDefinitionStays
<1> QED BY <1>2, <1>3

LEMMA FarFine ==
  ASSUME LegalRecords, NEW n \in Names, NEW s \in Nat, segs \in Seq(Segment)
  PROVE  /\ Far(n, s) \in Seq(Segment) /\ Far(n, s) # << >>
         /\ \A i \in 1 .. Len(Far(n, s)) :
              Far(n, s)[i].of = n /\ ~Far(n, s)[i].dead /\ (Far(n, s)[i].rest <=> i # 1)
<1> DEFINE e == Far(n, s)
           l(i) == IF i > Parts(s) THEN s % MaxSegment ELSE MaxSegment
<1>1. Parts(s) \in Nat BY Limits DEF Parts
<1>2. \A i \in 1 .. Parts(s) + 1 : l(i) \in Nat BY <1>1, Limits
<1>3. ASSUME NEW i \in 1 .. Parts(s) + 1
      PROVE  e[i] = [of |-> n, length |-> l(i), align |-> 0, leader |-> <<"far", Len(segs) + i>>,
                     rest |-> i > 1, dead |-> FALSE, data |-> << >>]
  BY <1>3 DEF Far, Segdata
<1>4. ASSUME NEW i \in 1 .. Parts(s) + 1 PROVE <<"far", Len(segs) + i>> \in Leader
  <2>1. Len(segs) + i \in Nat BY <1>1
  <2> QED BY <2>1 DEF Leader
<1>5. ASSUME NEW i \in 1 .. Parts(s) + 1 PROVE e[i] \in Segment
  <2> DEFINE w == <<"far", Len(segs) + i>>
  <2>1. w \in Leader /\ l(i) \in Nat /\ e[i] = [of |-> n, length |-> l(i), align |-> 0, leader |-> w,
                     rest |-> i > 1, dead |-> FALSE, data |-> << >>]
    BY <1>2, <1>3, <1>4
  <2> HIDE DEF w, l, e
  <2>2. (i > 1) \in BOOLEAN /\ << >> \in Seq(Nat) OBVIOUS
  <2> QED BY <2>1, <2>2 DEF Segment
<1>6. DOMAIN e = 1 .. Parts(s) + 1 BY DEF Far
<1>7. e \in Seq(Segment) /\ Len(e) = Parts(s) + 1
  <2>1. e = [i \in 1 .. Parts(s) + 1 |-> e[i]] BY <1>6 DEF Far
  <2>2. Parts(s) + 1 \in Nat BY <1>1
  <2> HIDE DEF e
  <2> QED BY <2>1, <2>2, <1>5
<1>8. e # << >> BY <1>1, <1>7
<1>9. ASSUME NEW i \in 1 .. Len(e) PROVE e[i].of = n /\ ~e[i].dead /\ (e[i].rest <=> i # 1)
  <2>1. i \in 1 .. Parts(s) + 1 BY <1>7
  <2>2. e[i] = [of |-> n, length |-> l(i), align |-> 0, leader |-> <<"far", Len(segs) + i>>,
                rest |-> i > 1, dead |-> FALSE, data |-> << >>]
    BY <2>1, <1>3
  <2> DEFINE w == <<"far", Len(segs) + i>>
  <2>3. e[i].of = n /\ e[i].dead = FALSE /\ e[i].rest = (i > 1)
    <3> HIDE DEF e, l, w
    <3> QED BY <2>2 DEF w
  <2>4. (i > 1) <=> i # 1 BY <2>1, <1>1
  <2> HIDE DEF e
  <2> QED BY <2>3, <2>4
<1> QED BY <1>7, <1>8, <1>9

LEMMA ComDefInv == ASSUME LegalRecords, Inv, NEW n \in Names, NEW s \in Nat, NEW far \in BOOLEAN, ComDef(n, s, far) PROVE Inv'
<1>1. /\ Declare(n, "communal", s) /\ mod' = mod /\ cdatSegments' = cdatSegments /\ cdatSegNum' = cdatSegNum
      /\ infos' = infos /\ segs \in Seq(Segment)
  BY DEF ComDef, Inv, TypeOK
<1>2. CASE sym[n].kind # "undefined"
  <2>1. sym' = sym /\ publist' = publist /\ segs' = Grow(n, s) BY <1>2 DEF ComDef
  <2>2. came' \subseteq Declaration /\ Read' /\ OneDefinition' /\ InOneList'
    BY <1>1, <1>2, <2>1, NoBetter DEF Kinds
  <2>3. \/ segs' = segs
        \/ sym[n].seg \in 1 .. Len(segs) /\ segs' = [segs EXCEPT ![sym[n].seg].length = s]
    BY <2>1 DEF Grow, Inv, SymbolFine, Communal
  <2>4. /\ segs' \in Seq(Segment) /\ Len(segs') = Len(segs)
        /\ \A i \in 1 .. Len(segs) : /\ segs'[i].of = segs[i].of /\ segs'[i].rest = segs[i].rest
                                     /\ segs'[i].dead = segs[i].dead
    <3>1. CASE segs' = segs BY <3>1, <1>1
    <3>2. CASE sym[n].seg \in 1 .. Len(segs) /\ segs' = [segs EXCEPT ![sym[n].seg].length = s]
      <4>1. sym[n].seg \in 0 .. Len(segs) /\ sym[n].seg # 0 BY <3>2, <1>1
      <4> QED BY <4>1, <3>2, Lengthened
    <3> QED BY <2>3, <3>1, <3>2
  <2>5. OnlyDefinitionStays' /\ \A k \in Names : SymbolFine(k)' BY <2>1, <2>4, <1>1, SameSegments
  <2>6. TypeOK' BY <1>1, <2>1, <2>2, <2>4 DEF Inv, TypeOK
  <2> QED BY <2>2, <2>5, <2>6 DEF Inv
<1>3. CASE sym[n].kind = "undefined"
  <2> DEFINE e == IF far THEN Far(n, s) ELSE Near(n, s)
  <2>1. Become(n, "communal", Len(segs) + 1) /\ publist' = Publish(n) /\ segs' = segs \o e
    BY <1>3 DEF ComDef
  <2>2. /\ e \in Seq(Segment) /\ e # << >>
        /\ \A i \in 1 .. Len(e) : e[i].of = n /\ ~e[i].dead /\ (e[i].rest <=> i # 1)
    <3>1. CASE far BY <3>1, <1>1, FarFine
    <3>2. CASE ~far
      <4>1. <<"c_common">> \in Leader BY DEF Leader
      <4>2. Segdata(n, s, 2, <<"c_common">>) \in Segment BY <4>1 DEF Segdata, Segment
      <4>3. e = << Segdata(n, s, 2, <<"c_common">>) >> BY <3>2 DEF Near
      <4> DEFINE x == Segdata(n, s, 2, <<"c_common">>)
      <4>4. e \in Seq(Segment) /\ Len(e) = 1 /\ e[1] = x
        <5>1. x \in Segment /\ e = <<x>> BY <4>2, <4>3
        <5> HIDE DEF x, e
        <5> QED BY <5>1
      <4>5. /\ Segdata(n, s, 2, <<"c_common">>).of = n /\ ~Segdata(n, s, 2, <<"c_common">>).dead
            /\ ~Segdata(n, s, 2, <<"c_common">>).rest
        BY DEF Segdata
      <4> QED BY <4>3, <4>4, <4>5
    <3> QED BY <3>1, <3>2
  <2>3. Len(segs) + 1 \in Nat BY <1>1
  <2>4. /\ came' \subseteq Declaration /\ Read' /\ OneDefinition' /\ InOneList'
        /\ sym' \in [Names -> Symbol] /\ publist' \subseteq (1 .. MaxMods) \X Names
        /\ sym'[n] = [kind |-> "communal", seg |-> Len(segs) + 1, mod |-> mod] /\ mod \in 1 .. MaxMods
        /\ \A k \in Names \ {n} : sym'[k] = sym[k]
    BY <1>1, <1>3, <2>1, <2>3, Better DEF Kinds
  <2>5. Replaced(n) = segs BY <1>3 DEF Replaced, Communal
  <2>6. /\ segs' \in Seq(Segment) /\ Len(segs') >= Len(segs) + 1
        /\ OnlyDefinitionStays' /\ \A k \in Names : SymbolFine(k)'
    <3>1. sym'[n].seg = Len(segs) + 1 /\ sym'[n].mod = mod /\ sym'[n].kind \in {"communal", "comdat"} BY <2>4
    <3>2. segs' = Replaced(n) \o e BY <2>1, <2>5
    <3> HIDE DEF e
    <3> QED BY <1>1, <2>2, <2>4, <3>1, <3>2, NewSegments
  <2>7. TypeOK'
    <3>1. infos' \in [Names -> [seg : 0 .. Len(segs'), pieces : Seq(Nat)]] BY <1>1, <2>6 DEF Inv, TypeOK
    <3> QED BY <1>1, <2>4, <2>6, <3>1 DEF Inv, TypeOK
  <2> QED BY <2>4, <2>6, <2>7 DEF Inv
<1> QED BY <1>2, <1>3

LEMMA ComDatInv ==
  ASSUME LegalRecords, Inv, NEW n \in Names, NEW place \in Automatic \cup {"explicit"}, NEW align \in Nat, NEW length \in Nat,
         ComDat(n, place, align, length)
  PROVE  Inv'
<1>1. /\ Declare(n, "comdat", length) /\ mod' = mod /\ segs \in Seq(Segment) /\ Len(segs) \in Nat
  BY DEF ComDat, Inv, TypeOK
<1> DEFINE i == [seg |-> IF Taken(n) THEN 0 ELSE Len(segs) + 1, pieces |-> <<length>>]
<1>2. infos' = [infos EXCEPT ![n] = i] BY DEF ComDat
<1>3. CASE Taken(n)
  <2>1. /\ sym' = sym /\ publist' = publist /\ segs' = segs /\ cdatSegments' = cdatSegments
        /\ cdatSegNum' = cdatSegNum
    BY <1>3 DEF ComDat
  <2>2. came' \subseteq Declaration /\ Read' /\ OneDefinition' /\ InOneList'
    BY <1>1, <1>3, <2>1, NoBetter DEF Kinds, Taken
  <2>3. OnlyDefinitionStays' /\ \A k \in Names : SymbolFine(k)'
    BY <1>1, <2>1 DEF Inv, OnlyDefinitionStays, SymbolFine, Communal
  <2>4. i \in [seg : 0 .. Len(segs), pieces : Seq(Nat)] BY <1>1, <1>3
  <2>5. TypeOK' BY <1>1, <1>2, <2>1, <2>2, <2>4 DEF Inv, TypeOK
  <2> QED BY <2>2, <2>3, <2>5 DEF Inv
<1>4. CASE ~Taken(n)
  <2>1. /\ AddToLinkerComdat(n, place, align, length)
        /\ Become(n, "comdat", Len(segs) + 1) /\ publist' = Publish(n)
    BY <1>4 DEF ComDat
  <2>2. /\ came' \subseteq Declaration /\ Read' /\ OneDefinition' /\ InOneList'
        /\ sym' \in [Names -> Symbol] /\ publist' \subseteq (1 .. MaxMods) \X Names
        /\ sym'[n] = [kind |-> "comdat", seg |-> Len(segs) + 1, mod |-> mod] /\ mod \in 1 .. MaxMods
        /\ \A k \in Names \ {n} : sym'[k] = sym[k]
    <3>1. Len(segs) + 1 \in Nat BY <1>1
    <3> QED BY <1>1, <1>4, <2>1, <3>1, Better DEF Kinds, Taken
  <2>3. PICK leader \in Leader :
          /\ segs' = Replaced(n) \o << Segdata(n, length, align, leader) >>
          /\ cdatSegNum' \in Nat /\ cdatSegments' \in [Automatic -> 0 .. cdatSegNum']
    <3>1. cdatSegNum \in Nat /\ cdatSegments \in [Automatic -> 0 .. cdatSegNum] BY DEF Inv, TypeOK
    <3>2. CASE place \notin Automatic
      <4>1. <<place>> \in Leader BY <3>2 DEF Leader
      <4> QED BY <4>1, <3>1, <3>2, <2>1 DEF AddToLinkerComdat
    <3>3. CASE place \in Automatic
      <4> DEFINE new == NeedsSegment(place, align, length)
                 num == IF new THEN cdatSegNum + 1 ELSE cdatSegments[place]
      <4>1. num \in Nat BY <3>1, <3>3
      <4>2. CdatLeader(num) \in Leader BY <4>1 DEF Leader, CdatLeader
      <4>3. /\ segs' = Replaced(n) \o << Segdata(n, length, align, CdatLeader(num)) >>
            /\ cdatSegments' = [cdatSegments EXCEPT ![place] = num]
            /\ cdatSegNum' = IF new THEN num ELSE cdatSegNum
        BY <2>1, <3>3 DEF AddToLinkerComdat
      <4>4. cdatSegNum' \in Nat /\ num \in 0 .. cdatSegNum' /\ cdatSegNum <= cdatSegNum'
        <5>1. CASE new BY <5>1, <4>3, <3>1
        <5>2. CASE ~new BY <5>2, <4>3, <3>1, <3>3
        <5> QED BY <5>1, <5>2
      <4>5. cdatSegments' \in [Automatic -> 0 .. cdatSegNum']
        <5> HIDE DEF num, new
        <5>1. \A p \in Automatic : cdatSegments[p] \in 0 .. cdatSegNum' BY <4>4, <3>1
        <5>2. DOMAIN cdatSegments = Automatic BY <3>1
        <5> QED BY <4>3, <4>4, <5>1, <5>2
      <4> QED BY <4>2, <4>3, <4>4, <4>5
    <3> QED BY <3>2, <3>3
  <2> DEFINE e == << Segdata(n, length, align, leader) >>
  <2>4. /\ e \in Seq(Segment) /\ e # << >>
        /\ \A k \in 1 .. Len(e) : e[k].of = n /\ ~e[k].dead /\ (e[k].rest <=> k # 1)
    <3>1. Segdata(n, length, align, leader) \in Segment BY DEF Segdata, Segment
    <3>2. e \in Seq(Segment) /\ Len(e) = 1 /\ e[1] = Segdata(n, length, align, leader) BY <3>1
    <3>3. /\ Segdata(n, length, align, leader).of = n /\ ~Segdata(n, length, align, leader).dead
          /\ ~Segdata(n, length, align, leader).rest
      BY DEF Segdata
    <3> QED BY <3>2, <3>3
  <2>5. /\ segs' \in Seq(Segment) /\ Len(segs') >= Len(segs) + 1
        /\ OnlyDefinitionStays' /\ \A k \in Names : SymbolFine(k)'
    <3>1. sym'[n].seg = Len(segs) + 1 /\ sym'[n].mod = mod /\ sym'[n].kind \in {"communal", "comdat"} BY <2>2
    <3>2. segs' = Replaced(n) \o e BY <2>3
    <3> HIDE DEF e
    <3> QED BY <1>1, <2>2, <2>4, <3>1, <3>2, NewSegments
  <2>6. TypeOK'
    <3>1. i \in [seg : 0 .. Len(segs'), pieces : Seq(Nat)] BY <1>1, <1>4, <2>5
    <3>2. infos' \in [Names -> [seg : 0 .. Len(segs'), pieces : Seq(Nat)]]
      <4> HIDE DEF i
      <4> QED BY <3>1, <1>1, <1>2, <2>5 DEF Inv, TypeOK
    <3> QED BY <1>1, <2>2, <2>3, <2>5, <3>2 DEF Inv, TypeOK
  <2> QED BY <2>2, <2>5, <2>6 DEF Inv
<1> QED BY <1>3, <1>4

LEMMA ContinueInv == ASSUME LegalRecords, Inv, NEW n \in Names, NEW length \in Nat, Continue(n, length) PROVE Inv'
<1>1. /\ Continues(n, length) /\ mod' = mod /\ sym' = sym /\ publist' = publist
      /\ cdatSegments' = cdatSegments /\ cdatSegNum' = cdatSegNum
      /\ segs \in Seq(Segment) /\ infos[n] \in [seg : 0 .. Len(segs), pieces : Seq(Nat)]
  BY DEF Continue, Continues, Inv, TypeOK
<1> DEFINE i == infos[n].seg
           l(c) == IF <<c.of, c.mod>> = <<n, mod>> THEN [c EXCEPT !.size = @ + length] ELSE c
<1>2. segs' = Longer(i, length) /\ i \in 0 .. Len(segs) BY <1>1 DEF Continue
<1>3. /\ segs' \in Seq(Segment) /\ Len(segs') = Len(segs)
      /\ \A k \in 1 .. Len(segs) : /\ segs'[k].of = segs[k].of /\ segs'[k].rest = segs[k].rest
                                   /\ segs'[k].dead = segs[k].dead
  <2>1. CASE i = 0 BY <2>1, <1>1, <1>2 DEF Longer
  <2>2. CASE i # 0
    <3>1. segs[i] \in Segment BY <2>2, <1>1, <1>2
    <3>2. segs[i].length + length \in Nat BY <3>1 DEF Segment
    <3>3. segs' = [segs EXCEPT ![i].length = segs[i].length + length] BY <2>2, <1>2 DEF Longer
    <3> QED BY <3>2, <3>3, <2>2, <1>2, Lengthened
  <2> QED BY <2>1, <2>2
<1>4. OnlyDefinitionStays' /\ \A k \in Names : SymbolFine(k)' BY <1>1, <1>3, SameSegments
<1>5. came' = {l(c) : c \in came} BY <1>1 DEF Continues
<1>6. ASSUME NEW c \in came
      PROVE  /\ l(c) \in Declaration /\ l(c).of = c.of /\ l(c).kind = c.kind /\ l(c).mod = c.mod
             /\ c.mod \in Nat
  <2>1. c \in Declaration BY DEF Inv, TypeOK
  <2>2. c.mod \in Nat BY <2>1, Limits DEF Declaration
  <2>3. CASE <<c.of, c.mod>> = <<n, mod>>
    <3>1. l(c) = [c EXCEPT !.size = c.size + length] /\ c.size + length \in Nat BY <2>1, <2>3 DEF Declaration
    <3> HIDE DEF l
    <3> QED BY <2>1, <2>2, <3>1 DEF Declaration
  <2>4. CASE <<c.of, c.mod>> # <<n, mod>> BY <2>1, <2>2, <2>4
  <2> QED BY <2>3, <2>4
<1> HIDE DEF l
<1>7. came' \subseteq Declaration /\ Read' BY <1>1, <1>5, <1>6 DEF Inv, Read
<1>8. ASSUME NEW k \in Names, NEW x \in Kinds
      PROVE  /\ \A c \in Said(k, x) : l(c) \in Said(k, x)' /\ l(c).mod = c.mod
             /\ \A d \in Said(k, x)' : \E c \in Said(k, x) : c.mod = d.mod
  BY <1>5, <1>6 DEF Said
<1>9. ASSUME NEW k \in Names PROVE Means(k)' = Means(k)
  <2>1. ASSUME NEW x \in Kinds PROVE Said(k, x)' = {} <=> Said(k, x) = {} BY <1>8
  <2> QED BY <2>1 DEF Means, Kinds
<1>10. OneDefinition'
  <2>1. ASSUME NEW k \in Names PROVE Means(k) \in Kinds BY DEF Means, Kinds
  <2> QED BY <2>1, <1>1, <1>8, <1>9 DEF Inv, OneDefinition
<1>11. InOneList' BY <1>1 DEF Inv, InOneList
<1>12. infos' \in [Names -> [seg : 0 .. Len(segs'), pieces : Seq(Nat)]]
  <2>1. infos' = [infos EXCEPT ![n].pieces = Append(infos[n].pieces, length)] BY <1>1 DEF Continues
  <2>2. Append(infos[n].pieces, length) \in Seq(Nat) BY <1>1
  <2> QED BY <2>1, <2>2, <1>1, <1>3 DEF Inv, TypeOK
<1>13. TypeOK' BY <1>1, <1>3, <1>7, <1>12 DEF Inv, TypeOK
<1> QED BY <1>4, <1>7, <1>10, <1>11, <1>13 DEF Inv

LEMMA ResolveComdatsInv == ASSUME LegalRecords, Inv, ResolveComdats PROVE Inv'
<1>1. /\ segs \in Seq(Segment) /\ sym' = sym /\ publist' = publist /\ came' = came
      /\ cdatSegments' = cdatSegments /\ cdatSegNum' = cdatSegNum /\ mod' = mod + 1
      /\ mod \in 1 .. MaxMods /\ segs' = [i \in DOMAIN segs |-> Stored(i)]
      /\ infos \in [Names -> [seg : 0 .. Len(segs), pieces : Seq(Nat)]]
  BY Limits DEF Inv, TypeOK, ResolveComdats, Reading
<1>2. ASSUME NEW i \in 1 .. Len(segs)
      PROVE  /\ Stored(i) \in Segment /\ Stored(i).of = segs[i].of /\ Stored(i).rest = segs[i].rest
             /\ Stored(i).dead = segs[i].dead
  <2>1. segs[i] \in Segment BY <1>1
  <2>2. CASE \E n \in Names : infos[n].seg = i
    <3> DEFINE p == infos[CHOOSE n \in Names : infos[n].seg = i].pieces
    <3>1. Stored(i) = [segs[i] EXCEPT !.data = p] BY <2>2 DEF Stored
    <3>2. p \in Seq(Nat) BY <2>2, <1>1
    <3> HIDE DEF p
    <3> QED BY <3>1, <3>2, <2>1 DEF Segment
  <2>3. CASE ~\E n \in Names : infos[n].seg = i BY <2>3, <2>1 DEF Stored
  <2> QED BY <2>2, <2>3
<1>3. /\ segs' \in Seq(Segment) /\ Len(segs') = Len(segs)
      /\ \A i \in 1 .. Len(segs) : /\ segs'[i].of = segs[i].of /\ segs'[i].rest = segs[i].rest
                                   /\ segs'[i].dead = segs[i].dead
  BY <1>1, <1>2
<1>4. OnlyDefinitionStays' /\ \A k \in Names : SymbolFine(k)'
  BY <1>1, <1>3, SameSegments
<1>5. Read' /\ OneDefinition' /\ InOneList'
  <2>1. Read' /\ InOneList' BY <1>1, Limits DEF Inv, Read, InOneList, TypeOK, Declaration
  <2>2. \A n \in Names : Means(n)' = Means(n) /\ \A x \in Kinds : Said(n, x)' = Said(n, x)
    BY <1>1 DEF Said, Means
  <2>3. OneDefinition' BY <1>1, <2>2 DEF Inv, OneDefinition, Means, Kinds
  <2> QED BY <2>1, <2>3
<1>6. infos' \in [Names -> [seg : 0 .. Len(segs'), pieces : Seq(Nat)]]
  BY <1>1, <1>3 DEF ResolveComdats, NoInfo
<1>7. TypeOK' BY <1>1, <1>3, <1>6, Limits DEF Inv, TypeOK
<1> QED BY <1>4, <1>5, <1>7 DEF Inv

LEMMA Unmoved ==
  ASSUME Inv, UNCHANGED <<mod, sym, publist, segs, cdatSegments, cdatSegNum, infos, came>> PROVE Inv'
<1>1. TypeOK' /\ Read' /\ InOneList' BY DEF Inv, TypeOK, Read, InOneList
<1>2. OnlyDefinitionStays' /\ \A n \in Names : SymbolFine(n)' BY DEF Inv, SymbolFine, Communal, OnlyDefinitionStays
<1>3. OneDefinition'
  <2>1. \A n \in Names : Means(n)' = Means(n) /\ Said(n, Means(n))' = Said(n, Means(n)) BY DEF Said, Means
  <2> QED BY <2>1 DEF Inv, OneDefinition
<1> QED BY <1>1, <1>2, <1>3 DEF Inv

LEMMA InitInv == ASSUME LegalRecords, Init PROVE Inv
<1>1. TypeOK
  <2>1. mod \in 1 .. MaxMods + 1 /\ publist \subseteq (1 .. MaxMods) \X Names /\ came \subseteq Declaration
    BY Limits DEF Init
  <2>2. sym \in [Names -> Symbol] BY Limits DEF Init, Symbol, Kinds
  <2>3. segs \in Seq(Segment) /\ Len(segs) = 0 BY DEF Init
  <2>4. infos \in [Names -> [seg : 0 .. Len(segs), pieces : Seq(Nat)]] BY <2>3 DEF Init, NoInfo
  <2>5. cdatSegNum \in Nat /\ cdatSegments \in [Automatic -> 0 .. cdatSegNum] BY DEF Init
  <2> QED BY <2>1, <2>2, <2>3, <2>4, <2>5 DEF TypeOK
<1>2. Read /\ \A n \in Names : SymbolFine(n) BY DEF Init, Read, SymbolFine, Communal
<1>3. OneDefinition /\ InOneList /\ OnlyDefinitionStays
  BY DEF Init, OneDefinition, Said, Means, InOneList, OnlyDefinitionStays, Communal
<1> QED BY <1>1, <1>2, <1>3 DEF Inv

LEMMA InvStays == ASSUME LegalRecords, Inv, [Next]_vars PROVE Inv'
<1>1. ASSUME NEW n \in Names, PubDef(n) PROVE Inv' BY <1>1, PubDefInv
<1>2. ASSUME NEW n \in Names, NEW c \in Sizes, ComDef(n, c[1], c[2]) PROVE Inv'
  <2>1. c[1] \in Nat /\ c[2] \in BOOLEAN BY DEF LegalRecords
  <2> QED BY <2>1, <1>2, ComDefInv
<1>3. ASSUME NEW n \in Names, NEW s \in Selections, ComDat(n, s[1], s[2], s[3]) PROVE Inv'
  <2>1. s[1] \in Automatic \cup {"explicit"} /\ s[2] \in Nat /\ s[3] \in Nat BY DEF LegalRecords, Automatic
  <2> QED BY <2>1, <1>3, ComDatInv
<1>4. ASSUME NEW n \in Names, NEW l \in More, Continue(n, l) PROVE Inv'
  <2>1. l \in Nat BY DEF LegalRecords
  <2> QED BY <2>1, <1>4, ContinueInv
<1>5. CASE ResolveComdats BY <1>5, ResolveComdatsInv
<1>6. CASE CalcSegSizes BY <1>6, Unmoved DEF CalcSegSizes
<1>7. CASE UNCHANGED vars BY <1>7, Unmoved DEF vars
<1> QED BY <1>1, <1>2, <1>3, <1>4, <1>5, <1>6, <1>7 DEF Next

(* A name means what the best and first of its declarations says, whatever   *)
(* names the modules declare, as what and in which order; it is in the list  *)
(* of that module alone, and of what was made for the other declarations     *)
(* nothing stays (DefineSymbol, MakeCommunalSym, ProcComdat, HashReplace).   *)
THEOREM OneMeaning == ASSUME LegalRecords PROVE Spec => [](OneDefinition /\ InOneList /\ OnlyDefinitionStays)
<1>1. Init => Inv BY InitInv
<1>2. Inv /\ [Next]_vars => Inv' BY InvStays
<1>3. Inv => OneDefinition /\ InOneList /\ OnlyDefinitionStays BY DEF Inv
<1> QED BY <1>1, <1>2, <1>3, PTL DEF Spec
-------------------------------------------------------------------------------
(* Archives.                                                               *)

Cells == [i \in Ar!Entries |-> [name |-> fnametab[i], module |-> offsettab[i]]]

\* What entry j has in the end, as index_tab has it: the entry the cycle began
\* with has been set aside.
Wanted == [j \in Ar!Entries |->
    IF pc = "cycle" /\ indexTab[j] = ixSave /\ j # ixSave THEN saved ELSE Cells[indexTab[j]]]
Table == IF pc \in {"scan", "cycle"} THEN Wanted ELSE Cells

Complete(t) ==
    /\ \A j \in Ar!Entries : t[j] \in listed
    /\ \A e \in listed : \E j \in Ar!Entries : t[j] = e
Sorted(t) == \A i, j \in Ar!Entries : i < j => Ar!Key(t[i].name) <= Ar!Key(t[j].name)

ArTypes ==
    /\ Ar!TypeOK
    /\ \E n \in 0 .. MaxEntries : Ar!Entries = 0 .. n - 1
    /\ ix \in Nat /\ ixSave \in Nat /\ caseFlag \in BOOLEAN /\ numdicts \in {1, 2}
    /\ pc \in {"scan", "cycle"} => indexTab \in [Ar!Entries -> Ar!Entries]
    /\ pc = "cycle" => saved \in [name : Names, module : 1 .. MaxEntries]

\* Where the loops are: index_tab is a permutation as long as no cycle is open;
\* everything before the entry of the outer loop is in place.
Places ==
    /\ pc = "read" => ix = 0
    /\ pc = "scan" =>
          /\ ix \in Ar!Entries \/ \A j \in Ar!Entries : j < ix
          /\ \A j \in Ar!Entries : j < ix => indexTab[j] = j
          /\ \A i, j \in Ar!Entries : indexTab[i] = indexTab[j] => i = j
    /\ pc = "cycle" =>
          /\ \A j \in Ar!Entries : j < ixSave => indexTab[j] = j
          /\ \A i, j \in Ar!Entries \ {ixSave} : indexTab[i] = indexTab[j] => i = j
          /\ ix = ixSave => /\ indexTab[ix] # ix
                            /\ \A i, j \in Ar!Entries : indexTab[i] = indexTab[j] => i = j
          /\ ix # ixSave => /\ indexTab[ixSave] = ixSave
                            /\ \A j \in Ar!Entries : indexTab[j] # ix

\* The second dictionary of an archive is in the order of strcmp.
ReadSorted == pc = "read" /\ numdicts = 2 =>
    \A i, j \in Ar!Entries : i < j => StrKey(fnametab[i]) <= StrKey(fnametab[j])

ArInv ==
    /\ ArTypes /\ Places /\ ReadSorted
    /\ Complete(Table)
    /\ pc # "read" => Sorted(Table)
    /\ Ar!ArFinds

ArBounds ==
    /\ MaxEntries \in Nat /\ IndexLimit \in Nat /\ MaxEntries <= IndexLimit
    /\ \A n \in Names : StrKey(n) \in Nat /\ StrIKey(n) \in Nat
-----------------------------------------------------------------------------
\* An index below the limit is not cut off.
LEMMA NotCut ==
    ASSUME NEW x \in Nat, NEW l \in Nat, x < l PROVE x % l = x
  OBVIOUS

\* The archive as it is read.
LEMMA ArInitInv == ASSUME ArBounds, Ar!Init PROVE ArInv
  <1>0. PICK n \in 0 .. MaxEntries : \E f \in [0 .. n - 1 -> Names] :
            /\ numdicts = 2 => \A i, j \in 0 .. n - 1 : i < j => StrKey(f[i]) <= StrKey(f[j])
            /\ listed = {[name |-> f[i], module |-> i + 1] : i \in 0 .. n - 1}
            /\ fnametab = f /\ offsettab = [i \in 0 .. n - 1 |-> i + 1]
    BY DEF Ar!Init
  <1>1. PICK f \in [0 .. n - 1 -> Names] :
            /\ numdicts = 2 => \A i, j \in 0 .. n - 1 : i < j => StrKey(f[i]) <= StrKey(f[j])
            /\ listed = {[name |-> f[i], module |-> i + 1] : i \in 0 .. n - 1}
            /\ fnametab = f /\ offsettab = [i \in 0 .. n - 1 |-> i + 1]
    BY <1>0
  <1>2. Ar!Entries = 0 .. n - 1
    BY <1>1 DEF Ar!Entries
  <1>3. pc = "read" /\ ix = 0 /\ ixSave = 0 /\ caseFlag \in BOOLEAN /\ numdicts \in {1, 2} /\ result = << >>
    BY DEF Ar!Init
  <1>4. ArTypes
    <2>1. offsettab \in [Ar!Entries -> 1 .. MaxEntries]
      BY <1>1, <1>2, SMT DEF ArBounds
    <2> QED
      BY <1>1, <1>2, <1>3, <2>1 DEF ArTypes, Ar!TypeOK
  <1>5. Places /\ ReadSorted
    BY <1>1, <1>2, <1>3 DEF Places, ReadSorted
  <1>6. \A j \in Ar!Entries : Table[j] = [name |-> f[j], module |-> j + 1]
    BY <1>1, <1>2, <1>3 DEF Table, Cells
  <1>7. Complete(Table)
    BY <1>1, <1>2, <1>6 DEF Complete
  <1>8. Ar!ArFinds
    BY <1>3 DEF Ar!ArFinds
  <1> QED
    BY <1>3, <1>4, <1>5, <1>7, <1>8 DEF ArInv

\* The order qsort finds: the table is one of the same entries.
LEMMA SortInv == ASSUME ArBounds, ArInv, Ar!Sort PROVE ArInv'
  <1>0. ArTypes /\ ReadSorted /\ Complete(Table) /\ Ar!ArFinds /\ pc = "read" /\ ix = 0
    BY DEF ArInv, Places, Ar!Sort
  <1>1. UNCHANGED <<Ar!file, fnametab, offsettab, ix, ixSave, saved, result>>
    BY DEF Ar!Sort
  <1>2. Ar!Entries' = Ar!Entries /\ Ar!ArFinds' /\ ReadSorted'
    BY <1>0, <1>1 DEF Ar!Entries, Ar!ArFinds, Ar!Same, Ar!Key, Ar!file, ReadSorted, Ar!Sort
  <1>3. Table = Cells
    BY <1>0 DEF Table
  <1>6. \A j \in Ar!Entries : Cells[j].name = fnametab[j]
    BY DEF Cells
  <1>4. CASE ~Ar!SortNeeded
    <2>1. pc' = "ready" /\ indexTab' = indexTab
      BY <1>4 DEF Ar!Sort
    <2>2. Table' = Table
      BY <2>1, <1>0, <1>1, <1>2 DEF Table, Cells
    <2>3. Complete(Table)'
      BY <2>2, <1>0, <1>1, <1>2 DEF Complete, Ar!file
    <2>4. \A i, j \in Ar!Entries : i < j => Ar!Key(fnametab[i]) <= Ar!Key(fnametab[j])
      BY <1>4, <1>0 DEF Ar!SortNeeded, ReadSorted, Ar!Key, ArTypes
    <2>5. Sorted(Table)'
      <3>1. \A j \in Ar!Entries : Table'[j].name = fnametab[j]
        BY <2>2, <1>3, <1>6
      <3>2. Ar!Entries' = Ar!Entries /\ caseFlag' = caseFlag
        BY <1>1, <1>2 DEF Ar!file
      <3> QED
        BY <2>4, <3>1, <3>2 DEF Sorted, Ar!Key
    <2>6. ArTypes' /\ Places'
      BY <1>0, <1>1, <1>2, <2>1 DEF ArTypes, Ar!TypeOK, Places, Ar!file
    <2> QED
      BY <1>2, <2>1, <2>3, <2>5, <2>6 DEF ArInv
  <1>5. CASE Ar!SortNeeded
    <2>1. pc' = "scan"
      BY <1>5 DEF Ar!Sort
    <2>2. PICK s \in Ar!Bijection(Ar!Entries, Ar!Entries) :
             /\ \A i, j \in Ar!Entries : i < j => Ar!Key(fnametab[s[i]]) <= Ar!Key(fnametab[s[j]])
             /\ indexTab' = [i \in Ar!Entries |-> s[i] % IndexLimit]
      BY <1>5 DEF Ar!Sort
    <2>3. /\ s \in [Ar!Entries -> Ar!Entries]
          /\ \A i, j \in Ar!Entries : s[i] = s[j] => i = j
          /\ \A i \in Ar!Entries : \E j \in Ar!Entries : s[j] = i
      BY <2>2 DEF Ar!Bijection, Ar!Injection, Ar!Surjection, Ar!IsInjective
    <2>4. PICK n \in 0 .. MaxEntries : Ar!Entries = 0 .. n - 1
      BY <1>0 DEF ArTypes
    <2>5. \A i \in Ar!Entries : s[i] \in Nat /\ s[i] < IndexLimit
      BY <2>3, <2>4 DEF ArBounds
    <2>6. \A i \in Ar!Entries : indexTab'[i] = s[i]
      BY <2>2, <2>5, NotCut DEF ArBounds
    <2>7. indexTab' \in [Ar!Entries -> Ar!Entries]
      BY <2>2, <2>3, <2>6
    <2>8. \A j \in Ar!Entries : Table'[j] = Cells[s[j]]
      BY <2>1, <2>6, <1>1, <1>2 DEF Table, Wanted, Cells
    <2>9. Complete(Table)'
      <3>1. \A j \in Ar!Entries : Table'[j] \in listed
        BY <2>8, <2>3, <1>0, <1>3 DEF Complete
      <3>2. \A e \in listed : \E j \in Ar!Entries : Table'[j] = e
        BY <2>8, <2>3, <1>0, <1>3 DEF Complete
      <3> QED
        BY <3>1, <3>2, <1>1, <1>2 DEF Complete, Ar!file
    <2>10. Sorted(Table)'
      <3>1. \A j \in Ar!Entries : Table'[j].name = fnametab[s[j]]
        BY <2>3, <2>8, <1>6
      <3>2. Ar!Entries' = Ar!Entries /\ caseFlag' = caseFlag
        BY <1>1, <1>2 DEF Ar!file
      <3> QED
        BY <2>2, <3>1, <3>2 DEF Sorted, Ar!Key
    <2>11. ArTypes'
      BY <1>0, <1>1, <1>2, <2>1, <2>7 DEF ArTypes, Ar!TypeOK, Ar!file
    <2>12. Places'
      <3>1. 0 \in Ar!Entries
        BY <1>5, <2>4 DEF Ar!SortNeeded
      <3>2. \A j \in Ar!Entries : ~(j < 0)
        BY <2>4
      <3>3. \A i, j \in Ar!Entries : indexTab'[i] = indexTab'[j] => i = j
        BY <2>3, <2>6
      <3>4. ix' = 0
        BY <1>0, <1>1
      <3> QED
        BY <1>2, <2>1, <3>1, <3>2, <3>3, <3>4 DEF Places
    <2> QED
      BY <1>2, <2>1, <2>9, <2>10, <2>11, <2>12 DEF ArInv
  <1> QED
    BY <1>4, <1>5

\* A round of the loops that leaves Table alone keeps what is said of it.
LEMMA SameTable ==
    ASSUME ArInv, pc # "read", pc' # "read", ArTypes', Places', Table' = Table, Ar!Entries' = Ar!Entries,
           UNCHANGED <<Ar!file, result>>
    PROVE  ArInv'
  <1>1. Complete(Table)'
    BY DEF ArInv, Complete, Ar!file
  <1>2. Sorted(Table)'
    BY DEF ArInv, Sorted, Ar!Key, Ar!file
  <1>3. Ar!ArFinds' /\ ReadSorted'
    BY DEF ArInv, Ar!ArFinds, Ar!Same, Ar!Key, Ar!file, ReadSorted
  <1> QED
    BY <1>1, <1>2, <1>3 DEF ArInv

\* The outer loop.
LEMMA ScanInv == ASSUME ArBounds, ArInv, Ar!Scan PROVE ArInv'
  <1>0. ArTypes /\ Places /\ pc = "scan" /\ Ar!Entries' = Ar!Entries
    BY DEF ArInv, Ar!Scan, Ar!Entries
  <1>1. UNCHANGED <<Ar!file, fnametab, offsettab, indexTab, result>> /\ ixSave' = ix
    BY DEF Ar!Scan
  <1>2. PICK n \in 0 .. MaxEntries : Ar!Entries = 0 .. n - 1
    BY <1>0 DEF ArTypes
  <1>3. indexTab \in [Ar!Entries -> Ar!Entries]
    BY <1>0 DEF ArTypes
  <1>4. \A j \in Ar!Entries : Table[j] = Cells[indexTab[j]]
    BY <1>0 DEF Table, Wanted
  <1>5. CASE ix \notin Ar!Entries
    <2>1. pc' = "ready" /\ ix' = ix /\ saved' = saved
      BY <1>5 DEF Ar!Scan
    <2>2. \A j \in Ar!Entries : indexTab[j] = j
      BY <1>0, <1>5 DEF Places
    <2>3. Table' = Table
      <3>1. Table' = Cells' /\ Table = Wanted
        BY <2>1, <1>0 DEF Table
      <3>2. Cells' = Cells
        BY <1>0, <1>1 DEF Cells
      <3>3. Wanted = [j \in Ar!Entries |-> Cells[j]]
        BY <1>0, <2>2 DEF Wanted
      <3>4. Cells = [j \in Ar!Entries |-> Cells[j]]
        BY DEF Cells
      <3> QED
        BY <3>1, <3>2, <3>3, <3>4
    <2>4. ArTypes' /\ Places'
      BY <1>0, <1>1, <2>1 DEF ArTypes, Ar!TypeOK, Places, Ar!file
    <2> QED
      BY <2>1, <2>3, <2>4, <1>0, <1>1, SameTable
  <1>6. CASE ix \in Ar!Entries /\ indexTab[ix] = ix
    <2>1. pc' = "scan" /\ ix' = ix + 1 /\ saved' = saved
      BY <1>6, <1>0 DEF Ar!Scan
    <2>2. Table' = Table
      BY <2>1, <1>0, <1>1 DEF Table, Wanted, Cells
    <2>3. ArTypes'
      BY <1>0, <1>1, <2>1 DEF ArTypes, Ar!TypeOK, Ar!file
    <2>4. Places'
      BY <1>0, <1>1, <1>2, <1>6, <2>1 DEF Places
    <2> QED
      BY <2>1, <2>2, <2>3, <2>4, <1>0, <1>1, SameTable
  <1>7. CASE ix \in Ar!Entries /\ indexTab[ix] # ix
    <2>1. pc' = "cycle" /\ ix' = ix /\ saved' = Cells[ix]
      BY <1>7, <1>0 DEF Ar!Scan, Cells
    <2>2. Table' = Table
      BY <2>1, <1>0, <1>1, <1>7 DEF Table, Wanted, Cells
    <2>3. Cells[ix] \in [name : Names, module : 1 .. MaxEntries]
      BY <1>0, <1>7 DEF Cells, ArTypes, Ar!TypeOK
    <2>4. ArTypes'
      BY <1>0, <1>1, <1>7, <2>1, <2>3 DEF ArTypes, Ar!TypeOK, Ar!file
    <2>5. Places'
      BY <1>0, <1>1, <1>7, <2>1 DEF Places
    <2> QED
      BY <2>1, <2>2, <2>4, <2>5, <1>0, <1>1, SameTable
  <1> QED
    BY <1>5, <1>6, <1>7

\* One entry of a cycle.
LEMMA CorrectInv == ASSUME ArBounds, ArInv, Ar!Correct PROVE ArInv'
  <1>0. ArTypes /\ Places /\ pc = "cycle"
    BY DEF ArInv, Ar!Correct
  <1>1. UNCHANGED <<Ar!file, ixSave, saved, result>> /\ indexTab' = [indexTab EXCEPT ![ix] = ix]
    BY DEF Ar!Correct
  <1>2. PICK n \in 0 .. MaxEntries : Ar!Entries = 0 .. n - 1
    BY <1>0 DEF ArTypes
  <1>3. /\ indexTab \in [Ar!Entries -> Ar!Entries] /\ ix \in Ar!Entries /\ ixSave \in Ar!Entries
        /\ saved \in [name : Names, module : 1 .. MaxEntries]
        /\ fnametab \in [Ar!Entries -> Names] /\ offsettab \in [Ar!Entries -> 1 .. MaxEntries]
    BY <1>0 DEF ArTypes, Ar!TypeOK
  <1>4. /\ \A j \in Ar!Entries : j < ixSave => indexTab[j] = j
        /\ \A i, j \in Ar!Entries \ {ixSave} : indexTab[i] = indexTab[j] => i = j
        /\ ix = ixSave => /\ indexTab[ix] # ix
                          /\ \A i, j \in Ar!Entries : indexTab[i] = indexTab[j] => i = j
        /\ ix # ixSave => indexTab[ixSave] = ixSave /\ \A j \in Ar!Entries : indexTab[j] # ix
    BY <1>0 DEF Places
  <1>5. /\ indexTab' \in [Ar!Entries -> Ar!Entries] /\ indexTab'[ix] = ix
        /\ \A j \in Ar!Entries \ {ix} : indexTab'[j] = indexTab[j]
    BY <1>1, <1>3
  <1>6. CASE indexTab[ix] = ixSave
    <2>1. /\ pc' = "scan" /\ ix' = ixSave + 1
          /\ fnametab' = [fnametab EXCEPT ![ix] = saved.name]
          /\ offsettab' = [offsettab EXCEPT ![ix] = saved.module]
      BY <1>6 DEF Ar!Correct, Ar!GoOn
    <2>2. Ar!Entries' = Ar!Entries
      BY <2>1 DEF Ar!Entries
    <2>3. ix # ixSave
      BY <1>4, <1>6
    <2>4. Cells'[ix] = saved /\ \A j \in Ar!Entries \ {ix} : Cells'[j] = Cells[j]
      <3>1. \A j \in Ar!Entries : Cells'[j] = [name |-> fnametab'[j], module |-> offsettab'[j]]
        BY <2>2 DEF Cells
      <3>2. fnametab'[ix] = saved.name /\ offsettab'[ix] = saved.module
        BY <2>1, <1>3
      <3>3. \A j \in Ar!Entries \ {ix} : fnametab'[j] = fnametab[j] /\ offsettab'[j] = offsettab[j]
        BY <2>1, <1>3
      <3>4. saved = [name |-> saved.name, module |-> saved.module]
        BY <1>3
      <3>5. \A j \in Ar!Entries : Cells[j] = [name |-> fnametab[j], module |-> offsettab[j]]
        BY DEF Cells
      <3>6. Cells'[ix] = saved
        BY <3>1, <3>2, <3>4, <1>3
      <3>7. \A j \in Ar!Entries \ {ix} : Cells'[j] = Cells[j]
        BY <3>1, <3>3, <3>5
      <3> QED
        BY <3>6, <3>7
    <2>5. \A j \in Ar!Entries : Table'[j] = Table[j]
      <3> SUFFICES ASSUME NEW j \in Ar!Entries PROVE Table'[j] = Table[j]
        OBVIOUS
      <3>1. Table'[j] = Cells'[indexTab'[j]] /\ Table[j] = Wanted[j]
        BY <2>1, <2>2, <1>0 DEF Table, Wanted, Cells
      <3>2. CASE j = ix
        <4>1. Table[j] = saved
          BY <3>1, <3>2, <2>3, <1>0, <1>6 DEF Wanted
        <4>2. Table'[j] = Cells'[ix]
          BY <3>1, <3>2, <1>5
        <4> QED
          BY <4>1, <4>2, <2>4
      <3>3. CASE j # ix
        <4>1. indexTab'[j] = indexTab[j] /\ indexTab[j] \in Ar!Entries \ {ix}
          BY <3>3, <2>3, <1>3, <1>4, <1>5
        <4>2. ~(indexTab[j] = ixSave /\ j # ixSave)
          BY <3>3, <2>3, <1>3, <1>4, <1>6
        <4> QED
          <5>1. Table[j] = Cells[indexTab[j]]
            BY <4>2, <3>1, <1>0 DEF Wanted
          <5>2. Table'[j] = Cells'[indexTab[j]]
            BY <4>1, <3>1
          <5> QED
            BY <5>1, <5>2, <4>1, <2>4
      <3> QED
        BY <3>2, <3>3
    <2>6. Table' = Table
      <3>1. Table' = [j \in Ar!Entries |-> Table'[j]]
        <4>1. Cells' = [j \in Ar!Entries |-> Cells'[j]]
          BY <2>2 DEF Cells
        <4>2. Wanted' = [j \in Ar!Entries |-> Wanted'[j]]
          BY <2>2 DEF Wanted
        <4> QED
          BY <4>1, <4>2 DEF Table
      <3>2. Table = [j \in Ar!Entries |-> Table[j]]
        <4>1. Cells = [j \in Ar!Entries |-> Cells[j]]
          BY DEF Cells
        <4>2. Wanted = [j \in Ar!Entries |-> Wanted[j]]
          BY DEF Wanted
        <4> QED
          BY <4>1, <4>2 DEF Table
      <3> QED
        BY <2>5, <3>1, <3>2
    <2>7. ArTypes'
      <3>1. fnametab' \in [Ar!Entries -> Names]
        BY <2>1, <1>3
      <3>2. offsettab' \in [Ar!Entries -> 1 .. MaxEntries]
        BY <2>1, <1>3
      <3>3. Ar!TypeOK'
        BY <3>1, <3>2, <2>1, <2>2 DEF Ar!TypeOK
      <3>4. ix' \in Nat /\ ixSave' \in Nat
        BY <1>0, <1>1, <2>1 DEF ArTypes
      <3> QED
        BY <1>0, <1>1, <1>5, <2>1, <2>2, <3>3, <3>4 DEF ArTypes, Ar!file
    <2>8. Places'
      <3>1. ix' \in Ar!Entries \/ \A j \in Ar!Entries : j < ix'
        BY <2>1, <1>2, <1>3
      <3>2. \A j \in Ar!Entries : j < ix' => indexTab'[j] = j
        <4>1. \A j \in Ar!Entries : j < ix' => j < ixSave \/ j = ixSave
          BY <2>1, <1>2, <1>3
        <4>2. indexTab'[ixSave] = ixSave
          BY <2>3, <1>3, <1>4, <1>5
        <4> QED
          BY <4>1, <4>2, <1>4, <1>5
      <3>3. \A i, j \in Ar!Entries : indexTab'[i] = indexTab'[j] => i = j
        BY <2>3, <1>3, <1>4, <1>5, <1>6
      <3> QED
        BY <2>1, <2>2, <3>1, <3>2, <3>3 DEF Places
    <2> QED
      BY <2>1, <2>2, <2>6, <2>7, <2>8, <1>0, <1>1, SameTable
  <1>7. CASE indexTab[ix] # ixSave
    <2> DEFINE next == indexTab[ix]
    <2>1. /\ pc' = "cycle" /\ ix' = next
          /\ fnametab' = [fnametab EXCEPT ![ix] = fnametab[next]]
          /\ offsettab' = [offsettab EXCEPT ![ix] = offsettab[next]]
      BY <1>7, <1>0 DEF Ar!Correct
    <2>2. Ar!Entries' = Ar!Entries
      BY <2>1 DEF Ar!Entries
    <2>3. next # ix /\ next \in Ar!Entries /\ next # ixSave
      BY <1>3, <1>4, <1>7
    <2>4. Cells'[ix] = Cells[next] /\ \A j \in Ar!Entries \ {ix} : Cells'[j] = Cells[j]
      <3>1. \A j \in Ar!Entries : Cells'[j] = [name |-> fnametab'[j], module |-> offsettab'[j]]
        BY <2>2 DEF Cells
      <3>2. fnametab'[ix] = fnametab[next] /\ offsettab'[ix] = offsettab[next]
        BY <2>1, <1>3
      <3>3. \A j \in Ar!Entries \ {ix} : fnametab'[j] = fnametab[j] /\ offsettab'[j] = offsettab[j]
        BY <2>1, <1>3
      <3>4. \A j \in Ar!Entries : Cells[j] = [name |-> fnametab[j], module |-> offsettab[j]]
        BY DEF Cells
      <3>5. Cells'[ix] = Cells[next]
        BY <3>1, <3>2, <3>4, <1>3, <2>3
      <3>6. \A j \in Ar!Entries \ {ix} : Cells'[j] = Cells[j]
        BY <3>1, <3>3, <3>4
      <3> QED
        BY <3>5, <3>6
    <2>5. \A j \in Ar!Entries : Table'[j] = Table[j]
      <3> SUFFICES ASSUME NEW j \in Ar!Entries PROVE Table'[j] = Table[j]
        OBVIOUS
      <3>1. /\ Table'[j] = IF indexTab'[j] = ixSave /\ j # ixSave THEN saved ELSE Cells'[indexTab'[j]]
            /\ Table[j] = IF indexTab[j] = ixSave /\ j # ixSave THEN saved ELSE Cells[indexTab[j]]
        BY <2>1, <2>2, <1>0, <1>1 DEF Table, Wanted, Cells
      <3>2. CASE j = ix
        <4>1. Table[j] = Cells[next]
          BY <3>1, <3>2, <1>7
        <4>2. Table'[j] = Cells'[ix]
          BY <3>1, <3>2, <1>5 DEF Cells
        <4> QED
          BY <4>1, <4>2, <2>4
      <3>3. CASE j # ix
        <4>1. indexTab'[j] = indexTab[j]
          BY <3>3, <1>5
        <4>2. CASE indexTab[j] = ixSave /\ j # ixSave
          BY <3>1, <4>1, <4>2
        <4>3. CASE ~(indexTab[j] = ixSave /\ j # ixSave)
          <5>1. indexTab[j] \in Ar!Entries \ {ix}
            BY <3>3, <4>3, <1>3, <1>4
          <5> QED
            BY <5>1, <4>1, <4>3, <3>1, <2>4
        <4> QED
          BY <4>2, <4>3
      <3> QED
        BY <3>2, <3>3
    <2>6. Table' = Table
      <3>1. Table' = [j \in Ar!Entries |-> Table'[j]]
        <4>1. Cells' = [j \in Ar!Entries |-> Cells'[j]]
          BY <2>2 DEF Cells
        <4>2. Wanted' = [j \in Ar!Entries |-> Wanted'[j]]
          BY <2>2 DEF Wanted
        <4> QED
          BY <4>1, <4>2 DEF Table
      <3>2. Table = [j \in Ar!Entries |-> Table[j]]
        <4>1. Cells = [j \in Ar!Entries |-> Cells[j]]
          BY DEF Cells
        <4>2. Wanted = [j \in Ar!Entries |-> Wanted[j]]
          BY DEF Wanted
        <4> QED
          BY <4>1, <4>2 DEF Table
      <3> QED
        BY <2>5, <3>1, <3>2
    <2>7. ArTypes'
      <3>1. fnametab' \in [Ar!Entries -> Names]
        BY <2>1, <2>3, <1>3
      <3>2. offsettab' \in [Ar!Entries -> 1 .. MaxEntries]
        BY <2>1, <2>3, <1>3
      <3>3. Ar!TypeOK'
        BY <3>1, <3>2, <2>1, <2>2, <2>3, <1>1, <1>3 DEF Ar!TypeOK
      <3>4. ix' \in Nat /\ ixSave' \in Nat
        BY <1>0, <1>1, <1>2, <2>1, <2>3 DEF ArTypes
      <3> QED
        BY <1>0, <1>1, <1>3, <1>5, <2>1, <2>2, <3>3, <3>4 DEF ArTypes, Ar!file
    <2>8. Places'
      <3>1. \A j \in Ar!Entries : j < ixSave => indexTab'[j] = j
        BY <1>4, <1>5
      <3>2. \A i, j \in Ar!Entries \ {ixSave} : indexTab'[i] = indexTab'[j] => i = j
        BY <1>3, <1>4, <1>5
      <3>3. indexTab'[ixSave] = ixSave
        BY <1>3, <1>4, <1>5
      <3>4. \A j \in Ar!Entries : indexTab'[j] # next
        BY <2>3, <1>3, <1>4, <1>5
      <3> QED
        BY <2>1, <2>2, <2>3, <1>1, <3>1, <3>2, <3>3, <3>4 DEF Places
    <2> QED
      BY <2>1, <2>2, <2>6, <2>7, <2>8, <1>0, <1>1, SameTable
  <1> QED
    BY <1>6, <1>7

\* A search of the table that is ready.
LEMMA SearchInv == ASSUME ArBounds, ArInv, NEW n \in Names, Ar!ARSearchExtLib(n) PROVE ArInv'
  <1>0. ArTypes /\ Complete(Table) /\ Sorted(Table) /\ pc = "ready"
    BY DEF ArInv, Ar!ARSearchExtLib
  <1>1. UNCHANGED <<Ar!file, Ar!tabs, pc>>
    BY DEF Ar!ARSearchExtLib
  <1>2. \A j \in Ar!Entries : Table[j] = Cells[j] /\ Table[j].name = fnametab[j] /\ Table[j].module = offsettab[j]
    BY <1>0 DEF Table, Cells
  <1>3. Ar!Ordered
    BY <1>0, <1>2 DEF Ar!Ordered, Sorted
  <1>4. Ar!ArFinds'
    <2>1. result'.name = n /\ listed' = listed /\ caseFlag' = caseFlag
      BY <1>1 DEF Ar!ARSearchExtLib, Ar!file
    <2> DEFINE asked == {e \in listed : Ar!Same(e.name, n)}
    <2>2. CASE \E i \in Ar!Equal(n) : result' = [name |-> n, module |-> offsettab[i]]
      <3>1. PICK i \in Ar!Equal(n) : result' = [name |-> n, module |-> offsettab[i]]
        BY <2>2
      <3>2. Table[i] \in asked /\ result'.module = Table[i].module
        BY <3>1, <1>0, <1>2 DEF Ar!Equal, Complete
      <3> QED
        BY <2>1, <3>2 DEF Ar!ArFinds, Ar!Same, Ar!Key
    <2>3. CASE Ar!Equal(n) = {} /\ result' = [name |-> n, module |-> 0]
      <3>1. asked = {}
        BY <2>3, <1>0, <1>2 DEF Ar!Equal, Complete
      <3> QED
        BY <2>1, <2>3, <3>1 DEF Ar!ArFinds, Ar!Same, Ar!Key
    <2> QED
      BY <2>2, <2>3, <1>3 DEF Ar!ARSearchExtLib
  <1>5. ArTypes' /\ Places' /\ ReadSorted' /\ Complete(Table)' /\ Sorted(Table)'
    BY <1>0, <1>1 DEF ArTypes, Ar!TypeOK, Places, ReadSorted, Complete, Sorted, Table, Wanted, Cells, Ar!Entries, Ar!Key, Ar!file, Ar!tabs
  <1> QED
    BY <1>4, <1>5 DEF ArInv

\* The invariant, for every archive.
LEMMA ArInductive == ASSUME ArBounds PROVE Ar!Spec => []ArInv
  <1>1. Ar!Init => ArInv
    BY ArInitInv
  <1>2. ArInv /\ [Ar!Next]_Ar!vars => ArInv'
    <2> SUFFICES ASSUME ArInv, [Ar!Next]_Ar!vars PROVE ArInv'
      OBVIOUS
    <2>1. CASE UNCHANGED Ar!vars
      <3>1. UNCHANGED <<Ar!file, Ar!tabs, pc, result>>
        BY <2>1 DEF Ar!vars
      <3>2. ArTypes' /\ Places' /\ ReadSorted'
        BY <3>1 DEF ArInv, ArTypes, Ar!TypeOK, Places, ReadSorted, Ar!Entries, Ar!file, Ar!tabs
      <3>3. Table' = Table /\ Ar!Entries' = Ar!Entries
        BY <3>1 DEF Table, Wanted, Cells, Ar!Entries, Ar!file, Ar!tabs
      <3>4. Complete(Table)' /\ (pc # "read" => Sorted(Table))'
        BY <3>1, <3>3 DEF ArInv, Complete, Sorted, Ar!Key, Ar!file
      <3>5. Ar!ArFinds'
        BY <3>1 DEF ArInv, Ar!ArFinds, Ar!Same, Ar!Key, Ar!file
      <3> QED
        BY <3>2, <3>4, <3>5 DEF ArInv
    <2> QED
      BY <2>1, SortInv, ScanInv, CorrectInv, SearchInv DEF Ar!Next
  <1> QED
    BY <1>1, <1>2, PTL DEF Ar!Spec

\* What a search of an archive's dictionary answers is what the archive lists
\* (ArFinds), for any number of symbols an index of the sort can count, any
\* names and orders of names: CheckLibraryType and ARSearchExtLib in c/libr.c.
THEOREM ArFindsAlways == ASSUME ArBounds PROVE Ar!Spec => []Ar!ArFinds
  <1>1. ArInv => Ar!ArFinds
    BY DEF ArInv
  <1> QED
    BY <1>1, ArInductive, PTL

-----------------------------------------------------------------------------
(* OMF dictionaries: folds. The steps of JWlib's loops are those of a        *)
(* sequence that starts with the base; FoldExists is what makes it one.      *)

\* Every set of numbers that is not empty has a least one.
LEMMA Least == ASSUME NEW S \in SUBSET Nat, S # {} PROVE \E n \in S : \A m \in S : n <= m
<1> DEFINE R == OpToRel(<, Nat)
<1>1. IsWellFoundedOn(R, Nat) BY NatLessThanWellFounded
<1>2. \A n, m \in Nat : m < n => <<m, n>> \in R BY DEF OpToRel
<1> HIDE DEF R
<1>3. PICK n \in S : \A m \in S : ~(<<m, n>> \in R) BY <1>1, WFMin
<1>4. \A m \in S : ~(m < n) BY <1>2, <1>3
<1> QED BY <1>3, <1>4

Top(S) == CHOOSE x \in S : \A y \in S : x >= y
\* The recursion of a fold: op[<<i, t>>] is what the fold makes of t at element i.
Folded(h, n, base, op) ==
  h = [q \in SUBSET (1 .. n) |-> IF q = {} THEN base ELSE op[<<Top(q), h[q \ {Top(q)}]>>]]

LEMMA TopOf == ASSUME NEW n \in Nat, NEW q \in SUBSET (1 .. n), q # {} PROVE Top(q) \in q /\ \A y \in q : y <= Top(q)
<1> DEFINE S == {n - y : y \in q}
<1>1. S \in SUBSET Nat /\ S # {}
  <2>1. \A y \in q : y \in 1 .. n /\ n - y \in Nat OBVIOUS
  <2>2. PICK y : y \in q OBVIOUS
  <2>3. n - y \in S BY <2>2
  <2>4. \A x \in S : x \in Nat BY <2>1
  <2> QED BY <2>3, <2>4
<1> HIDE DEF S
<1>2. PICK m \in S : \A k \in S : m <= k BY <1>1, Least
<1>3. PICK x \in q : m = n - x BY DEF S
<1>4. \A y \in q : x >= y
  <2> SUFFICES ASSUME NEW y \in q PROVE x >= y
    OBVIOUS
  <2>1. n - y \in S BY DEF S
  <2>2. m <= n - y BY <1>2, <2>1
  <2> QED BY <1>3, <2>2
<1> QED BY <1>4 DEF Top

LEMMA TopIs == ASSUME NEW n \in Nat PROVE Top(1 .. n + 1) = n + 1 /\ (1 .. n + 1) \ {n + 1} = 1 .. n
<1>1. Top(1 .. n + 1) \in 1 .. n + 1 /\ \A y \in 1 .. n + 1 : y <= Top(1 .. n + 1)
  <2>1. PICK m \in Nat : m = n + 1 OBVIOUS
  <2>2. PICK q \in SUBSET (1 .. m) : q = 1 .. m OBVIOUS
  <2>3. m \in q BY <2>1, <2>2
  <2> QED BY <2>1, <2>2, <2>3, TopOf
<1> QED BY <1>1

\* A fold whose steps stay in a set is well defined, and stays there.
LEMMA FoldExists ==
  ASSUME NEW T, NEW base \in T, NEW n \in Nat, NEW op \in [(1 .. n) \X T -> T]
  PROVE  \E h \in [SUBSET (1 .. n) -> T] : Folded(h, n, base, op)
<1> DEFINE Part(h, k) == /\ h \in [SUBSET (1 .. k) -> T]
                         /\ \A q \in SUBSET (1 .. k) : h[q] = IF q = {} THEN base ELSE op[<<Top(q), h[q \ {Top(q)}]>>]
           Has(k) == \E h : Part(h, k)
           Bad == {k \in Nat : k <= n /\ ~Has(k)}
<1>1. Has(0)
  <2> DEFINE h == [q \in SUBSET (1 .. 0) |-> base]
  <2>1. \A q \in SUBSET (1 .. 0) : q = {} OBVIOUS
  <2>2. Part(h, 0) BY <2>1
  <2> QED BY <2>2
<1>2. ASSUME NEW k \in Nat, k + 1 <= n, Has(k) PROVE Has(k + 1)
  <2>1. PICK h : Part(h, k) BY <1>2
  <2> DEFINE Down(q) == q \ {k + 1}
             g == [q \in SUBSET (1 .. k + 1) |-> IF k + 1 \in q THEN op[<<k + 1, h[Down(q)]>>] ELSE h[q]]
  <2>2. \A q \in SUBSET (1 .. k + 1) : Down(q) \in SUBSET (1 .. k) OBVIOUS
  <2>3. \A q \in SUBSET (1 .. k + 1) : k + 1 \notin q => q \in SUBSET (1 .. k) OBVIOUS
  <2>4. \A q \in SUBSET (1 .. k) : h[q] \in T BY <2>1
  <2>5. \A q \in SUBSET (1 .. k + 1) : g[q] = IF k + 1 \in q THEN op[<<k + 1, h[Down(q)]>>] ELSE h[q] OBVIOUS
  <2>6. DOMAIN g = SUBSET (1 .. k + 1) /\ g = [q \in SUBSET (1 .. k + 1) |-> g[q]] OBVIOUS
  <2> HIDE DEF Part, g, Down
  <2>7. ASSUME NEW q \in SUBSET (1 .. k + 1)
        PROVE  g[q] \in T /\ g[q] = IF q = {} THEN base ELSE op[<<Top(q), g[q \ {Top(q)}]>>]
    <3>1. CASE k + 1 \in q
      <4>1. k + 1 \in 1 .. n /\ h[Down(q)] \in T BY <1>2, <2>2, <2>4
      <4>2. g[q] = op[<<k + 1, h[Down(q)]>>] BY <2>5, <3>1
      <4>3. Top(q) = k + 1
        <5>1. PICK m \in Nat : m = k + 1 OBVIOUS
        <5>2. q \in SUBSET (1 .. m) /\ q # {} BY <3>1, <5>1
        <5>3. Top(q) \in q /\ \A y \in q : y <= Top(q) BY <5>2, TopOf
        <5>4. \A y \in q : y \in 1 .. m BY <5>2
        <5>5. m <= Top(q) /\ Top(q) \in 1 .. m BY <3>1, <5>1, <5>3, <5>4
        <5> QED BY <5>1, <5>5
      <4>4. Down(q) \in SUBSET (1 .. k + 1) /\ k + 1 \notin Down(q) BY DEF Down
      <4>5. g[Down(q)] = h[Down(q)] BY <2>5, <4>4
      <4>6. q \ {Top(q)} = Down(q) BY <4>3 DEF Down
      <4>7. op[<<k + 1, h[Down(q)]>>] \in T BY <4>1
      <4> QED BY <3>1, <4>2, <4>3, <4>5, <4>6, <4>7
    <3>2. CASE k + 1 \notin q
      <4>1. q \in SUBSET (1 .. k) BY <2>3, <3>2
      <4>2. g[q] = h[q] /\ h[q] \in T BY <2>4, <2>5, <3>2, <4>1
      <4>3. h[q] = IF q = {} THEN base ELSE op[<<Top(q), h[q \ {Top(q)}]>>] BY <2>1, <4>1 DEF Part
      <4>4. q \ {Top(q)} \in SUBSET (1 .. k + 1) /\ k + 1 \notin q \ {Top(q)} BY <3>2
      <4>5. g[q \ {Top(q)}] = h[q \ {Top(q)}] BY <2>5, <4>4
      <4> QED BY <4>2, <4>3, <4>5
    <3> QED BY <3>1, <3>2
  <2>8. g \in [SUBSET (1 .. k + 1) -> T] BY <2>6, <2>7
  <2> QED BY <2>7, <2>8 DEF Part
<1>3. Has(n)
  <2> HIDE DEF Has
  <2> SUFFICES ASSUME ~Has(n) PROVE FALSE
    OBVIOUS
  <2>1. n \in Bad /\ Bad \in SUBSET Nat OBVIOUS
  <2>2. PICK k \in Bad : \A m \in Bad : k <= m
    <3> HIDE DEF Bad
    <3> QED BY <2>1, Least
  <2>3. k # 0 BY <1>1
  <2>4. k - 1 \in Nat /\ k - 1 \notin Bad /\ (k - 1) + 1 <= n BY <2>2, <2>3
  <2>5. Has(k - 1) BY <2>4
  <2>6. Has((k - 1) + 1) BY <1>2, <2>4, <2>5
  <2> QED BY <2>6
<1>4. PICK h : Part(h, n) BY <1>3
<1>5. h = [q \in SUBSET (1 .. n) |-> IF q = {} THEN base ELSE op[<<Top(q), h[q \ {Top(q)}]>>]]
  BY <1>4
<1> QED BY <1>4, <1>5 DEF Folded

-----------------------------------------------------------------------------
(* The ways of a name through a dictionary                                  *)

\* What the dictionary of a library is about: a page has buckets and room, equal
\* names hash alike whatever their case, and there are primes enough.
OmfBounds ==
  /\ NumBuckets \in Nat \ {0} /\ PagesInCache \in Nat \ {0} /\ MaxSyms \in Nat
  /\ PageWords \in Nat /\ (NumBuckets + 1) \div 2 < PageWords - 1 /\ NumBuckets + 1 < 2 * PageWords
  /\ \A n \in Names : NameLen(n) \in Nat /\ Hash(n) \in [major : Nat, majorInc : Nat, minor : Nat, minorInc : Nat]
  /\ \A m, n \in Names : Fold(m) = Fold(n) => Hash(m) = Hash(n)
Bertrand == \A n \in Nat \ {0} : \E m \in n .. 2 * n : Omf!IsPrime(m)

Buckets == 0 .. NumBuckets - 1
Blocks == 0 .. numBlocks - 1
Full == PageWords - 1
Entry == [name : Names, offset : Nat]
Ats == UNION {[D -> Entry] : D \in SUBSET Nat}
PageOK(p) ==
  /\ p.fflag \in 1 .. Full
  /\ \A w \in DOMAIN p.at : w < p.fflag
  /\ \A b \in Buckets : p.htab[b] # 0 => p.htab[b] \in DOMAIN p.at
Page == {p \in [htab : [Buckets -> Nat], fflag : Nat, at : Ats] : PageOK(p)}
Pages == [Blocks -> Page]

\* A search for n that looks at p from bucket c on leaves it, and goes on at bucket d.
Passed(p, n, c, d) ==
  \/ d = c /\ \A j \in Buckets : p.htab[Omf!Bucket(n, c, j)] # 0
  \/ /\ p.fflag = Full
     /\ \E j \in Buckets : /\ p.htab[Omf!Bucket(n, c, j)] = 0 /\ \A k \in 0 .. j - 1 : p.htab[Omf!Bucket(n, c, k)] # 0
                           /\ d = Omf!Bucket(n, c, j)
\* It finds entry e before a free bucket.
Here(p, n, c, e) ==
  \E j \in Buckets : /\ \A k \in 0 .. j : p.htab[Omf!Bucket(n, c, k)] # 0
                     /\ p.at[p.htab[Omf!Bucket(n, c, j)]] = e
Way(P, n, k, bl, bu) ==
  /\ bl \in [0 .. k -> Blocks] /\ bu \in [0 .. k -> Nat]
  /\ \A i \in 0 .. k - 1 : /\ bl[i + 1] = Omf!Wrap(bl[i] + Omf!Inc(n, numBlocks), numBlocks)
                           /\ Passed(P[bl[i]], n, bu[i], bu[i + 1])
\* The search for n gets from bucket c of block b in k steps to bucket d of block a.
Reach(P, n, b, c, k, a, d) ==
  \E bl, bu : Way(P, n, k, bl, bu) /\ bl[0] = b /\ bu[0] = c /\ bl[k] = a /\ bu[k] = d
\* Entry e is on the way of n from bucket c of block b, within left pages.
Ahead(P, n, e, left, b, c) ==
  \E k \in 0 .. left - 1 : \E bl, bu : Way(P, n, k, bl, bu) /\ bl[0] = b /\ bu[0] = c /\ Here(P[bl[k]], n, bu[k], e)
OnWay(P, n, e) == Ahead(P, n, e, numBlocks, Omf!Start(n, numBlocks), Hash(n).minor)

\* Insertion of others leaves such a way as it is.
Grows(p, q) ==
  /\ \A b \in Buckets : p.htab[b] # 0 => q.htab[b] = p.htab[b]
  /\ \A w \in DOMAIN p.at : w \in DOMAIN q.at /\ q.at[w] = p.at[w]
  /\ p.fflag = Full => q = p
GrowAll(P, Q) == \A b \in Blocks : Grows(P[b], Q[b])

LEMMA BucketIs == ASSUME OmfBounds, NEW n \in Names, NEW c \in Nat, NEW j \in Nat PROVE Omf!Bucket(n, c, j) \in Buckets
<1> DEFINE inc == IF Hash(n).minorInc = 0 THEN 1 ELSE Hash(n).minorInc
<1>1. inc \in Nat BY DEF OmfBounds
<1> HIDE DEF inc
<1>2. c + j * inc \in Nat BY <1>1
<1>3. NumBuckets \in Nat \ {0} BY DEF OmfBounds
<1>4. \A a \in Nat : a % NumBuckets \in 0 .. NumBuckets - 1 BY <1>3
<1> QED BY <1>2, <1>4 DEF Omf!Bucket, inc, Buckets

LEMMA StartIs == ASSUME OmfBounds, numBlocks \in Nat \ {0}, NEW n \in Names PROVE Omf!Start(n, numBlocks) \in Blocks /\ Hash(n).minor \in Nat
<1>1. Hash(n).major \in Nat /\ Hash(n).minor \in Nat BY DEF OmfBounds
<1>2. \A a \in Nat : a % numBlocks \in 0 .. numBlocks - 1 OBVIOUS
<1> QED BY <1>1, <1>2 DEF Omf!Start, Blocks

LEMMA NextIs == ASSUME OmfBounds, numBlocks \in Nat \ {0}, NEW n \in Names, NEW b \in Blocks
                PROVE  Omf!Wrap(b + Omf!Inc(n, numBlocks), numBlocks) \in Blocks
<1>1. Hash(n).majorInc \in Nat BY DEF OmfBounds
<1>2. \A a \in Nat : a % numBlocks \in 0 .. numBlocks - 1 OBVIOUS
<1>3. PICK r \in 0 .. numBlocks - 1 : r = Hash(n).majorInc % numBlocks BY <1>1, <1>2
<1>4. Omf!Inc(n, numBlocks) = IF r = 0 THEN 1 ELSE r BY <1>3 DEF Omf!Inc
<1>5. b \in Nat /\ b <= numBlocks - 1 BY DEF Blocks
<1> QED BY <1>3, <1>4, <1>5 DEF Omf!Wrap, Blocks

LEMMA PassedGrows ==
  ASSUME OmfBounds, NEW p \in Page, NEW q \in Page, Grows(p, q), NEW n \in Names, NEW c \in Nat, NEW d, Passed(p, n, c, d)
  PROVE  Passed(q, n, c, d)
<1>1. \A j \in Buckets : Omf!Bucket(n, c, j) \in Buckets
  <2>1. \A j \in Buckets : j \in Nat BY DEF Buckets
  <2> QED BY <2>1, BucketIs
<1>2. CASE p.fflag = Full BY <1>2 DEF Grows
<1>3. CASE d = c /\ \A j \in Buckets : p.htab[Omf!Bucket(n, c, j)] # 0
  <2>1. \A j \in Buckets : q.htab[Omf!Bucket(n, c, j)] # 0 BY <1>1, <1>3 DEF Grows
  <2> QED BY <1>3, <2>1 DEF Passed
<1> QED BY <1>2, <1>3 DEF Passed

LEMMA HereGrows ==
  ASSUME OmfBounds, NEW p \in Page, NEW q \in Page, Grows(p, q), NEW n \in Names, NEW c \in Nat, NEW e, Here(p, n, c, e)
  PROVE  Here(q, n, c, e)
<1>1. PICK j \in Buckets : (\A k \in 0 .. j : p.htab[Omf!Bucket(n, c, k)] # 0) /\ p.at[p.htab[Omf!Bucket(n, c, j)]] = e
  BY DEF Here
<1>2. j \in Nat BY DEF Buckets
<1>3. \A k \in 0 .. j : Omf!Bucket(n, c, k) \in Buckets BY <1>2, BucketIs
<1>4. \A k \in 0 .. j : q.htab[Omf!Bucket(n, c, k)] = p.htab[Omf!Bucket(n, c, k)] BY <1>1, <1>3 DEF Grows
<1>5. j \in 0 .. j BY <1>2
<1>6. p.htab[Omf!Bucket(n, c, j)] \in DOMAIN p.at BY <1>1, <1>3, <1>5 DEF Page, PageOK
<1>7. q.at[q.htab[Omf!Bucket(n, c, j)]] = e BY <1>1, <1>4, <1>5, <1>6 DEF Grows
<1> QED BY <1>1, <1>4, <1>7 DEF Here

LEMMA WayGrows ==
  ASSUME OmfBounds, NEW P \in Pages, NEW Q \in Pages, GrowAll(P, Q), NEW n \in Names, NEW k \in Nat, NEW bl, NEW bu, Way(P, n, k, bl, bu)
  PROVE  Way(Q, n, k, bl, bu)
<1>1. ASSUME NEW i \in 0 .. k - 1 PROVE Passed(Q[bl[i]], n, bu[i], bu[i + 1])
  <2>1. bl[i] \in Blocks /\ bu[i] \in Nat BY DEF Way
  <2>2. P[bl[i]] \in Page /\ Q[bl[i]] \in Page /\ Grows(P[bl[i]], Q[bl[i]]) BY <2>1 DEF Pages, GrowAll
  <2>3. Passed(P[bl[i]], n, bu[i], bu[i + 1]) BY DEF Way
  <2> QED BY <2>1, <2>2, <2>3, PassedGrows
<1> QED BY <1>1 DEF Way

LEMMA AheadGrows ==
  ASSUME OmfBounds, NEW P \in Pages, NEW Q \in Pages, GrowAll(P, Q), NEW n \in Names, NEW e, NEW left \in Nat, NEW b, NEW c, Ahead(P, n, e, left, b, c)
  PROVE  Ahead(Q, n, e, left, b, c)
<1>1. PICK k \in 0 .. left - 1 : \E bl, bu : Way(P, n, k, bl, bu) /\ bl[0] = b /\ bu[0] = c /\ Here(P[bl[k]], n, bu[k], e)
  BY DEF Ahead
<1>2. PICK bl, bu : Way(P, n, k, bl, bu) /\ bl[0] = b /\ bu[0] = c /\ Here(P[bl[k]], n, bu[k], e) BY <1>1
<1>3. k \in Nat /\ k \in 0 .. k OBVIOUS
<1>4. Way(Q, n, k, bl, bu) BY <1>2, <1>3, WayGrows
<1>5. bl[k] \in Blocks /\ bu[k] \in Nat BY <1>2, <1>3 DEF Way
<1>6. P[bl[k]] \in Page /\ Q[bl[k]] \in Page /\ Grows(P[bl[k]], Q[bl[k]]) BY <1>5 DEF Pages, GrowAll
<1>7. Here(Q[bl[k]], n, bu[k], e) BY <1>2, <1>5, <1>6, HereGrows
<1> QED BY <1>2, <1>4, <1>7 DEF Ahead

-----------------------------------------------------------------------------
(* The writer                                                               *)

Tab == [pages : Pages, block : Blocks, bucket : Nat, done : BOOLEAN]
InsertStep(t, n, offset) == IF t.done THEN t ELSE Omf!InsertInPage(t, n, offset)
\* Entries are of symbols of the library.
HonestTo(P, s) == \A b \in Blocks : \A w \in DOMAIN P[b].at :
                    P[b].at[w].offset \in DOMAIN s /\ s[P[b].at[w].offset] = P[b].at[w].name
Honest(P) == HonestTo(P, syms)

LEMMA TopStep ==
  ASSUME NEW N \in Nat, NEW i \in 1 .. N
  PROVE  Top(1 .. i) = i /\ (1 .. i) \ {Top(1 .. i)} = 1 .. i - 1 /\ 1 .. i \in SUBSET (1 .. N) /\ 1 .. i # {}
<1>1. PICK m \in Nat : m = i - 1 OBVIOUS
<1>2. Top(1 .. m + 1) = m + 1 /\ (1 .. m + 1) \ {m + 1} = 1 .. m BY TopIs
<1>3. Top(1 .. i) = i /\ (1 .. i) \ {i} = 1 .. i - 1 BY <1>1, <1>2
<1> QED BY <1>3

\* InsertOmfDict goes through the pages one step at a time.
LEMMA InsertFold ==
  ASSUME numBlocks \in Nat \ {0}, NEW n \in Names, NEW offset \in Nat, NEW pages,
         NEW base \in {[pages |-> pages, block |-> Omf!Start(n, numBlocks), bucket |-> Hash(n).minor, done |-> FALSE]},
         base \in Tab, \A t \in Tab : InsertStep(t, n, offset) \in Tab
  PROVE  \E f : /\ f[0] = base /\ \A i \in 1 .. numBlocks : f[i] = InsertStep(f[i - 1], n, offset)
                /\ Omf!InsertOmfDict(pages, n, offset) = f[numBlocks]
<1>1. PICK N \in Nat : N = numBlocks OBVIOUS
<1> DEFINE op == [x \in (1 .. N) \X Tab |-> InsertStep(x[2], n, offset)]
           Is(g) == g = [q \in SUBSET (1 .. N) |-> IF q = {} THEN base ELSE InsertStep(g[q \ {Top(q)}], n, offset)]
           iter == CHOOSE g : Is(g)
<1>2. op \in [(1 .. N) \X Tab -> Tab] OBVIOUS
<1>3. PICK h \in [SUBSET (1 .. N) -> Tab] : Folded(h, N, base, op) BY <1>2, FoldExists
<1>4. Is(h)
  <2>1. ASSUME NEW q \in SUBSET (1 .. N), q # {} PROVE op[<<Top(q), h[q \ {Top(q)}]>>] = InsertStep(h[q \ {Top(q)}], n, offset)
    <3>1. Top(q) \in 1 .. N BY <2>1, TopOf
    <3>2. q \ {Top(q)} \in SUBSET (1 .. N) OBVIOUS
    <3>3. h[q \ {Top(q)}] \in Tab BY <3>2
    <3> HIDE DEF Tab
    <3> QED BY <3>1, <3>3
  <2> QED BY <1>3, <2>1 DEF Folded
<1>5. Is(iter)
  <2> HIDE DEF Is
  <2> QED BY <1>4
<1>6. Omf!InsertOmfDict(pages, n, offset) = iter[1 .. N]
  <2>1. base = [pages |-> pages, block |-> Omf!Start(n, numBlocks), bucket |-> Hash(n).minor, done |-> FALSE] OBVIOUS
  <2> QED BY <1>1, <2>1 DEF Omf!InsertOmfDict, Omf!FoldLeft, Omf!MapThenFoldSet, Omf!Max, InsertStep, Top
<1>7. PICK it : Is(it) /\ Omf!InsertOmfDict(pages, n, offset) = it[1 .. N]
  <2> HIDE DEF Is
  <2> QED BY <1>5, <1>6
<1> HIDE DEF iter, op
<1> DEFINE f == [i \in 0 .. N |-> it[1 .. i]]
<1>8. f[0] = base
  <2>1. 1 .. 0 = {} /\ {} \in SUBSET (1 .. N) OBVIOUS
  <2>2. it[{}] = base BY <1>7, <2>1
  <2>3. f[0] = it[1 .. 0] OBVIOUS
  <2> HIDE DEF f
  <2> QED BY <2>1, <2>2, <2>3
<1>9. ASSUME NEW i \in 1 .. N PROVE f[i] = InsertStep(f[i - 1], n, offset)
  <2>1. Top(1 .. i) = i /\ (1 .. i) \ {Top(1 .. i)} = 1 .. i - 1 /\ 1 .. i \in SUBSET (1 .. N) /\ 1 .. i # {} BY TopStep
  <2>2. it[1 .. i] = InsertStep(it[(1 .. i) \ {Top(1 .. i)}], n, offset) BY <1>7, <2>1
  <2>3. f[i] = it[1 .. i] /\ f[i - 1] = it[1 .. i - 1] OBVIOUS
  <2> HIDE DEF f, Is
  <2> QED BY <2>1, <2>2, <2>3
<1>10. f[N] = it[1 .. N] OBVIOUS
<1> HIDE DEF f
<1> QED BY <1>1, <1>7, <1>8, <1>9, <1>10

LEMMA FullIs == ASSUME OmfBounds PROVE Full \in Nat \ {0} /\ Full = Omf!Full
BY DEF OmfBounds, Full, Omf!Full

LEMMA WordsIs == ASSUME OmfBounds, NEW n \in Names PROVE Omf!EntryWords(n) \in Nat \ {0}
<1>1. NameLen(n) \in Nat BY DEF OmfBounds
<1>2. Omf!Odd(NameLen(n)) \in Nat \ {0} BY <1>1 DEF Omf!Odd
<1> QED BY <1>2 DEF Omf!EntryWords

LEMMA NoRoomPage ==
  ASSUME OmfBounds, NEW p \in Page
  PROVE  /\ Omf!NoRoom(p) \in Page /\ Grows(p, Omf!NoRoom(p)) /\ Omf!NoRoom(p).fflag = Full
         /\ Omf!NoRoom(p).htab = p.htab /\ Omf!NoRoom(p).at = p.at
<1>1. p \in [htab : [Buckets -> Nat], fflag : Nat, at : Ats] /\ PageOK(p) BY DEF Page
<1>2. PICK q : q = Omf!NoRoom(p) OBVIOUS
<1>3. q = [p EXCEPT !.fflag = Full] BY <1>2, FullIs DEF Omf!NoRoom
<1>4. Full \in Nat \ {0} BY FullIs
<1>5. q \in [htab : [Buckets -> Nat], fflag : Nat, at : Ats] /\ q.fflag = Full /\ q.htab = p.htab /\ q.at = p.at
  BY <1>1, <1>3, <1>4
<1>6. PageOK(q)
  <2>1. \A w \in DOMAIN p.at : w \in Nat BY <1>1 DEF Ats
  <2> QED BY <1>1, <1>4, <1>5, <2>1 DEF PageOK
<1>7. p.fflag = Full => q = p BY <1>1, <1>3
<1> QED BY <1>2, <1>5, <1>6, <1>7 DEF Page, Grows

Filled(p, b, n, offset) ==
  [htab |-> [p.htab EXCEPT ![b] = p.fflag], fflag |-> p.fflag + Omf!EntryWords(n),
   at |-> [w \in DOMAIN p.at \cup {p.fflag} |-> IF w = p.fflag THEN [name |-> n, offset |-> offset] ELSE p.at[w]]]

LEMMA PutPage ==
  ASSUME OmfBounds, NEW p \in Page, NEW n \in Names, NEW offset \in Nat, NEW b \in Buckets, p.htab[b] = 0,
         ~(PageWords - p.fflag - 1 < Omf!EntryWords(n)),
         NEW q \in {Filled(p, b, n, offset)}
  PROVE  /\ q \in Page /\ Grows(p, q) /\ q.htab[b] = p.fflag /\ p.fflag \in DOMAIN q.at /\ p.fflag # 0
         /\ q.at[p.fflag] = [name |-> n, offset |-> offset]
         /\ \A w \in DOMAIN q.at : q.at[w] = [name |-> n, offset |-> offset] \/ (w \in DOMAIN p.at /\ q.at[w] = p.at[w])
<1>1. p \in [htab : [Buckets -> Nat], fflag : Nat, at : Ats] /\ PageOK(p) BY DEF Page
<1>2. PICK f \in 1 .. Full : f = p.fflag BY <1>1 DEF PageOK
<1>3. f \in Nat \ {0} /\ PageWords \in Nat /\ Full \in Nat /\ Full = PageWords - 1 BY <1>2, FullIs DEF OmfBounds, Full
<1>4. PICK s \in Nat \ {0} : s = Omf!EntryWords(n) BY WordsIs
<1>5. f + s \in 1 .. Full /\ f < Full BY <1>2, <1>3, <1>4
<1>6. PICK e \in Entry : e = [name |-> n, offset |-> offset] BY DEF Entry
<1>q. q = [htab |-> [p.htab EXCEPT ![b] = f], fflag |-> f + s, at |-> [w \in DOMAIN p.at \cup {f} |-> IF w = f THEN e ELSE p.at[w]]]
  BY <1>2, <1>4, <1>6 DEF Filled
<1>7. DOMAIN q.at = DOMAIN p.at \cup {f} /\ \A w \in DOMAIN q.at : q.at[w] = IF w = f THEN e ELSE p.at[w] BY <1>q
<1>8. PICK D \in SUBSET Nat : p.at \in [D -> Entry] BY <1>1 DEF Ats
<1>9. f \notin D
  <2>1. DOMAIN p.at = D BY <1>8
  <2>2. \A w \in DOMAIN p.at : w < f BY <1>1, <1>2 DEF PageOK
  <2> QED BY <1>3, <2>1, <2>2
<1>10. q.at \in Ats
  <2>1. q.at = [w \in D \cup {f} |-> IF w = f THEN e ELSE p.at[w]] BY <1>q, <1>8
  <2>2. q.at \in [D \cup {f} -> Entry] BY <1>6, <1>8, <2>1
  <2>3. D \cup {f} \in SUBSET Nat BY <1>3
  <2> QED BY <2>2, <2>3 DEF Ats
<1>11. q.htab = [p.htab EXCEPT ![b] = f] /\ q.fflag = f + s /\ p.htab \in [Buckets -> Nat] BY <1>1, <1>q
<1>12. q \in [htab : [Buckets -> Nat], fflag : Nat, at : Ats]
  <2>1. q.htab \in [Buckets -> Nat] BY <1>3, <1>11
  <2>2. q.fflag \in Nat BY <1>5, <1>11
  <2>3. q = [htab |-> q.htab, fflag |-> q.fflag, at |-> q.at] BY <1>q
  <2> QED BY <1>10, <2>1, <2>2, <2>3
<1>13. PageOK(q)
  <2>1. \A w \in DOMAIN q.at : w < q.fflag
    <3>1. \A w \in DOMAIN p.at : w \in Nat /\ w < f BY <1>1, <1>2, <1>8 DEF PageOK
    <3> QED BY <1>3, <1>4, <1>7, <1>11, <3>1
  <2>2. \A c \in Buckets : q.htab[c] # 0 => q.htab[c] \in DOMAIN q.at BY <1>1, <1>7, <1>11 DEF PageOK
  <2> QED BY <1>5, <1>11, <2>1, <2>2 DEF PageOK
<1>14. Grows(p, q)
  <2>1. \A w \in DOMAIN p.at : w \in DOMAIN q.at /\ q.at[w] = p.at[w] BY <1>7, <1>8, <1>9
  <2>2. p.fflag # Full BY <1>2, <1>3, <1>5
  <2> QED BY <1>11, <2>1, <2>2 DEF Grows
<1>15. f \in DOMAIN q.at /\ q.at[f] = e BY <1>7
<1> QED BY <1>2, <1>3, <1>6, <1>7, <1>11, <1>12, <1>13, <1>14, <1>15 DEF Page

First(S) == CHOOSE j \in S : \A k \in S : j <= k
LEMMA FirstIs == ASSUME NEW S \in SUBSET Nat, S # {} PROVE First(S) \in S /\ \A k \in S : First(S) <= k
<1>1. \E j \in S : \A k \in S : j <= k BY Least
<1> QED BY <1>1 DEF First

LEMMA BucketsIs == ASSUME OmfBounds PROVE Buckets \subseteq Nat /\ \A j \in Buckets : 0 .. j \subseteq Buckets
BY DEF OmfBounds, Buckets

\* What is in Q and not in P is the entry e.
Mine(Q, P, e) ==
  \A b \in Blocks : \A w \in DOMAIN Q[b].at : Q[b].at[w] = e \/ (w \in DOMAIN P[b].at /\ Q[b].at[w] = P[b].at[w])

LEMMA GrowsSelf == ASSUME NEW p PROVE Grows(p, p)
BY DEF Grows

\* What InsertInPage does to the pages is what it does to one.
LEMMA OnePage ==
  ASSUME NEW P \in Pages, NEW b \in Blocks, NEW q \in Page, Grows(P[b], q), NEW e,
         \A w \in DOMAIN q.at : q.at[w] = e \/ (w \in DOMAIN P[b].at /\ q.at[w] = P[b].at[w])
  PROVE  \E Q \in Pages : /\ Q = [P EXCEPT ![b] = q] /\ GrowAll(P, Q) /\ Q[b] = q
         /\ \A c \in Blocks : \A w \in DOMAIN Q[c].at : Q[c].at[w] = e \/ (w \in DOMAIN P[c].at /\ Q[c].at[w] = P[c].at[w])
<1> HIDE DEF Page
<1>1. PICK Q : Q = [P EXCEPT ![b] = q] OBVIOUS
<1>2. \A c \in Blocks : Q[c] = IF c = b THEN q ELSE P[c] BY <1>1 DEF Pages
<1>3. Q \in Pages BY <1>1 DEF Pages
<1>4. GrowAll(P, Q) BY <1>2, GrowsSelf DEF GrowAll
<1>5. \A c \in Blocks : \A w \in DOMAIN Q[c].at : Q[c].at[w] = e \/ (w \in DOMAIN P[c].at /\ Q[c].at[w] = P[c].at[w])
  BY <1>2
<1>6. Q[b] = q BY <1>2
<1> QED BY <1>1, <1>3, <1>4, <1>5, <1>6

FreeIn(p, n, c) == {j \in 0 .. NumBuckets - 1 : p.htab[Omf!Bucket(n, c, j)] = 0}
Landing(p, n, c) == Omf!Bucket(n, c, CHOOSE j \in FreeIn(p, n, c) : \A k \in FreeIn(p, n, c) : j <= k)
ToBlock(t, x) == [t EXCEPT !.block = x]
Leave(t, k, z, b) == [t EXCEPT !.pages[k] = z, !.bucket = b]
Finish(t, k, z) == [t EXCEPT !.pages[k] = z, !.done = TRUE]
InsertAs(t, n, offset) ==
  IF FreeIn(t.pages[t.block], n, t.bucket) = {}
  THEN ToBlock(t, Omf!Wrap(t.block + Omf!Inc(n, numBlocks), numBlocks))
  ELSE IF PageWords - t.pages[t.block].fflag - 1 < Omf!EntryWords(n)
  THEN Leave(ToBlock(t, Omf!Wrap(t.block + Omf!Inc(n, numBlocks), numBlocks)), t.block, Omf!NoRoom(t.pages[t.block]),
             Landing(t.pages[t.block], n, t.bucket))
  ELSE Finish(t, t.block, Filled(t.pages[t.block], Landing(t.pages[t.block], n, t.bucket), n, offset))

LEMMA InsertIs == ASSUME NEW t, NEW n, NEW offset PROVE Omf!InsertInPage(t, n, offset) = InsertAs(t, n, offset)
BY DEF Omf!InsertInPage, InsertAs, Landing, FreeIn, Filled, ToBlock, Leave, Finish

LEMMA TabIs == ASSUME NEW P \in Pages, NEW b \in Blocks, NEW c \in Nat, NEW d \in BOOLEAN PROVE [pages |-> P, block |-> b, bucket |-> c, done |-> d] \in Tab
BY DEF Tab

LEMMA TabBlock == ASSUME NEW t \in Tab, NEW x PROVE ToBlock(t, x) = [pages |-> t.pages, block |-> x, bucket |-> t.bucket, done |-> t.done]
<1>1. PICK A, B, C, D : A = Pages /\ B = Blocks /\ C = Nat /\ D = BOOLEAN OBVIOUS
<1>2. t \in [pages : A, block : B, bucket : C, done : D] BY <1>1 DEF Tab
<1> HIDE <1>1
<1> QED BY <1>2 DEF ToBlock

LEMMA TabExcept ==
  ASSUME NEW t \in Tab, NEW k, NEW z, NEW b \in Nat, NEW Q \in Pages, Q = [t.pages EXCEPT ![k] = z]
  PROVE  /\ Leave(t, k, z, b) = [pages |-> Q, block |-> t.block, bucket |-> b, done |-> t.done]
         /\ Finish(t, k, z) = [pages |-> Q, block |-> t.block, bucket |-> t.bucket, done |-> TRUE]
<1>1. PICK A, B, C, D : A = Pages /\ B = Blocks /\ C = Nat /\ D = BOOLEAN OBVIOUS
<1>2. t \in [pages : A, block : B, bucket : C, done : D] /\ b \in C /\ Q \in A BY <1>1 DEF Tab
<1>3. PICK u, v : u = [t EXCEPT !.pages[k] = z] /\ v = TRUE OBVIOUS
<1> HIDE <1>1
<1>4. u = [pages |-> Q, block |-> t.block, bucket |-> t.bucket, done |-> t.done] BY <1>2, <1>3
<1>5. u \in [pages : A, block : B, bucket : C, done : D] BY <1>2, <1>4
<1>6. Leave(t, k, z, b) = [u EXCEPT !.bucket = b] BY <1>3 DEF Leave
<1>7. Finish(t, k, z) = [u EXCEPT !.done = v] BY <1>3 DEF Finish
<1>8. u.pages = Q /\ u.block = t.block /\ u.bucket = t.bucket /\ u.done = t.done BY <1>4
<1>9. [u EXCEPT !.bucket = b] = [pages |-> u.pages, block |-> u.block, bucket |-> b, done |-> u.done] BY <1>5
<1>10. [u EXCEPT !.done = v] = [pages |-> u.pages, block |-> u.block, bucket |-> u.bucket, done |-> v] BY <1>5
<1> QED BY <1>3, <1>6, <1>7, <1>8, <1>9, <1>10

InsertOK(r, t, n, offset) ==
  /\ r \in Tab /\ GrowAll(t.pages, r.pages) /\ Mine(r.pages, t.pages, [name |-> n, offset |-> offset])
  /\ IF r.done THEN r.block = t.block /\ Here(r.pages[t.block], n, t.bucket, [name |-> n, offset |-> offset])
     ELSE /\ r.block = Omf!Wrap(t.block + Omf!Inc(n, numBlocks), numBlocks)
          /\ Passed(r.pages[t.block], n, t.bucket, r.bucket)

LEMMA InsertCases ==
  ASSUME OmfBounds, numBlocks \in Nat \ {0}, NEW n \in Names, NEW offset \in Nat, NEW t \in Tab, ~t.done
  PROVE  InsertOK(Omf!InsertInPage(t, n, offset), t, n, offset)
<1>1. PICK P, k, c : P = t.pages /\ k = t.block /\ c = t.bucket OBVIOUS
<1>2. P \in Pages /\ k \in Blocks /\ c \in Nat /\ t = [pages |-> P, block |-> k, bucket |-> c, done |-> FALSE]
  BY <1>1 DEF Tab
<1>3. PICK p : p = P[k] OBVIOUS
<1>4. p \in Page BY <1>2, <1>3 DEF Pages
<1>5. PICK nx : nx = Omf!Wrap(k + Omf!Inc(n, numBlocks), numBlocks) OBVIOUS
<1>6. nx \in Blocks BY <1>2, <1>5, NextIs
<1>7. PICK free : free = FreeIn(p, n, c) OBVIOUS
<1>8. free = {j \in Buckets : p.htab[Omf!Bucket(n, c, j)] = 0} BY <1>7 DEF FreeIn, Buckets
<1>9. free \subseteq Buckets /\ free \in SUBSET Nat BY <1>8, BucketsIs
<1>10. PICK b : b = Landing(p, n, c) OBVIOUS
<1>11. b = Omf!Bucket(n, c, First(free))
  <2>1. Landing(p, n, c) = Omf!Bucket(n, c, First(FreeIn(p, n, c))) BY DEF Landing, First
  <2> QED BY <1>7, <1>10, <2>1
<1>12. PICK e : e = [name |-> n, offset |-> offset] OBVIOUS
<1>13. PICK q : q = Filled(p, b, n, offset) OBVIOUS
<1>14. PICK z : z = Omf!NoRoom(p) OBVIOUS
<1>15. PICK r : r = Omf!InsertInPage(t, n, offset) OBVIOUS
<1>16. PICK y : y = ToBlock(t, nx) OBVIOUS
<1>17. y = [pages |-> P, block |-> nx, bucket |-> c, done |-> FALSE] /\ y \in Tab
  <2>1. y = [pages |-> t.pages, block |-> nx, bucket |-> t.bucket, done |-> t.done] BY <1>16, TabBlock
  <2>2. y = [pages |-> P, block |-> nx, bucket |-> c, done |-> FALSE] BY <1>2, <2>1
  <2> QED BY <1>2, <1>6, <2>2, TabIs
<1>18. r = IF free = {} THEN y
           ELSE IF PageWords - p.fflag - 1 < Omf!EntryWords(n)
           THEN Leave(y, k, z, b)
           ELSE Finish(t, k, q)
  <2>1. r = InsertAs(t, n, offset) BY <1>15, InsertIs
  <2> QED BY <1>1, <1>3, <1>5, <1>7, <1>10, <1>13, <1>14, <1>16, <2>1 DEF InsertAs
<1>19. CASE free = {}
  <2>1. r = [pages |-> P, block |-> nx, bucket |-> c, done |-> FALSE] BY <1>17, <1>18, <1>19
  <2>2. Passed(p, n, c, c) BY <1>8, <1>19 DEF Passed
  <2>3. r \in Tab BY <1>2, <1>6, <2>1, TabIs
  <2>4. GrowAll(P, P) BY GrowsSelf DEF GrowAll
  <2>5. Mine(r.pages, t.pages, [name |-> n, offset |-> offset]) BY <1>1, <2>1 DEF Mine
  <2>6. r.pages = P /\ r.block = nx /\ r.bucket = c /\ r.done = FALSE BY <2>1
  <2>7. GrowAll(t.pages, r.pages) BY <1>1, <2>4, <2>6
  <2>8. Passed(r.pages[t.block], n, t.bucket, r.bucket) BY <1>1, <1>3, <2>2, <2>6
  <2> QED BY <1>1, <1>5, <1>15, <2>3, <2>5, <2>6, <2>7, <2>8 DEF InsertOK
<1>20. CASE free # {}
  <2>1. First(free) \in free /\ \A j \in free : First(free) <= j BY <1>9, <1>20, FirstIs
  <2>2. PICK j \in free : j = First(free) BY <2>1
  <2>3. j \in Buckets /\ j \in Nat /\ p.htab[b] = 0 /\ b = Omf!Bucket(n, c, j) BY <1>8, <1>9, <1>11, <2>2
  <2>4. \A i \in 0 .. j - 1 : p.htab[Omf!Bucket(n, c, i)] # 0
    <3> SUFFICES ASSUME NEW i \in 0 .. j - 1, p.htab[Omf!Bucket(n, c, i)] = 0 PROVE FALSE
      OBVIOUS
    <3>1. i \in 0 .. j /\ i \in Nat /\ i < j BY <2>3
    <3>2. i \in Buckets BY <2>3, <3>1, BucketsIs
    <3>3. i \in free BY <1>8, <3>2
    <3>4. j <= i BY <2>1, <2>2, <3>3
    <3> QED BY <2>3, <3>1, <3>4
  <2>5. b \in Buckets /\ b \in Nat BY <1>2, <2>3, BucketIs, BucketsIs
  <2>6. CASE PageWords - p.fflag - 1 < Omf!EntryWords(n)
    <3>1. z \in Page /\ Grows(p, z) /\ z.fflag = Full /\ z.htab = p.htab /\ z.at = p.at BY <1>4, <1>14, NoRoomPage
    <3>2. Grows(P[k], z) /\ \A w \in DOMAIN z.at : z.at[w] = e \/ (w \in DOMAIN P[k].at /\ z.at[w] = P[k].at[w])
      BY <1>3, <3>1
    <3>3. PICK Q \in Pages : /\ Q = [P EXCEPT ![k] = z] /\ GrowAll(P, Q) /\ Q[k] = z
          /\ \A a \in Blocks : \A w \in DOMAIN Q[a].at : Q[a].at[w] = e \/ (w \in DOMAIN P[a].at /\ Q[a].at[w] = P[a].at[w])
      BY <1>2, <3>1, <3>2, OnePage
    <3>4. r = [pages |-> Q, block |-> nx, bucket |-> b, done |-> FALSE]
      <4>1. r = Leave(y, k, z, b) BY <1>18, <1>20, <2>6
      <4>2. y.pages = P /\ y.block = nx /\ y.bucket = c /\ y.done = FALSE BY <1>17
      <4>3. y \in Tab /\ Q = [y.pages EXCEPT ![k] = z] BY <1>17, <3>3, <4>2
      <4>4. Leave(y, k, z, b) = [pages |-> Q, block |-> y.block, bucket |-> b, done |-> y.done] BY <2>5, <4>3, TabExcept
      <4> QED BY <4>1, <4>2, <4>4
    <3>5. Passed(z, n, c, b) BY <2>3, <2>4, <3>1 DEF Passed
    <3>6. r \in Tab BY <1>6, <2>5, <3>3, <3>4, TabIs
    <3>7. r.pages = Q /\ r.block = nx /\ r.bucket = b /\ r.done = FALSE BY <3>4
    <3>8. Mine(r.pages, t.pages, [name |-> n, offset |-> offset]) BY <1>1, <1>12, <3>3, <3>7 DEF Mine
    <3>9. GrowAll(t.pages, r.pages) BY <1>1, <3>3, <3>7
    <3>10. Passed(r.pages[t.block], n, t.bucket, r.bucket) BY <1>1, <3>3, <3>5, <3>7
    <3> QED BY <1>1, <1>5, <1>15, <3>6, <3>7, <3>8, <3>9, <3>10 DEF InsertOK
  <2>7. CASE ~(PageWords - p.fflag - 1 < Omf!EntryWords(n))
    <3>1. q \in {Filled(p, b, n, offset)} BY <1>13
    <3>2. /\ q \in Page /\ Grows(p, q) /\ q.htab[b] = p.fflag /\ p.fflag \in DOMAIN q.at /\ p.fflag # 0
          /\ q.at[p.fflag] = [name |-> n, offset |-> offset]
          /\ \A w \in DOMAIN q.at : q.at[w] = [name |-> n, offset |-> offset] \/ (w \in DOMAIN p.at /\ q.at[w] = p.at[w])
      BY <1>4, <2>3, <2>5, <2>7, <3>1, PutPage
    <3>3. Grows(P[k], q) /\ \A w \in DOMAIN q.at : q.at[w] = e \/ (w \in DOMAIN P[k].at /\ q.at[w] = P[k].at[w])
      BY <1>3, <1>12, <3>2
    <3>4. PICK Q \in Pages : /\ Q = [P EXCEPT ![k] = q] /\ GrowAll(P, Q) /\ Q[k] = q
          /\ \A a \in Blocks : \A w \in DOMAIN Q[a].at : Q[a].at[w] = e \/ (w \in DOMAIN P[a].at /\ Q[a].at[w] = P[a].at[w])
      BY <1>2, <3>2, <3>3, OnePage
    <3>5. r = [pages |-> Q, block |-> k, bucket |-> c, done |-> TRUE]
      <4>1. r = Finish(t, k, q) BY <1>18, <1>20, <2>7
      <4>2. Q = [t.pages EXCEPT ![k] = q] /\ Q \in Pages /\ c \in Nat BY <1>1, <1>2, <3>4
      <4>3. /\ Leave(t, k, q, c) = [pages |-> Q, block |-> t.block, bucket |-> c, done |-> t.done]
            /\ Finish(t, k, q) = [pages |-> Q, block |-> t.block, bucket |-> t.bucket, done |-> TRUE]
        BY <4>2, TabExcept
      <4> QED BY <1>1, <4>1, <4>3
    <3>6. ASSUME NEW i \in 0 .. j PROVE q.htab[Omf!Bucket(n, c, i)] # 0
      <4>1. CASE i = j BY <2>3, <3>2, <4>1
      <4>2. CASE i # j
        <5>1. i \in 0 .. j - 1 /\ i \in Nat BY <2>3, <4>2
        <5>2. p.htab[Omf!Bucket(n, c, i)] # 0 /\ Omf!Bucket(n, c, i) \in Buckets BY <1>2, <2>4, <5>1, BucketIs
        <5> QED BY <3>2, <5>2 DEF Grows
      <4> QED BY <4>1, <4>2
    <3>7. Here(q, n, c, e) BY <1>12, <2>3, <3>2, <3>6 DEF Here
    <3>8. r \in Tab BY <1>2, <3>4, <3>5, TabIs
    <3>9. r.pages = Q /\ r.block = k /\ r.bucket = c /\ r.done = TRUE BY <3>5
    <3>10. Mine(r.pages, t.pages, [name |-> n, offset |-> offset]) BY <1>1, <1>12, <3>4, <3>9 DEF Mine
    <3>11. GrowAll(t.pages, r.pages) BY <1>1, <3>4, <3>9
    <3>12. Here(r.pages[t.block], n, t.bucket, [name |-> n, offset |-> offset]) BY <1>1, <1>12, <3>4, <3>7, <3>9
    <3> QED BY <1>1, <1>15, <3>8, <3>9, <3>10, <3>11, <3>12 DEF InsertOK
  <2> QED BY <2>6, <2>7
<1> QED BY <1>19, <1>20

LEMMA MineStep ==
  ASSUME NEW P \in Pages, NEW Q \in Pages, NEW R \in Pages, NEW e, Mine(Q, P, e), Mine(R, Q, e)
  PROVE  Mine(R, P, e)
BY DEF Mine

LEMMA GrowsStep == ASSUME NEW p, NEW q, NEW r, Grows(p, q), Grows(q, r) PROVE Grows(p, r)
<1>1. \A b \in Buckets : p.htab[b] # 0 => r.htab[b] = p.htab[b] BY DEF Grows
<1>2. \A w \in DOMAIN p.at : w \in DOMAIN r.at /\ r.at[w] = p.at[w] BY DEF Grows
<1>3. p.fflag = Full => r = p BY DEF Grows
<1> QED BY <1>1, <1>2, <1>3 DEF Grows

LEMMA GrowAllStep == ASSUME NEW P, NEW Q, NEW R, GrowAll(P, Q), GrowAll(Q, R) PROVE GrowAll(P, R)
BY GrowsStep DEF GrowAll

LEMMA ReachStart ==
  ASSUME NEW P, NEW n, NEW b \in Blocks, NEW c \in Nat PROVE Reach(P, n, b, c, 0, b, c)
<1> DEFINE bl == [i \in 0 .. 0 |-> b]
           bu == [i \in 0 .. 0 |-> c]
<1>1. bl \in [0 .. 0 -> Blocks] /\ bu \in [0 .. 0 -> Nat] /\ bl[0] = b /\ bu[0] = c OBVIOUS
<1>2. \A i \in 0 .. 0 - 1 : FALSE OBVIOUS
<1> HIDE DEF bl, bu
<1>3. Way(P, n, 0, bl, bu) BY <1>1, <1>2 DEF Way
<1> QED BY <1>1, <1>3 DEF Reach

LEMMA ReachGrows ==
  ASSUME OmfBounds, NEW P \in Pages, NEW Q \in Pages, GrowAll(P, Q), NEW n \in Names, NEW k \in Nat,
         NEW b, NEW c, NEW a, NEW d, Reach(P, n, b, c, k, a, d)
  PROVE  Reach(Q, n, b, c, k, a, d)
<1>1. PICK bl, bu : Way(P, n, k, bl, bu) /\ bl[0] = b /\ bu[0] = c /\ bl[k] = a /\ bu[k] = d BY DEF Reach
<1>2. Way(Q, n, k, bl, bu) BY <1>1, WayGrows
<1> QED BY <1>1, <1>2 DEF Reach

LEMMA ReachStep ==
  ASSUME NEW P, NEW n, NEW k \in Nat, NEW b, NEW c, NEW a, NEW d, Reach(P, n, b, c, k, a, d),
         NEW d2 \in Nat, Passed(P[a], n, d, d2), Omf!Wrap(a + Omf!Inc(n, numBlocks), numBlocks) \in Blocks
  PROVE  Reach(P, n, b, c, k + 1, Omf!Wrap(a + Omf!Inc(n, numBlocks), numBlocks), d2)
<1>1. PICK bl, bu : Way(P, n, k, bl, bu) /\ bl[0] = b /\ bu[0] = c /\ bl[k] = a /\ bu[k] = d BY DEF Reach
<1>2. PICK a2 \in Blocks : a2 = Omf!Wrap(a + Omf!Inc(n, numBlocks), numBlocks) OBVIOUS
<1> DEFINE cl == [i \in 0 .. k + 1 |-> IF i = k + 1 THEN a2 ELSE bl[i]]
           cu == [i \in 0 .. k + 1 |-> IF i = k + 1 THEN d2 ELSE bu[i]]
<1>3. bl \in [0 .. k -> Blocks] /\ bu \in [0 .. k -> Nat] BY <1>1 DEF Way
<1>4. \A i \in 0 .. k : cl[i] = bl[i] /\ cu[i] = bu[i] OBVIOUS
<1>5. cl[k + 1] = a2 /\ cu[k + 1] = d2 OBVIOUS
<1>6. cl \in [0 .. k + 1 -> Blocks] /\ cu \in [0 .. k + 1 -> Nat] BY <1>3
<1> HIDE DEF cl, cu
<1>7. ASSUME NEW i \in 0 .. (k + 1) - 1
      PROVE  cl[i + 1] = Omf!Wrap(cl[i] + Omf!Inc(n, numBlocks), numBlocks) /\ Passed(P[cl[i]], n, cu[i], cu[i + 1])
  <2>1. CASE i = k
    <3>1. cl[i] = a /\ cu[i] = d /\ cl[i + 1] = a2 /\ cu[i + 1] = d2 BY <1>1, <1>4, <1>5, <2>1
    <3> QED BY <1>2, <3>1
  <2>2. CASE i # k
    <3>1. i \in 0 .. k - 1 /\ i \in 0 .. k /\ i + 1 \in 0 .. k BY <2>2
    <3>2. bl[i + 1] = Omf!Wrap(bl[i] + Omf!Inc(n, numBlocks), numBlocks) /\ Passed(P[bl[i]], n, bu[i], bu[i + 1])
      BY <1>1, <3>1 DEF Way
    <3>3. cl[i] = bl[i] /\ cu[i] = bu[i] /\ cl[i + 1] = bl[i + 1] /\ cu[i + 1] = bu[i + 1] BY <1>4, <3>1
    <3> QED BY <3>2, <3>3
  <2> QED BY <2>1, <2>2
<1>8. Way(P, n, k + 1, cl, cu) BY <1>6, <1>7 DEF Way
<1>9. cl[0] = b /\ cu[0] = c BY <1>1, <1>4
<1> QED BY <1>2, <1>5, <1>8, <1>9 DEF Reach

LEMMA ReachHere ==
  ASSUME NEW P, NEW n, NEW k \in Nat, NEW left \in Nat, k < left, NEW b, NEW c, NEW a, NEW d, Reach(P, n, b, c, k, a, d),
         NEW e, Here(P[a], n, d, e)
  PROVE  Ahead(P, n, e, left, b, c)
<1>1. PICK bl, bu : Way(P, n, k, bl, bu) /\ bl[0] = b /\ bu[0] = c /\ bl[k] = a /\ bu[k] = d BY DEF Reach
<1>2. k \in 0 .. left - 1 OBVIOUS
<1>3. Here(P[bl[k]], n, bu[k], e) BY <1>1
<1> QED BY <1>1, <1>2, <1>3 DEF Ahead

\* What the first i steps of InsertOmfDict have done.
Tried(P, t, n, e, i) ==
  /\ t \in Tab /\ GrowAll(P, t.pages) /\ Mine(t.pages, P, e)
  /\ t.done => OnWay(t.pages, n, e)
  /\ ~t.done => Reach(t.pages, n, Omf!Start(n, numBlocks), Hash(n).minor, i, t.block, t.bucket)

LEMMA TriedStep ==
  ASSUME OmfBounds, numBlocks \in Nat \ {0}, NEW n \in Names, NEW offset \in Nat, NEW P \in Pages, NEW i \in Nat, i < numBlocks,
         NEW e \in {[name |-> n, offset |-> offset]}, NEW t, Tried(P, t, n, e, i)
  PROVE  Tried(P, InsertStep(t, n, offset), n, e, i + 1)
<1>1. t \in Tab /\ t.pages \in Pages /\ t.block \in Blocks /\ t.bucket \in Nat BY DEF Tried, Tab
<1>2. CASE t.done BY <1>2 DEF Tried, InsertStep
<1>3. CASE ~t.done
  <2>1. PICK r : r = Omf!InsertInPage(t, n, offset) OBVIOUS
  <2>2. InsertStep(t, n, offset) = r BY <1>3, <2>1 DEF InsertStep
  <2>3. InsertOK(r, t, n, offset) BY <1>1, <1>3, <2>1, InsertCases
  <2>4. r \in Tab /\ GrowAll(t.pages, r.pages) /\ Mine(r.pages, t.pages, e) BY <2>3 DEF InsertOK
  <2>5. r.pages \in Pages /\ r.bucket \in Nat /\ r.block \in Blocks BY <2>4 DEF Tab
  <2>6. GrowAll(P, r.pages) BY <2>4, GrowAllStep DEF Tried
  <2>7. Mine(r.pages, P, e) BY <1>1, <2>4, <2>5, MineStep DEF Tried
  <2>8. PICK s, m : s = Omf!Start(n, numBlocks) /\ m = Hash(n).minor OBVIOUS
  <2>9. Reach(t.pages, n, s, m, i, t.block, t.bucket) BY <1>3, <2>8 DEF Tried
  <2>10. Reach(r.pages, n, s, m, i, t.block, t.bucket) BY <1>1, <2>4, <2>5, <2>9, ReachGrows
  <2>11. r.done => OnWay(r.pages, n, e)
    <3> SUFFICES ASSUME r.done PROVE OnWay(r.pages, n, e)
      OBVIOUS
    <3>1. Here(r.pages[t.block], n, t.bucket, e) BY <2>3 DEF InsertOK
    <3>2. Ahead(r.pages, n, e, numBlocks, s, m) BY <2>10, <3>1, ReachHere
    <3> QED BY <2>8, <3>2 DEF OnWay
  <2>12. ~r.done => Reach(r.pages, n, s, m, i + 1, r.block, r.bucket)
    <3> SUFFICES ASSUME ~r.done PROVE Reach(r.pages, n, s, m, i + 1, r.block, r.bucket)
      OBVIOUS
    <3>1. r.block = Omf!Wrap(t.block + Omf!Inc(n, numBlocks), numBlocks) /\ Passed(r.pages[t.block], n, t.bucket, r.bucket)
      BY <2>3 DEF InsertOK
    <3>2. Omf!Wrap(t.block + Omf!Inc(n, numBlocks), numBlocks) \in Blocks BY <1>1, NextIs
    <3>3. Reach(r.pages, n, s, m, i + 1, Omf!Wrap(t.block + Omf!Inc(n, numBlocks), numBlocks), r.bucket)
      BY <2>5, <2>10, <3>1, <3>2, ReachStep
    <3> QED BY <3>1, <3>3
  <2> QED BY <2>2, <2>4, <2>6, <2>7, <2>8, <2>11, <2>12 DEF Tried
<1> QED BY <1>2, <1>3

Inserted(P, r, n, e) == r \in Tab /\ GrowAll(P, r.pages) /\ Mine(r.pages, P, e) /\ (r.done => OnWay(r.pages, n, e))

LEMMA InsertOmf ==
  ASSUME OmfBounds, numBlocks \in Nat \ {0}, NEW n \in Names, NEW offset \in Nat, NEW P \in Pages
  PROVE  Inserted(P, Omf!InsertOmfDict(P, n, offset), n, [name |-> n, offset |-> offset])
<1>1. PICK N \in Nat \ {0} : N = numBlocks OBVIOUS
<1>2. PICK e : e = [name |-> n, offset |-> offset] OBVIOUS
<1>3. PICK base : base = [pages |-> P, block |-> Omf!Start(n, numBlocks), bucket |-> Hash(n).minor, done |-> FALSE] OBVIOUS
<1>4. Omf!Start(n, numBlocks) \in Blocks /\ Hash(n).minor \in Nat BY StartIs
<1>5. base \in Tab BY <1>3, <1>4, TabIs
<1>6. \A t \in Tab : InsertStep(t, n, offset) \in Tab
  <2> SUFFICES ASSUME NEW t \in Tab PROVE InsertStep(t, n, offset) \in Tab
    OBVIOUS
  <2>1. CASE t.done BY <2>1 DEF InsertStep
  <2>2. CASE ~t.done
    <3>1. InsertOK(Omf!InsertInPage(t, n, offset), t, n, offset) BY <2>2, InsertCases
    <3> QED BY <2>2, <3>1 DEF InsertOK, InsertStep
  <2> QED BY <2>1, <2>2
<1>7. base \in {[pages |-> P, block |-> Omf!Start(n, numBlocks), bucket |-> Hash(n).minor, done |-> FALSE]} BY <1>3
<1>8. PICK f : /\ f[0] = base /\ \A i \in 1 .. numBlocks : f[i] = InsertStep(f[i - 1], n, offset)
               /\ Omf!InsertOmfDict(P, n, offset) = f[numBlocks]
  BY <1>5, <1>6, <1>7, InsertFold
<1>9. Tried(P, f[0], n, e, 0)
  <2>1. base.pages = P /\ base.block = Omf!Start(n, numBlocks) /\ base.bucket = Hash(n).minor /\ base.done = FALSE BY <1>3
  <2>2. GrowAll(P, P) BY GrowsSelf DEF GrowAll
  <2>3. Mine(P, P, e) BY DEF Mine
  <2>4. Reach(P, n, Omf!Start(n, numBlocks), Hash(n).minor, 0, Omf!Start(n, numBlocks), Hash(n).minor) BY <1>4, ReachStart
  <2>5. Tried(P, base, n, e, 0) BY <1>5, <2>1, <2>2, <2>3, <2>4 DEF Tried
  <2> QED BY <1>8, <2>5
<1> DEFINE Bad == {i \in Nat : i <= N /\ ~Tried(P, f[i], n, e, i)}
<1>10. Bad = {}
  <2> SUFFICES ASSUME Bad # {} PROVE FALSE
    OBVIOUS
  <2>1. Bad \in SUBSET Nat OBVIOUS
  <2>2. PICK k \in Bad : \A m \in Bad : k <= m
    <3> HIDE DEF Bad
    <3> QED BY <2>1, Least
  <2>3. k # 0 BY <1>9
  <2>4. PICK m \in Nat : k = m + 1 /\ m < N
    <3>1. k \in Nat /\ k <= N BY <2>2
    <3>2. k - 1 \in Nat /\ k = (k - 1) + 1 /\ k - 1 < N BY <2>3, <3>1
    <3> QED BY <3>2
  <2>5. Tried(P, f[m], n, e, m) BY <2>2, <2>4
  <2>6. e \in {[name |-> n, offset |-> offset]} BY <1>2
  <2>7. Tried(P, InsertStep(f[m], n, offset), n, e, m + 1) BY <1>1, <2>4, <2>5, <2>6, TriedStep
  <2>8. f[m + 1] = InsertStep(f[m], n, offset)
    <3>1. m + 1 \in 1 .. numBlocks /\ (m + 1) - 1 = m BY <1>1, <2>4
    <3> QED BY <1>8, <3>1
  <2> QED BY <2>2, <2>4, <2>7, <2>8
<1>11. Tried(P, f[N], n, e, N) BY <1>10
<1> QED BY <1>1, <1>2, <1>8, <1>11 DEF Tried, Inserted

Dicts == Tab \cup [pages : Pages, done : BOOLEAN]
HashStep(t, i) == IF ~t.done THEN t ELSE Omf!InsertOmfDict(t.pages, syms[i], i)
Empty == [pages |-> [b \in 0 .. numBlocks - 1 |-> Omf!EmptyPage], done |-> TRUE]

\* HashOmfSymbols goes through the symbols one step at a time.
LEMMA HashFold ==
  ASSUME NEW N \in Nat, N = Len(syms), NEW base \in {Empty}, base \in Dicts,
         \A t \in Dicts : \A i \in 1 .. N : HashStep(t, i) \in Dicts
  PROVE  \E f : /\ f[0] = base /\ \A i \in 1 .. N : f[i] = HashStep(f[i - 1], i)
                /\ Omf!HashOmfSymbols = f[N]
<1> DEFINE op == [x \in (1 .. N) \X Dicts |-> HashStep(x[2], x[1])]
           Is(g) == g = [q \in SUBSET (1 .. Len(syms)) |->
                     IF q = {} THEN base ELSE HashStep(g[q \ {Top(q)}], [i \in 1 .. Len(syms) |-> i][Top(q)])]
           iter == CHOOSE g : Is(g)
<1>2. op \in [(1 .. N) \X Dicts -> Dicts]
  <2> HIDE DEF Dicts
  <2> QED OBVIOUS
<1>3. PICK h \in [SUBSET (1 .. N) -> Dicts] : Folded(h, N, base, op) BY <1>2, FoldExists
<1>4. Is(h)
  <2>1. ASSUME NEW q \in SUBSET (1 .. N), q # {} PROVE op[<<Top(q), h[q \ {Top(q)}]>>] = HashStep(h[q \ {Top(q)}], [i \in 1 .. N |-> i][Top(q)])
    <3>1. Top(q) \in 1 .. N BY <2>1, TopOf
    <3>2. q \ {Top(q)} \in SUBSET (1 .. N) OBVIOUS
    <3>3. h[q \ {Top(q)}] \in Dicts BY <3>2
    <3>4. [i \in 1 .. N |-> i][Top(q)] = Top(q) BY <3>1
    <3> HIDE DEF Dicts
    <3> QED BY <3>1, <3>3, <3>4
  <2> QED BY <1>3, <2>1 DEF Folded
<1>5. Is(iter)
  <2> HIDE DEF Is
  <2> QED BY <1>4
<1>6. Omf!HashOmfSymbols = iter[1 .. Len(syms)]
  <2>1. base = Empty OBVIOUS
  <2>2. base = [pages |-> [b \in 0 .. numBlocks - 1 |-> Omf!EmptyPage], done |-> TRUE] BY <2>1 DEF Empty
  <2> QED BY <2>2 DEF Omf!HashOmfSymbols, Omf!FoldLeft, Omf!MapThenFoldSet, Omf!Max, HashStep, Top
<1>7. PICK it : Is(it) /\ Omf!HashOmfSymbols = it[1 .. Len(syms)]
  <2> HIDE DEF Is
  <2> QED BY <1>5, <1>6
<1> HIDE DEF iter, op
<1> DEFINE f == [i \in 0 .. N |-> it[1 .. i]]
<1>8. f[0] = base
  <2>1. 1 .. 0 = {} /\ {} \in SUBSET (1 .. N) OBVIOUS
  <2>2. it[{}] = base BY <1>7, <2>1
  <2>3. f[0] = it[1 .. 0] OBVIOUS
  <2> HIDE DEF f
  <2> QED BY <2>1, <2>2, <2>3
<1>9. ASSUME NEW i \in 1 .. N PROVE f[i] = HashStep(f[i - 1], i)
  <2>1. Top(1 .. i) = i /\ (1 .. i) \ {Top(1 .. i)} = 1 .. i - 1 /\ 1 .. i \in SUBSET (1 .. N) /\ 1 .. i # {} BY TopStep
  <2>2. it[1 .. i] = HashStep(it[(1 .. i) \ {Top(1 .. i)}], [j \in 1 .. Len(syms) |-> j][Top(1 .. i)]) BY <1>7, <2>1
  <2>4. [j \in 1 .. Len(syms) |-> j][i] = i OBVIOUS
  <2>3. f[i] = it[1 .. i] /\ f[i - 1] = it[1 .. i - 1] OBVIOUS
  <2> HIDE DEF f, Is
  <2> QED BY <2>1, <2>2, <2>3, <2>4
<1>10. f[N] = it[1 .. N] OBVIOUS
<1> HIDE DEF f
<1> QED BY <1>7, <1>8, <1>9, <1>10

LEMMA EmptyOK ==
  ASSUME OmfBounds PROVE Omf!EmptyPage \in Page /\ DOMAIN Omf!EmptyPage.at = {}
<1>1. PICK p : p = Omf!EmptyPage OBVIOUS
<1>2. PICK f \in Nat : f = (NumBuckets + 1) \div 2 /\ f \in 1 .. Full
  <2>1. NumBuckets \in Nat \ {0} /\ PageWords \in Nat /\ (NumBuckets + 1) \div 2 < PageWords - 1 BY DEF OmfBounds
  <2>2. (NumBuckets + 1) \div 2 \in Nat /\ (NumBuckets + 1) \div 2 >= 1 BY <2>1
  <2> QED BY <2>1, <2>2 DEF Full
<1>3. p = [htab |-> [b \in Buckets |-> 0], fflag |-> f, at |-> << >>] BY <1>1, <1>2 DEF Omf!EmptyPage, Buckets
<1>4. << >> \in Ats /\ DOMAIN << >> = {}
  <2>1. << >> \in [{} -> Entry] /\ {} \in SUBSET Nat OBVIOUS
  <2> QED BY <2>1 DEF Ats
<1>5. p \in [htab : [Buckets -> Nat], fflag : Nat, at : Ats] BY <1>3, <1>4
<1>6. p.fflag = f /\ p.at = << >> /\ \A b \in Buckets : p.htab[b] = 0 BY <1>3
<1>7. PageOK(p) BY <1>2, <1>4, <1>6 DEF PageOK
<1> QED BY <1>1, <1>4, <1>5, <1>6, <1>7 DEF Page

Sym(i) == [name |-> syms[i], offset |-> i]
\* What JWlib has done when i symbols are in their pages.
Hashed(t, i) ==
  t \in Dicts /\ (t.done => /\ t.pages \in Pages /\ Honest(t.pages)
                            /\ \A j \in 1 .. i : OnWay(t.pages, syms[j], Sym(j)))

LEMMA HashedStep ==
  ASSUME OmfBounds, numBlocks \in Nat \ {0}, syms \in Seq(Names), NEW t, NEW i \in Nat, i + 1 \in 1 .. Len(syms), Hashed(t, i)
  PROVE  Hashed(HashStep(t, i + 1), i + 1)
<1>1. CASE ~t.done BY <1>1 DEF Hashed, HashStep
<1>2. CASE t.done
  <2>1. PICK P : P = t.pages OBVIOUS
  <2>2. P \in Pages /\ Honest(P) /\ \A j \in 1 .. i : OnWay(P, syms[j], Sym(j)) BY <1>2, <2>1 DEF Hashed
  <2>3. PICK n \in Names : n = syms[i + 1] OBVIOUS
  <2>4. PICK m \in Nat : m = i + 1 OBVIOUS
  <2>5. PICK r : r = Omf!InsertOmfDict(P, n, m) OBVIOUS
  <2>6. Inserted(P, Omf!InsertOmfDict(P, n, m), n, [name |-> n, offset |-> m]) BY <2>2, InsertOmf
  <2>7. [name |-> n, offset |-> m] = Sym(m) BY <2>3, <2>4 DEF Sym
  <2>8. r \in Tab /\ GrowAll(P, r.pages) /\ Mine(r.pages, P, Sym(m)) /\ (r.done => OnWay(r.pages, n, Sym(m)))
    BY <2>5, <2>6, <2>7 DEF Inserted
  <2>9. HashStep(t, i + 1) = r BY <1>2, <2>1, <2>3, <2>4, <2>5 DEF HashStep
  <2>10. r.pages \in Pages /\ r \in Dicts BY <2>8 DEF Tab, Dicts
  <2>11. Sym(m).offset = m /\ Sym(m).name = syms[m] /\ m \in DOMAIN syms BY <2>4 DEF Sym
  <2>12. Honest(r.pages)
    <3> SUFFICES ASSUME NEW b \in Blocks, NEW w \in DOMAIN r.pages[b].at
                 PROVE  r.pages[b].at[w].offset \in DOMAIN syms /\ syms[r.pages[b].at[w].offset] = r.pages[b].at[w].name
      BY DEF Honest, HonestTo
    <3>1. r.pages[b].at[w] = Sym(m) \/ (w \in DOMAIN P[b].at /\ r.pages[b].at[w] = P[b].at[w]) BY <2>8 DEF Mine
    <3>2. CASE r.pages[b].at[w] = Sym(m) BY <2>11, <3>2
    <3>3. CASE w \in DOMAIN P[b].at /\ r.pages[b].at[w] = P[b].at[w] BY <2>2, <3>3 DEF Honest, HonestTo
    <3> QED BY <3>1, <3>2, <3>3
  <2>13. ASSUME r.done, NEW j \in 1 .. i + 1 PROVE OnWay(r.pages, syms[j], Sym(j))
    <3>1. CASE j = m BY <2>3, <2>4, <2>8, <2>13, <3>1
    <3>2. CASE j # m
      <4>1. j \in 1 .. i /\ syms[j] \in Names BY <2>4, <3>2
      <4>2. PICK x, e : x = syms[j] /\ e = Sym(j) OBVIOUS
      <4>3. PICK s, c : s = Omf!Start(x, numBlocks) /\ c = Hash(x).minor OBVIOUS
      <4>4. Ahead(P, x, e, numBlocks, s, c) BY <2>2, <4>1, <4>2, <4>3 DEF OnWay
      <4>5. x \in Names /\ numBlocks \in Nat BY <4>1, <4>2
      <4>6. Ahead(r.pages, x, e, numBlocks, s, c) BY <2>2, <2>8, <2>10, <4>4, <4>5, AheadGrows
      <4> QED BY <4>2, <4>3, <4>6 DEF OnWay
    <3> QED BY <3>1, <3>2
  <2> QED BY <2>9, <2>10, <2>12, <2>13 DEF Hashed
<1> QED BY <1>1, <1>2

LEMMA HashAll ==
  ASSUME OmfBounds, numBlocks \in Nat \ {0}, syms \in Seq(Names) PROVE Hashed(Omf!HashOmfSymbols, Len(syms))
<1>1. PICK N \in Nat : N = Len(syms) OBVIOUS
<1>2. PICK base : base = Empty OBVIOUS
<1>3. Hashed(base, 0)
  <2>1. PICK P : P = [b \in Blocks |-> Omf!EmptyPage] OBVIOUS
  <2>2. P \in Pages /\ \A b \in Blocks : P[b] = Omf!EmptyPage BY <2>1, EmptyOK DEF Pages
  <2>3. Honest(P) BY <2>2, EmptyOK DEF Honest, HonestTo
  <2>4. base = [pages |-> P, done |-> TRUE] BY <1>2, <2>1 DEF Empty, Blocks
  <2>5. base.pages = P /\ base \in Dicts
    <3>1. base \in [pages : Pages, done : BOOLEAN] BY <2>2, <2>4
    <3> QED BY <2>4, <3>1 DEF Dicts
  <2> QED BY <2>2, <2>3, <2>5 DEF Hashed
<1>4. ASSUME NEW t \in Dicts, NEW i \in 1 .. N PROVE HashStep(t, i) \in Dicts
  <2>1. CASE ~t.done BY <2>1 DEF HashStep
  <2>2. CASE t.done
    <3>1. PICK P \in Pages : P = t.pages BY DEF Dicts, Tab
    <3>2. PICK n \in Names : n = syms[i] BY <1>1
    <3>3. i \in Nat BY <1>1
    <3>4. Inserted(P, Omf!InsertOmfDict(P, n, i), n, [name |-> n, offset |-> i]) BY <3>3, InsertOmf
    <3>5. Omf!InsertOmfDict(P, n, i) \in Tab BY <3>4 DEF Inserted
    <3> QED BY <2>2, <3>1, <3>2, <3>5 DEF HashStep, Dicts
  <2> QED BY <2>1, <2>2
<1>5. base \in Dicts /\ base \in {Empty} BY <1>2, <1>3 DEF Hashed
<1>6. PICK f : /\ f[0] = base /\ \A i \in 1 .. N : f[i] = HashStep(f[i - 1], i)
               /\ Omf!HashOmfSymbols = f[N]
  BY <1>1, <1>4, <1>5, HashFold
<1> DEFINE Bad == {i \in Nat : i <= N /\ ~Hashed(f[i], i)}
<1>7. Bad = {}
  <2> SUFFICES ASSUME Bad # {} PROVE FALSE
    OBVIOUS
  <2>1. Bad \in SUBSET Nat OBVIOUS
  <2>2. PICK k \in Bad : \A m \in Bad : k <= m
    <3> HIDE DEF Bad
    <3> QED BY <2>1, Least
  <2>3. k # 0 BY <1>3, <1>6
  <2>4. PICK m \in Nat : k = m + 1 /\ m < N
    <3>1. k \in Nat /\ k <= N BY <2>2
    <3>2. k - 1 \in Nat /\ k = (k - 1) + 1 /\ k - 1 < N BY <2>3, <3>1
    <3> QED BY <3>2
  <2>5. Hashed(f[m], m) BY <2>2, <2>4
  <2>6. m + 1 \in 1 .. N /\ (m + 1) - 1 = m BY <2>4
  <2>7. Hashed(HashStep(f[m], m + 1), m + 1) BY <1>1, <2>4, <2>5, <2>6, HashedStep
  <2>8. f[m + 1] = HashStep(f[m], m + 1) BY <1>6, <2>6
  <2> QED BY <2>2, <2>4, <2>7, <2>8
<1>8. Hashed(f[N], N) BY <1>7
<1> QED BY <1>1, <1>6, <1>8

-----------------------------------------------------------------------------
(* The number of pages                                                      *)

LEMMA CeilIs == ASSUME NEW a \in Nat, NEW b \in Nat \ {0} PROVE Omf!CeilDiv(a, b) \in Nat /\ (a > 0 => Omf!CeilDiv(a, b) > 0)
<1>1. PICK x \in Nat : x = a + b - 1 OBVIOUS
<1>2. PICK q, r : q = x \div b /\ r = x % b OBVIOUS
<1>3. q \in Nat /\ r \in 0 .. b - 1 BY <1>1, <1>2
<1>4. x = b * (x \div b) + (x % b) OBVIOUS
<1>5. x = b * q + r BY <1>2, <1>4
<1>6. ASSUME a > 0 PROVE q > 0
  <2> SUFFICES ASSUME q = 0 PROVE FALSE
    BY <1>3
  <2>1. b * q = 0 OBVIOUS
  <2> QED BY <1>1, <1>3, <1>5, <1>6, <2>1
<1> QED BY <1>1, <1>2, <1>3, <1>6 DEF Omf!CeilDiv

LEMMA EstimateIs == ASSUME OmfBounds, NEW s \in Seq(Names) PROVE Omf!Estimate(s) \in Nat
<1>1. PICK N \in Nat : N = Len(s) /\ DOMAIN s = 1 .. N OBVIOUS
<1>2. \A i \in 1 .. N : Omf!Odd(NameLen(s[i])) \in Nat
  <2> SUFFICES ASSUME NEW i \in 1 .. N PROVE Omf!Odd(NameLen(s[i])) \in Nat
    OBVIOUS
  <2>1. s[i] \in Names BY <1>1
  <2>2. NameLen(s[i]) \in Nat BY <2>1 DEF OmfBounds
  <2> QED BY <2>2 DEF Omf!Odd
<1> DEFINE op == [x \in (1 .. N) \X Nat |-> x[2] + Omf!Odd(NameLen(s[x[1]]))]
           Is(g) == g = [q \in SUBSET DOMAIN s |-> IF q = {} THEN 0 ELSE g[q \ {Top(q)}] + Omf!Odd(NameLen(s[Top(q)]))]
           iter == CHOOSE g : Is(g)
<1>3. op \in [(1 .. N) \X Nat -> Nat]
  <2> SUFFICES ASSUME NEW x \in (1 .. N) \X Nat PROVE x[2] + Omf!Odd(NameLen(s[x[1]])) \in Nat
    OBVIOUS
  <2>1. x[1] \in 1 .. N /\ x[2] \in Nat OBVIOUS
  <2>2. Omf!Odd(NameLen(s[x[1]])) \in Nat BY <1>2, <2>1
  <2> QED BY <2>1, <2>2
<1>4. PICK h \in [SUBSET (1 .. N) -> Nat] : Folded(h, N, 0, op)
  <2>1. 0 \in Nat OBVIOUS
  <2> HIDE DEF op
  <2> QED BY <1>3, <2>1, FoldExists
<1>5. Is(h)
  <2>1. ASSUME NEW q \in SUBSET (1 .. N), q # {}
        PROVE  op[<<Top(q), h[q \ {Top(q)}]>>] = h[q \ {Top(q)}] + Omf!Odd(NameLen(s[Top(q)]))
    <3>1. Top(q) \in 1 .. N BY <2>1, TopOf
    <3>2. h[q \ {Top(q)}] \in Nat OBVIOUS
    <3>3. <<Top(q), h[q \ {Top(q)}]>> \in (1 .. N) \X Nat BY <3>1, <3>2
    <3> QED BY <3>3
  <2> QED BY <1>1, <1>4, <2>1 DEF Folded
<1>6. Is(iter)
  <2> HIDE DEF Is
  <2> QED BY <1>5
<1>7. Omf!Estimate(s) = Omf!Larger(Omf!CeilDiv(Len(s), NumBuckets), Omf!CeilDiv(iter[DOMAIN s] + 3, 2 * PageWords - NumBuckets - 1)) - 1
  BY DEF Omf!Estimate, Omf!FoldLeft, Omf!MapThenFoldSet, Omf!Max, Top
<1>8. PICK it : /\ Is(it)
                /\ Omf!Estimate(s) = Omf!Larger(Omf!CeilDiv(Len(s), NumBuckets), Omf!CeilDiv(it[DOMAIN s] + 3, 2 * PageWords - NumBuckets - 1)) - 1
  <2> HIDE DEF Is
  <2> QED BY <1>6, <1>7
<1> HIDE DEF iter, op
<1> DEFINE Bad == {i \in Nat : i <= N /\ ~(it[1 .. i] \in Nat)}
<1>9. Bad = {}
  <2> SUFFICES ASSUME Bad # {} PROVE FALSE
    OBVIOUS
  <2>1. Bad \in SUBSET Nat OBVIOUS
  <2>2. PICK k \in Bad : \A m \in Bad : k <= m
    <3> HIDE DEF Bad
    <3> QED BY <2>1, Least
  <2>3. k # 0
    <3>1. it[{}] = 0 BY <1>8
    <3>2. 1 .. 0 = {} OBVIOUS
    <3>3. it[1 .. 0] = 0 BY <3>1, <3>2
    <3> QED BY <2>2, <3>3
  <2>4. k \in 1 .. N /\ k - 1 \in Nat /\ k - 1 <= N /\ k - 1 < k BY <2>2, <2>3
  <2>5. it[1 .. k - 1] \in Nat BY <2>2, <2>4
  <2>6. Top(1 .. k) = k /\ (1 .. k) \ {Top(1 .. k)} = 1 .. k - 1 /\ 1 .. k \in SUBSET (1 .. N) /\ 1 .. k # {} BY <2>4, TopStep
  <2>7. it[1 .. k] = it[(1 .. k) \ {Top(1 .. k)}] + Omf!Odd(NameLen(s[Top(1 .. k)])) BY <1>1, <1>8, <2>6
  <2>8. it[1 .. k] = it[1 .. k - 1] + Omf!Odd(NameLen(s[k])) BY <2>6, <2>7
  <2>9. it[1 .. k] \in Nat BY <1>2, <2>4, <2>5, <2>8
  <2> QED BY <2>2, <2>9
<1>10. PICK c \in Nat : c = it[DOMAIN s]
  <2>1. it[1 .. N] \in Nat BY <1>9
  <2> QED BY <1>1, <2>1
<1>11. PICK w \in Nat \ {0} : w = 2 * PageWords - NumBuckets - 1 BY DEF OmfBounds
<1>12. Omf!CeilDiv(N, NumBuckets) \in Nat BY CeilIs DEF OmfBounds
<1>13. Omf!CeilDiv(c + 3, w) \in Nat \ {0}
  <2>1. PICK d \in Nat : d = c + 3 /\ d > 0 OBVIOUS
  <2>2. Omf!CeilDiv(d, w) \in Nat /\ Omf!CeilDiv(d, w) > 0 BY <2>1, CeilIs
  <2> QED BY <2>1, <2>2
<1>14. PICK x \in Nat, y \in Nat \ {0} : x = Omf!CeilDiv(N, NumBuckets) /\ y = Omf!CeilDiv(c + 3, w) BY <1>12, <1>13
<1>15. Omf!Estimate(s) = Omf!Larger(x, y) - 1 BY <1>1, <1>8, <1>10, <1>11, <1>14
<1> QED BY <1>14, <1>15 DEF Omf!Larger

LEMMA PrimeIs == ASSUME Bertrand, NEW n \in Nat \ {0} PROVE Omf!NextPrime(n) \in Nat \ {0}
<1>1. CASE n <= 2 BY <1>1 DEF Omf!NextPrime
<1>2. CASE n > 2
  <2>1. PICK p \in n .. 2 * n : Omf!IsPrime(p) BY DEF Bertrand
  <2>2. p % 2 = 1
    <3>1. CASE p = 3 BY <3>1
    <3>2. CASE p # 3
      <4>1. p \in Nat /\ p > 3 /\ 2 \in 2 .. p - 1 /\ ~(2 * 2 > p) BY <1>2, <3>2
      <4>2. p % 2 # 0 BY <2>1, <4>1 DEF Omf!IsPrime
      <4> QED BY <4>1, <4>2
    <3> QED BY <3>1, <3>2
  <2>3. PICK o \in Nat : o = Omf!Odd(n) /\ o >= n /\ o <= p
    <3>1. CASE n % 2 = 0 BY <2>2, <3>1 DEF Omf!Odd
    <3>2. CASE n % 2 # 0 BY <3>2 DEF Omf!Odd
    <3> QED BY <3>1, <3>2
  <2> DEFINE S == {m \in o .. 2 * n : m % 2 = 1 /\ Omf!IsPrime(m)}
  <2>4. p \in S /\ S \in SUBSET Nat BY <2>1, <2>2, <2>3
  <2>5. PICK m \in S : \A k \in S : m <= k
    <3> HIDE DEF S
    <3> QED BY <2>4, Least
  <2>6. \A k \in o .. m - 1 : k % 2 = 1 => ~Omf!IsPrime(k)
    <3> SUFFICES ASSUME NEW k \in o .. m - 1, k % 2 = 1, Omf!IsPrime(k) PROVE FALSE
      OBVIOUS
    <3>1. m \in o .. 2 * n BY <2>5
    <3>2. k \in o .. 2 * n /\ k < m BY <2>3, <3>1
    <3>3. k \in S BY <3>2
    <3> QED BY <2>5, <3>1, <3>2, <3>3
  <2>7. m \in o .. 2 * n /\ m % 2 = 1 /\ Omf!IsPrime(m) BY <2>5
  <2>8. \E x \in Omf!Odd(n) .. 2 * n : /\ x % 2 = 1 /\ Omf!IsPrime(x)
                                       /\ \A k \in Omf!Odd(n) .. x - 1 : k % 2 = 1 => ~Omf!IsPrime(k)
    BY <2>3, <2>6, <2>7
  <2>9. Omf!NextPrime(n) \in Omf!Odd(n) .. 2 * n
    <3>1. ~(n <= 2) BY <1>2
    <3> QED BY <2>8, <3>1 DEF Omf!NextPrime
  <2> QED BY <1>2, <2>3, <2>9
<1> QED BY <1>1, <1>2

-----------------------------------------------------------------------------
(* Next states                                                              *)

\* A way through pages that stay is a way in the next state, too.
LEMMA WaySame == ASSUME numBlocks' = numBlocks, NEW P, NEW n, NEW k, NEW bl, NEW bu, Way(P, n, k, bl, bu) PROVE Way(P, n, k, bl, bu)'
BY DEF Way, Blocks, Passed, Omf!Wrap, Omf!Inc, Omf!Bucket

LEMMA AheadSame ==
  ASSUME numBlocks' = numBlocks, NEW P, NEW n, NEW e, NEW left, NEW b, NEW c, Ahead(P, n, e, left, b, c)
  PROVE  Ahead(P, n, e, left, b, c)'
<1>1. PICK k \in 0 .. left - 1 : \E bl, bu : Way(P, n, k, bl, bu) /\ bl[0] = b /\ bu[0] = c /\ Here(P[bl[k]], n, bu[k], e)
  BY DEF Ahead
<1>2. PICK bl, bu : Way(P, n, k, bl, bu) /\ bl[0] = b /\ bu[0] = c /\ Here(P[bl[k]], n, bu[k], e) BY <1>1
<1>3. Way(P, n, k, bl, bu)' BY <1>2, WaySame
<1>4. Here(P[bl[k]], n, bu[k], e)' BY <1>2 DEF Here, Omf!Bucket
<1> QED BY <1>2, <1>3, <1>4 DEF Ahead

-----------------------------------------------------------------------------
(* The reader                                                               *)

Hits(p, n, c) == {j \in 0 .. NumBuckets - 1 : LET w == p.htab[Omf!Bucket(n, c, j)] IN w = 0 \/ Omf!Matches(p.at[w], n)}
HitAt(p, n, c) == Omf!Bucket(n, c, CHOOSE j \in Hits(p, n, c) : \A k \in Hits(p, n, c) : j <= k)
\* The page after a.
After(n, a) == Omf!Wrap(a + Omf!Inc(n, numBlocks), numBlocks)

\* The way of a symbol that matches is the way of the name that is searched.
LEMMA AheadFold ==
  ASSUME OmfBounds, NEW m \in Names, NEW n \in Names, Hash(m) = Hash(n), NEW P, NEW e, NEW left, NEW b, NEW c, Ahead(P, m, e, left, b, c)
  PROVE  Ahead(P, n, e, left, b, c)
<1>1. PICK k \in 0 .. left - 1 : \E bl, bu : Way(P, m, k, bl, bu) /\ bl[0] = b /\ bu[0] = c /\ Here(P[bl[k]], m, bu[k], e)
  BY DEF Ahead
<1>2. PICK bl, bu : Way(P, m, k, bl, bu) /\ bl[0] = b /\ bu[0] = c /\ Here(P[bl[k]], m, bu[k], e) BY <1>1
<1>3. \A x, y : Omf!Bucket(m, x, y) = Omf!Bucket(n, x, y) BY DEF Omf!Bucket
<1>4. Omf!Inc(m, numBlocks) = Omf!Inc(n, numBlocks) BY DEF Omf!Inc
<1>5. \A p, x, y : Passed(p, m, x, y) => Passed(p, n, x, y) BY <1>3 DEF Passed
<1>6. Way(P, n, k, bl, bu) BY <1>2, <1>4, <1>5 DEF Way
<1>7. Here(P[bl[k]], n, bu[k], e) BY <1>2, <1>3 DEF Here
<1> QED BY <1>2, <1>6, <1>7 DEF Ahead

\* A way that does not end here goes on in the next page.
LEMMA AheadTurn ==
  ASSUME NEW P, NEW n, NEW e, NEW left \in Nat, NEW a, NEW c, Ahead(P, n, e, left, a, c)
  PROVE  \/ Here(P[a], n, c, e)
         \/ left > 1 /\ \E d \in Nat : Passed(P[a], n, c, d) /\ Ahead(P, n, e, left - 1, After(n, a), d)
<1>1. PICK k \in 0 .. left - 1 : \E bl, bu : Way(P, n, k, bl, bu) /\ bl[0] = a /\ bu[0] = c /\ Here(P[bl[k]], n, bu[k], e)
  BY DEF Ahead
<1>2. PICK bl, bu : Way(P, n, k, bl, bu) /\ bl[0] = a /\ bu[0] = c /\ Here(P[bl[k]], n, bu[k], e) BY <1>1
<1>3. CASE k = 0 BY <1>2, <1>3
<1>4. CASE k # 0
  <2>1. PICK m \in Nat : k = m + 1
    <3>1. k - 1 \in Nat /\ k = (k - 1) + 1 BY <1>4
    <3> QED BY <3>1
  <2>2. left > 1 /\ m \in 0 .. (left - 1) - 1 BY <2>1
  <2> DEFINE cl == [i \in 0 .. m |-> bl[i + 1]]
             cu == [i \in 0 .. m |-> bu[i + 1]]
  <2>3. bl \in [0 .. k -> Blocks] /\ bu \in [0 .. k -> Nat] BY <1>2 DEF Way
  <2>4. \A i \in 0 .. m : i + 1 \in 0 .. k BY <2>1
  <2>5. cl \in [0 .. m -> Blocks] /\ cu \in [0 .. m -> Nat] BY <2>3, <2>4
  <2>6. \A i \in 0 .. m : cl[i] = bl[i + 1] /\ cu[i] = bu[i + 1] OBVIOUS
  <2> HIDE DEF cl, cu
  <2>7. Way(P, n, m, cl, cu)
    <3> SUFFICES ASSUME NEW i \in 0 .. m - 1
                 PROVE  cl[i + 1] = Omf!Wrap(cl[i] + Omf!Inc(n, numBlocks), numBlocks) /\ Passed(P[cl[i]], n, cu[i], cu[i + 1])
      BY <2>5 DEF Way
    <3>1. i \in 0 .. m /\ i + 1 \in 0 .. m /\ i + 1 \in 0 .. k - 1 BY <2>1
    <3>2. bl[(i + 1) + 1] = Omf!Wrap(bl[i + 1] + Omf!Inc(n, numBlocks), numBlocks) /\ Passed(P[bl[i + 1]], n, bu[i + 1], bu[(i + 1) + 1])
      BY <1>2, <3>1 DEF Way
    <3> QED BY <2>6, <3>1, <3>2
  <2>8. 0 \in 0 .. m /\ m \in 0 .. m /\ 0 \in 0 .. k - 1 /\ 0 + 1 = 1 BY <2>1
  <2>9. cl[0] = bl[1] /\ cu[0] = bu[1] /\ cl[m] = bl[k] /\ cu[m] = bu[k] BY <2>1, <2>6, <2>8
  <2>10. bl[1] = After(n, a) /\ Passed(P[a], n, c, bu[1]) BY <1>2, <2>8 DEF Way, After
  <2>11. bu[1] \in Nat BY <2>5, <2>8, <2>9
  <2>12. Here(P[cl[m]], n, cu[m], e) BY <1>2, <2>9
  <2>13. Ahead(P, n, e, left - 1, After(n, a), bu[1]) BY <2>2, <2>7, <2>9, <2>10, <2>12 DEF Ahead
  <2> QED BY <2>2, <2>10, <2>11, <2>13
<1> QED BY <1>3, <1>4

\* A search looks at a page as the writer left it.
LEMMA SearchTurn ==
  ASSUME OmfBounds, NEW P, NEW n \in Names, NEW e, NEW left \in Nat, NEW a, NEW c \in Nat, Ahead(P, n, e, left, a, c), Omf!Matches(e, n)
  PROVE  \/ Hits(P[a], n, c) # {} /\ P[a].htab[HitAt(P[a], n, c)] # 0
         \/ left > 1 /\ Hits(P[a], n, c) = {} /\ Ahead(P, n, e, left - 1, After(n, a), c)
         \/ /\ left > 1 /\ Hits(P[a], n, c) # {} /\ P[a].fflag = Full
            /\ Ahead(P, n, e, left - 1, After(n, a), HitAt(P[a], n, c))
<1>1. PICK p : p = P[a] OBVIOUS
<1>2. PICK hit : hit = Hits(p, n, c) OBVIOUS
<1>3. hit = {j \in Buckets : p.htab[Omf!Bucket(n, c, j)] = 0 \/ Omf!Matches(p.at[p.htab[Omf!Bucket(n, c, j)]], n)}
  BY <1>2 DEF Hits, Buckets
<1>4. hit \in SUBSET Nat /\ hit \subseteq Buckets BY <1>3, BucketsIs
<1>5. HitAt(p, n, c) = Omf!Bucket(n, c, First(hit))
  <2>1. HitAt(p, n, c) = Omf!Bucket(n, c, First(Hits(p, n, c))) BY DEF HitAt, First
  <2> QED BY <1>2, <2>1
<1>6. hit # {} => First(hit) \in hit /\ \A k \in hit : First(hit) <= k BY <1>4, FirstIs
<1>7. PICK f : f = First(hit) OBVIOUS
<1>8. CASE Here(p, n, c, e)
  <2>1. PICK j \in Buckets : (\A k \in 0 .. j : p.htab[Omf!Bucket(n, c, k)] # 0) /\ p.at[p.htab[Omf!Bucket(n, c, j)]] = e
    BY <1>8 DEF Here
  <2>2. j \in hit BY <1>3, <2>1
  <2>3. f \in hit /\ f <= j /\ f \in Nat /\ j \in Nat BY <1>4, <1>6, <1>7, <2>2
  <2>4. p.htab[Omf!Bucket(n, c, f)] # 0 BY <2>1, <2>3
  <2> QED BY <1>1, <1>2, <1>5, <1>7, <2>2, <2>4
<1>9. ASSUME left > 1, NEW d \in Nat, Passed(p, n, c, d), Ahead(P, n, e, left - 1, After(n, a), d)
      PROVE  \/ hit # {} /\ p.htab[HitAt(p, n, c)] # 0
             \/ hit = {} /\ Ahead(P, n, e, left - 1, After(n, a), c)
             \/ hit # {} /\ p.fflag = Full /\ Ahead(P, n, e, left - 1, After(n, a), HitAt(p, n, c))
  <2>1. CASE d = c /\ \A j \in Buckets : p.htab[Omf!Bucket(n, c, j)] # 0
    <3>1. CASE hit = {} BY <1>9, <2>1, <3>1
    <3>2. CASE hit # {}
      <4>1. f \in Buckets BY <1>4, <1>6, <1>7, <3>2
      <4> QED BY <1>5, <1>7, <2>1, <3>2, <4>1
    <3> QED BY <3>1, <3>2
  <2>2. ASSUME p.fflag = Full, NEW j \in Buckets, p.htab[Omf!Bucket(n, c, j)] = 0, \A k \in 0 .. j - 1 : p.htab[Omf!Bucket(n, c, k)] # 0,
               d = Omf!Bucket(n, c, j)
        PROVE  \/ hit # {} /\ p.htab[HitAt(p, n, c)] # 0
               \/ hit # {} /\ p.fflag = Full /\ Ahead(P, n, e, left - 1, After(n, a), HitAt(p, n, c))
    <3>1. j \in hit BY <1>3, <2>2
    <3>2. f \in hit /\ f <= j /\ f \in Nat /\ j \in Nat BY <1>4, <1>6, <1>7, <3>1
    <3>3. CASE f = j
      <4>1. HitAt(p, n, c) = d BY <1>5, <1>7, <2>2, <3>3
      <4>2. Ahead(P, n, e, left - 1, After(n, a), HitAt(p, n, c)) BY <1>9, <4>1
      <4> QED BY <2>2, <3>1, <4>2
    <3>4. CASE f # j
      <4>1. f \in 0 .. j - 1 BY <3>2, <3>4
      <4>2. p.htab[Omf!Bucket(n, c, f)] # 0 BY <2>2, <4>1
      <4> QED BY <1>5, <1>7, <3>1, <4>2
    <3> QED BY <3>3, <3>4
  <2> QED BY <1>9, <2>1, <2>2 DEF Passed
<1>10. Here(p, n, c, e) \/ (left > 1 /\ \E d \in Nat : Passed(p, n, c, d) /\ Ahead(P, n, e, left - 1, After(n, a), d))
  BY <1>1, AheadTurn
<1>11. CASE left > 1 /\ \E d \in Nat : Passed(p, n, c, d) /\ Ahead(P, n, e, left - 1, After(n, a), d)
  BY <1>1, <1>2, <1>9, <1>11
<1> QED BY <1>8, <1>10, <1>11

-----------------------------------------------------------------------------
(* The states                                                               *)

Held(P, s) == HonestTo(P, s) /\ \A i \in 1 .. Len(s) : OnWay(P, s[i], [name |-> s[i], offset |-> i])
Named(s, n) == {i \in DOMAIN s : Omf!Matches([name |-> s[i]], n)}
On(n, a, c, left) == [state |-> "on", name |-> n, major |-> a, minor |-> c, left |-> left]
Found(n, o) == [state |-> "found", name |-> n, offset |-> o]
Missing(n) == [state |-> "missing", name |-> n]

\* Every symbol that the search is for is still ahead of it.
OnAhead(P, s, n, a, c, left) == \A i \in Named(s, n) : Ahead(P, n, [name |-> s[i], offset |-> i], left, a, c)
Searching(P, s, q) ==
  \/ q = [state |-> "none"]
  \/ \E n \in Names, a \in Blocks, c \in Nat, left \in Nat \ {0} : q = On(n, a, c, left) /\ OnAhead(P, s, n, a, c, left)
  \/ \E n \in Names : \E o \in Named(s, n) : q = Found(n, o)
  \/ \E n \in Names : q = Missing(n) /\ Named(s, n) = {}

OmfInv ==
  /\ numBlocks \in Nat \ {0} /\ syms \in Seq(Names) /\ caseFlag \in BOOLEAN /\ cache \in {Omf!NoCache, Omf!Parts}
  /\ \/ dict = << >> /\ cache = Omf!NoCache /\ search = [state |-> "none"]
     \/ \E P \in Pages, s \in Seq(Names) : \E q : dict = P /\ syms = s /\ search = q /\ Held(P, s) /\ Searching(P, s, q)

LEMMA HeldSame == ASSUME numBlocks' = numBlocks, NEW P, NEW s, Held(P, s) PROVE Held(P, s)'
<1>1. HonestTo(P, s)' BY DEF Held, HonestTo, Blocks
<1>2. ASSUME NEW i \in 1 .. Len(s) PROVE OnWay(P, s[i], [name |-> s[i], offset |-> i])'
  <2>1. PICK n, e, a, c, N : n = s[i] /\ e = [name |-> s[i], offset |-> i] /\ N = numBlocks /\ a = Omf!Start(n, N) /\ c = Hash(n).minor OBVIOUS
  <2>2. Ahead(P, n, e, N, a, c) BY <2>1 DEF Held, OnWay
  <2>3. Ahead(P, n, e, N, a, c)' BY <2>2, AheadSame
  <2>4. numBlocks' = N BY <2>1
  <2> QED BY <2>1, <2>3, <2>4 DEF OnWay
<1> QED BY <1>1, <1>2 DEF Held

LEMMA SearchingSame ==
  ASSUME numBlocks' = numBlocks, caseFlag' = caseFlag, NEW P, NEW s, NEW q, Searching(P, s, q) PROVE Searching(P, s, q)'
<1>1. Blocks' = Blocks BY DEF Blocks
<1>2. ASSUME NEW n PROVE Named(s, n)' = Named(s, n) BY DEF Named, Omf!Matches
<1>3. CASE q = [state |-> "none"] BY <1>3 DEF Searching
<1>4. CASE \E n \in Names, a \in Blocks, c \in Nat, left \in Nat \ {0} : q = On(n, a, c, left) /\ OnAhead(P, s, n, a, c, left)
  <2>1. PICK n \in Names, a \in Blocks, c \in Nat, left \in Nat \ {0} : q = On(n, a, c, left) /\ OnAhead(P, s, n, a, c, left) BY <1>4
  <2>2. a \in Blocks' BY <1>1
  <2>3. OnAhead(P, s, n, a, c, left)'
    <3>1. ASSUME NEW i \in Named(s, n) PROVE Ahead(P, n, [name |-> s[i], offset |-> i], left, a, c)'
      <4>1. PICK e : e = [name |-> s[i], offset |-> i] OBVIOUS
      <4>2. Ahead(P, n, e, left, a, c) BY <2>1, <4>1 DEF OnAhead
      <4>3. Ahead(P, n, e, left, a, c)' BY <4>2, AheadSame
      <4> QED BY <4>1, <4>3
    <3> QED BY <1>2, <3>1 DEF OnAhead
  <2> QED BY <2>1, <2>2, <2>3 DEF Searching, On
<1>5. CASE \E n \in Names : \E o \in Named(s, n) : q = Found(n, o)
  <2>1. PICK n \in Names : \E o \in Named(s, n) : q = Found(n, o) BY <1>5
  <2>3. PICK o \in Named(s, n) : q = Found(n, o) BY <2>1
  <2>2. o \in Named(s, n)' BY <1>2
  <2> QED BY <2>3, <2>2 DEF Searching, Found
<1>6. CASE \E n \in Names : q = Missing(n) /\ Named(s, n) = {}
  <2>1. PICK n \in Names : q = Missing(n) /\ Named(s, n) = {} BY <1>6
  <2>2. Named(s, n)' = {} BY <1>2, <2>1
  <2> QED BY <2>1, <2>2 DEF Searching, Missing
<1> QED BY <1>3, <1>4, <1>5, <1>6 DEF Searching

\* The steps that leave the dictionary as it is.
LEMMA InvSame ==
  ASSUME NEW P \in Pages, NEW s \in Seq(Names), NEW q, numBlocks \in Nat \ {0}, caseFlag \in BOOLEAN,
         numBlocks' = numBlocks, syms' = s, caseFlag' = caseFlag, dict' = P, search' = q, cache' \in {Omf!NoCache, Omf!Parts},
         Held(P, s), Searching(P, s, q)
  PROVE  OmfInv'
<1>1. Held(P, s)' BY HeldSame
<1>2. Searching(P, s, q)' BY SearchingSame
<1>3. P \in Pages' BY DEF Pages, Blocks
<1>4. cache' \in {Omf!NoCache', Omf!Parts'} BY DEF Omf!NoCache, Omf!Parts
<1>5. numBlocks' \in Nat \ {0} /\ syms' \in Seq(Names) /\ caseFlag' \in BOOLEAN OBVIOUS
<1>6. (\E R \in Pages, t \in Seq(Names) : \E r : dict = R /\ syms = t /\ search = r /\ Held(R, t) /\ Searching(R, t, r))'
  BY <1>1, <1>2, <1>3
<1>7. (numBlocks \in Nat \ {0} /\ syms \in Seq(Names) /\ caseFlag \in BOOLEAN /\ cache \in {Omf!NoCache, Omf!Parts})' BY <1>4, <1>5
<1> QED BY <1>6, <1>7 DEF OmfInv

LEMMA PagesNotNone == ASSUME numBlocks \in Nat \ {0}, NEW P \in Pages PROVE P # << >>
<1>1. 0 \in Blocks BY DEF Blocks
<1>2. DOMAIN P = Blocks BY DEF Pages
<1>3. DOMAIN << >> = {} OBVIOUS
<1> QED BY <1>1, <1>2, <1>3

\* The part of the dictionary in the cache is the one that is asked for.
LEMMA CachedIs ==
  ASSUME OmfBounds, numBlocks \in Nat \ {0}, cache = Omf!Parts, NEW a \in Blocks PROVE Omf!CachedPage(a) = a
<1>1. PICK K \in Nat \ {0} : K = PagesInCache BY DEF OmfBounds
<1>2. PICK N \in Nat \ {0} : N = numBlocks OBVIOUS
<1>3. a \in Nat /\ a < N BY <1>2 DEF Blocks
<1>4. PICK q, r, Q, R : q = a \div K /\ r = a % K /\ Q = N \div K /\ R = N % K OBVIOUS
<1>5. q \in Nat /\ r \in 0 .. K - 1 /\ Q \in Nat /\ R \in 0 .. K - 1 BY <1>1, <1>2, <1>3, <1>4
<1>6. a = K * (a \div K) + (a % K) BY <1>3
<1>7. N = K * (N \div K) + (N % K) OBVIOUS
<1>8. a = K * q + r /\ N = K * Q + R BY <1>4, <1>6, <1>7
<1>9. q <= Q
  <2> SUFFICES ASSUME q > Q PROVE FALSE
    BY <1>5
  <2>1. PICK d \in Nat : q = Q + 1 + d
    <3>1. q - Q - 1 \in Nat /\ q = Q + 1 + (q - Q - 1) BY <1>5
    <3> QED BY <3>1
  <2>2. K * q = K * Q + K + K * d BY <1>1, <1>5, <2>1
  <2>3. K * d \in Nat /\ K * Q \in Nat BY <1>1, <1>5
  <2> QED BY <1>3, <1>5, <1>8, <2>2, <2>3
<1>10. cache = [k \in 0 .. Q |-> [m \in 0 .. K - 1 |-> k * K + m]] BY <1>1, <1>2, <1>4 DEF Omf!Parts
<1>11. q \in 0 .. Q BY <1>5, <1>9
<1>12. cache[q] = [m \in 0 .. K - 1 |-> q * K + m] BY <1>10, <1>11
<1>13. cache[q][r] = q * K + r BY <1>5, <1>12
<1>14. q * K = K * q BY <1>1, <1>5
<1> QED BY <1>1, <1>4, <1>8, <1>13, <1>14 DEF Omf!CachedPage

LEMMA OmfInit == ASSUME OmfBounds, Bertrand, Omf!Init PROVE OmfInv
<1>1. syms \in Seq(Names)
  <2>1. PICK k \in 0 .. MaxSyms : syms \in [1 .. k -> Names] BY DEF Omf!Init
  <2>2. k \in Nat BY DEF OmfBounds
  <2> QED BY <2>1, <2>2
<1>2. Omf!Estimate(syms) \in Nat BY <1>1, EstimateIs
<1>3. PICK k \in Nat \ {0} : k = Omf!Estimate(syms) + 1 BY <1>2
<1>4. Omf!NextPrime(k) \in Nat \ {0} BY PrimeIs
<1>5. numBlocks \in Nat \ {0} BY <1>3, <1>4 DEF Omf!Init
<1> QED BY <1>1, <1>5 DEF Omf!Init, OmfInv

LEMMA OmfWrite == ASSUME OmfBounds, Bertrand, OmfInv, Omf!WriteOmfDict PROVE OmfInv'
<1>1. dict = << >> /\ numBlocks \in Nat \ {0} BY DEF Omf!WriteOmfDict, OmfInv
<1>2. cache = Omf!NoCache /\ search = [state |-> "none"] BY <1>1, PagesNotNone DEF OmfInv
<1>3. PICK t : t = Omf!HashOmfSymbols OBVIOUS
<1>4. Hashed(t, Len(syms)) BY <1>1, <1>3, HashAll DEF OmfInv
<1>5. syms' = syms /\ caseFlag' = caseFlag /\ cache' = cache /\ search' = search BY DEF Omf!WriteOmfDict
<1>6. IF t.done THEN dict' = t.pages /\ numBlocks' = numBlocks ELSE numBlocks' = Omf!NextPrime(numBlocks + 1) /\ dict' = dict
  BY <1>3 DEF Omf!WriteOmfDict
<1>7. syms \in Seq(Names) /\ caseFlag \in BOOLEAN BY DEF OmfInv
<1>8. CASE t.done
  <2>1. PICK P \in Pages : P = t.pages BY <1>4, <1>8 DEF Hashed
  <2>2. PICK s \in Seq(Names) : s = syms BY <1>7
  <2>3. Held(P, s)
    <3>1. HonestTo(P, s) BY <1>4, <1>8, <2>1, <2>2 DEF Hashed, Honest
    <3>2. \A i \in 1 .. Len(s) : OnWay(P, s[i], [name |-> s[i], offset |-> i]) BY <1>4, <1>8, <2>1, <2>2 DEF Hashed, Sym
    <3> QED BY <3>1, <3>2 DEF Held
  <2>4. PICK q : q = [state |-> "none"] OBVIOUS
  <2>5. Searching(P, s, q) BY <2>4 DEF Searching
  <2>6. numBlocks' = numBlocks /\ dict' = P BY <1>6, <1>8, <2>1
  <2>7. syms' = s /\ search' = q /\ cache' \in {Omf!NoCache, Omf!Parts} BY <1>2, <1>5, <2>2, <2>4
  <2> QED BY <1>1, <1>5, <1>7, <2>3, <2>5, <2>6, <2>7, InvSame
<1>9. CASE ~t.done
  <2>1. numBlocks' = Omf!NextPrime(numBlocks + 1) /\ dict' = << >> BY <1>1, <1>6, <1>9
  <2>2. PICK k \in Nat \ {0} : k = numBlocks + 1 BY <1>1
  <2>3. Omf!NextPrime(k) \in Nat \ {0} BY PrimeIs
  <2>4. numBlocks' \in Nat \ {0} BY <2>1, <2>2, <2>3
  <2>5. cache' = Omf!NoCache' BY <1>2, <1>5 DEF Omf!NoCache
  <2>6. syms' \in Seq(Names) /\ caseFlag' \in BOOLEAN /\ search' = [state |-> "none"] BY <1>2, <1>5, <1>7
  <2> QED BY <2>1, <2>4, <2>5, <2>6 DEF OmfInv
<1> QED BY <1>8, <1>9

LEMMA OmfStart == ASSUME OmfBounds, OmfInv, NEW n \in Names, Omf!OMFSearchExtLib(n) PROVE OmfInv'
<1>1. dict # << >> /\ search.state = "none" BY DEF Omf!OMFSearchExtLib
<1>2. PICK P \in Pages : \E s \in Seq(Names) : \E q : dict = P /\ syms = s /\ search = q /\ Held(P, s) /\ Searching(P, s, q)
  BY <1>1 DEF OmfInv
<1>3. PICK s \in Seq(Names) : dict = P /\ syms = s /\ Held(P, s) BY <1>2
<1>4. numBlocks \in Nat \ {0} /\ caseFlag \in BOOLEAN /\ cache \in {Omf!NoCache, Omf!Parts} BY DEF OmfInv
<1>5. numBlocks' = numBlocks /\ syms' = s /\ caseFlag' = caseFlag /\ dict' = P /\ cache' \in {Omf!NoCache, Omf!Parts}
  BY <1>3, <1>4 DEF Omf!OMFSearchExtLib
<1>6. PICK a \in Blocks, c \in Nat, left \in Nat \ {0} : a = Omf!Start(n, numBlocks) /\ c = Hash(n).minor /\ left = numBlocks
  BY <1>4, StartIs
<1>7. PICK q : q = On(n, a, c, left) OBVIOUS
<1>8. search' = q BY <1>6, <1>7 DEF Omf!OMFSearchExtLib, On
<1>9. OnAhead(P, s, n, a, c, left)
  <2> SUFFICES ASSUME NEW i \in Named(s, n) PROVE Ahead(P, n, [name |-> s[i], offset |-> i], left, a, c)
    BY DEF OnAhead
  <2>1. i \in 1 .. Len(s) /\ s[i] \in Names BY DEF Named
  <2>2. PICK m, e : m \in Names /\ m = s[i] /\ e = [name |-> s[i], offset |-> i] BY <2>1
  <2>3. Fold(m) = Fold(n)
    <3>1. PICK x : x = [name |-> m] OBVIOUS
    <3>2. Omf!Matches(x, n) BY <2>2, <3>1 DEF Named
    <3>3. x.name = m BY <3>1
    <3> QED BY <3>2, <3>3 DEF Omf!Matches
  <2>4. Hash(m) = Hash(n) BY <2>2, <2>3 DEF OmfBounds
  <2>5. OnWay(P, m, e) BY <1>3, <2>1, <2>2 DEF Held
  <2>6. Omf!Start(m, numBlocks) = a /\ Hash(m).minor = c BY <1>6, <2>4 DEF Omf!Start
  <2>7. Ahead(P, m, e, left, a, c) BY <1>6, <2>5, <2>6 DEF OnWay
  <2>8. Ahead(P, n, e, left, a, c) BY <2>2, <2>4, <2>7, AheadFold
  <2> QED BY <2>2, <2>8
<1>10. Searching(P, s, q) BY <1>7, <1>9 DEF Searching
<1> QED BY <1>3, <1>4, <1>5, <1>8, <1>10, InvSame

ToNext(q, a, left) == [q EXCEPT !.major = a, !.left = left]
AtMinor(q, c) == [q EXCEPT !.minor = c]
Onward(q) == IF q.left = 1 THEN [state |-> "missing", name |-> q.name] ELSE ToNext(q, After(q.name, q.major), q.left - 1)
\* What SearchPage makes of the search at page p.
Searched(q, p) ==
  IF Hits(p, q.name, q.minor) = {} THEN Onward(q)
  ELSE IF p.htab[HitAt(p, q.name, q.minor)] # 0
  THEN [state |-> "found", name |-> q.name, offset |-> p.at[p.htab[HitAt(p, q.name, q.minor)]].offset]
  ELSE IF p.fflag # Omf!Full \/ q.left = 1 THEN [state |-> "missing", name |-> q.name]
  ELSE AtMinor(Onward(q), HitAt(p, q.name, q.minor))

LEMMA SearchPageIs ==
  ASSUME Omf!SearchPage PROVE search' = Searched(search, dict[IF cache # Omf!NoCache THEN Omf!CachedPage(search.major) ELSE search.major])
BY DEF Omf!SearchPage, Searched, Onward, ToNext, AtMinor, Hits, HitAt, After, Omf!GoOnAt

LEMMA OnExcept ==
  ASSUME NEW n, NEW a, NEW c, NEW left, NEW a2, NEW c2, NEW left2
  PROVE  ToNext(On(n, a, c, left), a2, left2) = On(n, a2, c, left2) /\ AtMinor(On(n, a, c, left), c2) = On(n, a, c2, left)
<1>1. PICK S : S = {"on", n, a, c, left, a2, c2, left2} OBVIOUS
<1>2. n \in S /\ a \in S /\ c \in S /\ left \in S /\ "on" \in S /\ a2 \in S /\ c2 \in S /\ left2 \in S BY <1>1
<1> HIDE <1>1
<1>3. PICK q : q = On(n, a, c, left) OBVIOUS
<1>4. q \in [state : S, name : S, major : S, minor : S, left : S] BY <1>2, <1>3 DEF On
<1>5. q.state = "on" /\ q.name = n /\ q.major = a /\ q.minor = c /\ q.left = left BY <1>3 DEF On
<1>6. AtMinor(q, c2) = [state |-> q.state, name |-> q.name, major |-> q.major, minor |-> c2, left |-> q.left] BY <1>4 DEF AtMinor
<1>7. PICK u : u = [q EXCEPT !.major = a2] OBVIOUS
<1>8. u = [state |-> q.state, name |-> q.name, major |-> a2, minor |-> q.minor, left |-> q.left] BY <1>4, <1>7
<1>9. u \in [state : S, name : S, major : S, minor : S, left : S] BY <1>2, <1>4, <1>8
<1>10. u.state = "on" /\ u.name = n /\ u.major = a2 /\ u.minor = c /\ u.left = left BY <1>5, <1>8
<1>11. ToNext(q, a2, left2) = [u EXCEPT !.left = left2] BY <1>7 DEF ToNext
<1>12. [u EXCEPT !.left = left2] = [state |-> u.state, name |-> u.name, major |-> u.major, minor |-> u.minor, left |-> left2] BY <1>9
<1>13. ToNext(q, a2, left2) = On(n, a2, c, left2) BY <1>10, <1>11, <1>12 DEF On
<1>14. AtMinor(q, c2) = On(n, a, c2, left) BY <1>5, <1>6 DEF On
<1> QED BY <1>3, <1>13, <1>14

LEMMA OmfSearch == ASSUME OmfBounds, OmfInv, Omf!SearchPage PROVE OmfInv'
<1>1. search.state = "on" BY DEF Omf!SearchPage
<1>2. search # [state |-> "none"]
  <2> SUFFICES ASSUME search = [state |-> "none"] PROVE FALSE
    OBVIOUS
  <2>1. search.state = "none" OBVIOUS
  <2> QED BY <1>1, <2>1
<1>3. PICK P \in Pages : \E s \in Seq(Names) : \E q : dict = P /\ syms = s /\ search = q /\ Held(P, s) /\ Searching(P, s, q)
  BY <1>2 DEF OmfInv
<1>4. PICK s \in Seq(Names) : dict = P /\ syms = s /\ Held(P, s) /\ Searching(P, s, search) BY <1>3
<1>5. numBlocks \in Nat \ {0} /\ caseFlag \in BOOLEAN /\ cache \in {Omf!NoCache, Omf!Parts} BY DEF OmfInv
<1>6. numBlocks' = numBlocks /\ syms' = s /\ caseFlag' = caseFlag /\ dict' = P BY <1>4 DEF Omf!SearchPage
<1>7. cache' \in {Omf!NoCache, Omf!Parts} BY <1>5 DEF Omf!SearchPage
<1>8. \E n \in Names, a \in Blocks, c \in Nat, left \in Nat \ {0} : search = On(n, a, c, left) /\ OnAhead(P, s, n, a, c, left)
  <2>1. \A n, o : search # Found(n, o)
    <3> SUFFICES ASSUME NEW n, NEW o, search = Found(n, o) PROVE FALSE
      OBVIOUS
    <3>1. search.state = "found" BY DEF Found
    <3> QED BY <1>1, <3>1
  <2>2. \A n : search # Missing(n)
    <3> SUFFICES ASSUME NEW n, search = Missing(n) PROVE FALSE
      OBVIOUS
    <3>1. search.state = "missing" BY DEF Missing
    <3> QED BY <1>1, <3>1
  <2> QED BY <1>2, <1>4, <2>1, <2>2 DEF Searching
<1>9. PICK n \in Names, a \in Blocks, c \in Nat, left \in Nat \ {0} : search = On(n, a, c, left) /\ OnAhead(P, s, n, a, c, left)
  BY <1>8
<1>10. PICK q : q = On(n, a, c, left) /\ search = q BY <1>9
<1>11. q.name = n /\ q.major = a /\ q.minor = c /\ q.left = left BY <1>10 DEF On
<1>12. PICK p \in Page : p = P[a] BY DEF Pages
<1>13. search' = Searched(q, p)
  <2>1. search' = Searched(search, dict[IF cache # Omf!NoCache THEN Omf!CachedPage(search.major) ELSE search.major]) BY SearchPageIs
  <2>2. cache = Omf!Parts => Omf!CachedPage(a) = a BY <1>5, CachedIs
  <2>3. (IF cache # Omf!NoCache THEN Omf!CachedPage(search.major) ELSE search.major) = a BY <1>5, <1>10, <1>11, <2>2
  <2> QED BY <1>4, <1>10, <1>12, <2>1, <2>3
<1>14. PICK hit, b : hit = Hits(p, n, c) /\ b = HitAt(p, n, c) OBVIOUS
<1>15. hit # {} => b \in Buckets /\ b \in Nat /\ (p.htab[b] # 0 => Omf!Matches(p.at[p.htab[b]], n))
  <2> SUFFICES ASSUME hit # {} PROVE b \in Buckets /\ b \in Nat /\ (p.htab[b] # 0 => Omf!Matches(p.at[p.htab[b]], n))
    OBVIOUS
  <2>1. hit = {j \in Buckets : p.htab[Omf!Bucket(n, c, j)] = 0 \/ Omf!Matches(p.at[p.htab[Omf!Bucket(n, c, j)]], n)}
    BY <1>14 DEF Hits, Buckets
  <2>2. hit \in SUBSET Nat /\ hit \subseteq Buckets BY <2>1, BucketsIs
  <2>3. First(hit) \in hit BY <2>2, FirstIs
  <2>4. HitAt(p, n, c) = Omf!Bucket(n, c, First(Hits(p, n, c))) BY DEF HitAt, First
  <2>5. PICK f \in hit : b = Omf!Bucket(n, c, f) BY <1>14, <2>3, <2>4
  <2>6. b \in Buckets BY <2>2, <2>5, BucketIs
  <2> QED BY <2>1, <2>5, <2>6, BucketsIs
<1>16. \A i \in Named(s, n) : \/ hit # {} /\ p.htab[b] # 0
                              \/ left > 1 /\ hit = {} /\ Ahead(P, n, [name |-> s[i], offset |-> i], left - 1, After(n, a), c)
                              \/ left > 1 /\ hit # {} /\ p.fflag = Full /\ Ahead(P, n, [name |-> s[i], offset |-> i], left - 1, After(n, a), b)
  <2> SUFFICES ASSUME NEW i \in Named(s, n)
               PROVE  \/ hit # {} /\ p.htab[b] # 0
                      \/ left > 1 /\ hit = {} /\ Ahead(P, n, [name |-> s[i], offset |-> i], left - 1, After(n, a), c)
                      \/ left > 1 /\ hit # {} /\ p.fflag = Full /\ Ahead(P, n, [name |-> s[i], offset |-> i], left - 1, After(n, a), b)
    OBVIOUS
  <2>1. PICK e : e = [name |-> s[i], offset |-> i] OBVIOUS
  <2>2. PICK x : x = [name |-> s[i]] OBVIOUS
  <2>3. Omf!Matches(x, n) BY <2>2 DEF Named
  <2>4. e.name = x.name BY <2>1, <2>2
  <2>5. Omf!Matches(e, n) BY <2>3, <2>4 DEF Omf!Matches
  <2>6. Ahead(P, n, e, left, a, c) BY <1>9, <2>1 DEF OnAhead
  <2>7. left \in Nat OBVIOUS
  <2>8. \/ Hits(P[a], n, c) # {} /\ P[a].htab[HitAt(P[a], n, c)] # 0
        \/ left > 1 /\ Hits(P[a], n, c) = {} /\ Ahead(P, n, e, left - 1, After(n, a), c)
        \/ /\ left > 1 /\ Hits(P[a], n, c) # {} /\ P[a].fflag = Full
           /\ Ahead(P, n, e, left - 1, After(n, a), HitAt(P[a], n, c))
    BY <2>5, <2>6, <2>7, SearchTurn
  <2> QED BY <1>12, <1>14, <2>1, <2>8
<1>17. PICK r : r = Searched(q, p) OBVIOUS
<1>18. Searching(P, s, r)
  <2>1. PICK a2 \in Blocks : a2 = After(n, a) BY <1>5, NextIs DEF After
  <2>2. Full = Omf!Full BY FullIs
  <2>3. Onward(q) = IF left = 1 THEN Missing(n) ELSE On(n, a2, c, left - 1)
    <3>1. ToNext(On(n, a, c, left), a2, left - 1) = On(n, a2, c, left - 1) BY OnExcept
    <3> QED BY <1>10, <1>11, <2>1, <3>1 DEF Onward, Missing
  <2>4. r = IF hit = {} THEN Onward(q)
            ELSE IF p.htab[b] # 0 THEN Found(n, p.at[p.htab[b]].offset)
            ELSE IF p.fflag # Full \/ left = 1 THEN Missing(n)
            ELSE AtMinor(Onward(q), b)
    BY <1>11, <1>14, <1>17, <2>2 DEF Searched, Found, Missing
  <2>5. CASE hit # {} /\ p.htab[b] # 0
    <3>1. r = Found(n, p.at[p.htab[b]].offset) BY <2>4, <2>5
    <3>2. p.htab[b] \in DOMAIN p.at BY <1>15, <2>5 DEF Page, PageOK
    <3>3. PICK e, o : e = p.at[p.htab[b]] /\ o = e.offset OBVIOUS
    <3>4. o \in DOMAIN s /\ s[o] = e.name BY <1>4, <1>12, <3>2, <3>3 DEF Held, HonestTo
    <3>5. Omf!Matches(e, n) BY <1>15, <2>5, <3>3
    <3>6. PICK x : x = [name |-> s[o]] OBVIOUS
    <3>7. x.name = e.name BY <3>4, <3>6
    <3>8. Omf!Matches(x, n) BY <3>5, <3>7 DEF Omf!Matches
    <3>9. o \in Named(s, n) BY <3>4, <3>6, <3>8 DEF Named
    <3> QED BY <3>1, <3>3, <3>9 DEF Searching
  <2>6. CASE hit = {} /\ left # 1
    <3>1. PICK l \in Nat \ {0} : l = left - 1 BY <2>6
    <3>2. r = On(n, a2, c, l) BY <2>3, <2>4, <2>6, <3>1
    <3>3. OnAhead(P, s, n, a2, c, l) BY <1>16, <2>1, <2>6, <3>1 DEF OnAhead
    <3> QED BY <3>2, <3>3 DEF Searching
  <2>7. CASE hit # {} /\ p.htab[b] = 0 /\ p.fflag = Full /\ left # 1
    <3>1. PICK l \in Nat \ {0} : l = left - 1 BY <2>7
    <3>2. AtMinor(On(n, a2, c, l), b) = On(n, a2, b, l) BY OnExcept
    <3>3. r = On(n, a2, b, l) BY <2>3, <2>4, <2>7, <3>1, <3>2
    <3>4. OnAhead(P, s, n, a2, b, l) BY <1>16, <2>1, <2>7, <3>1 DEF OnAhead
    <3>5. b \in Nat BY <1>15, <2>7
    <3> QED BY <3>3, <3>4, <3>5 DEF Searching
  <2>8. CASE (hit = {} /\ left = 1) \/ (hit # {} /\ p.htab[b] = 0 /\ (p.fflag # Full \/ left = 1))
    <3>1. r = Missing(n) BY <2>3, <2>4, <2>8
    <3>2. ~(left > 1 /\ hit = {}) /\ ~(hit # {} /\ p.htab[b] # 0) /\ ~(left > 1 /\ hit # {} /\ p.fflag = Full) BY <2>8
    <3>3. Named(s, n) = {} BY <1>16, <3>2
    <3> QED BY <3>1, <3>3 DEF Searching
  <2> QED BY <2>5, <2>6, <2>7, <2>8
<1> QED BY <1>4, <1>5, <1>6, <1>7, <1>13, <1>17, <1>18, InvSame

LEMMA OmfRest ==
  ASSUME OmfInv, numBlocks' = numBlocks, syms' = syms, caseFlag' = caseFlag, dict' = dict, search' = search,
         cache' = cache \/ cache' = Omf!NoCache
  PROVE  OmfInv'
<1>1. numBlocks \in Nat \ {0} /\ syms \in Seq(Names) /\ caseFlag \in BOOLEAN /\ cache \in {Omf!NoCache, Omf!Parts} BY DEF OmfInv
<1>2. CASE dict = << >> /\ cache = Omf!NoCache /\ search = [state |-> "none"]
  <2>1. Omf!NoCache' = Omf!NoCache BY DEF Omf!NoCache
  <2> QED BY <1>1, <1>2, <2>1 DEF OmfInv
<1>3. ASSUME NEW P \in Pages, NEW s \in Seq(Names), NEW q, dict = P, syms = s, search = q, Held(P, s), Searching(P, s, q) PROVE OmfInv'
  <2>1. syms' = s /\ dict' = P /\ search' = q /\ cache' \in {Omf!NoCache, Omf!Parts} BY <1>1, <1>3
  <2> QED BY <1>1, <1>3, <2>1, InvSame
<1> QED BY <1>2, <1>3 DEF OmfInv

LEMMA OmfShows == ASSUME OmfBounds, OmfInv PROVE Omf!TypeOK /\ Omf!OmfFinds
<1>1. numBlocks \in Nat \ {0} /\ syms \in Seq(Names) /\ caseFlag \in BOOLEAN /\ cache \in {Omf!NoCache, Omf!Parts} BY DEF OmfInv
<1>2. CASE dict = << >> /\ search = [state |-> "none"]
  <2>1. search.state = "none" /\ DOMAIN dict = {} BY <1>2
  <2> QED BY <1>1, <2>1 DEF Omf!TypeOK, Omf!OmfFinds
<1>3. ASSUME NEW P \in Pages, NEW s \in Seq(Names), NEW q, dict = P, syms = s, search = q, Searching(P, s, q)
      PROVE  Omf!TypeOK /\ Omf!OmfFinds
  <2>1. \A b \in DOMAIN dict : dict[b].fflag \in 1 .. Omf!Full
    <3>1. Full = Omf!Full BY FullIs
    <3>2. DOMAIN P = Blocks /\ \A b \in Blocks : P[b] \in Page BY DEF Pages
    <3> QED BY <1>3, <3>1, <3>2 DEF Page, PageOK
  <2>2. CASE q = [state |-> "none"]
    <3>1. search.state = "none" BY <1>3, <2>2
    <3> QED BY <1>1, <2>1, <3>1 DEF Omf!TypeOK, Omf!OmfFinds
  <2>3. ASSUME NEW n, NEW a, NEW c, NEW left, q = On(n, a, c, left) PROVE Omf!TypeOK /\ Omf!OmfFinds
    <3>1. search.state = "on" BY <1>3, <2>3 DEF On
    <3> QED BY <1>1, <2>1, <3>1 DEF Omf!TypeOK, Omf!OmfFinds
  <2>4. ASSUME NEW n, NEW o \in Named(s, n), q = Found(n, o) PROVE Omf!TypeOK /\ Omf!OmfFinds
    <3>1. search.state = "found" /\ search.name = n /\ search.offset = o BY <1>3, <2>4 DEF Found
    <3>2. o \in {i \in DOMAIN syms : Omf!Matches([name |-> syms[i]], search.name)} BY <1>3, <2>4, <3>1 DEF Named
    <3> QED BY <1>1, <2>1, <3>1, <3>2 DEF Omf!TypeOK, Omf!OmfFinds
  <2>5. ASSUME NEW n, q = Missing(n), Named(s, n) = {} PROVE Omf!TypeOK /\ Omf!OmfFinds
    <3>1. search.state = "missing" /\ search.name = n BY <1>3, <2>5 DEF Missing
    <3>2. {i \in DOMAIN syms : Omf!Matches([name |-> syms[i]], search.name)} = {} BY <1>3, <2>5, <3>1 DEF Named
    <3> QED BY <1>1, <2>1, <3>1, <3>2 DEF Omf!TypeOK, Omf!OmfFinds
  <2> QED BY <1>3, <2>2, <2>3, <2>4, <2>5 DEF Searching
<1> QED BY <1>2, <1>3 DEF OmfInv

(* The dictionary of an OMF library finds every symbol that JWlib put into   *)
(* it and no other, whatever the names hash to, however long they are and    *)
(* however many pages it takes: the search of the linker (OMFSearchExtLib,   *)
(* OMFSearchDict, SetDict) goes the way of InsertOmfDict until the place of   *)
(* the symbol, because what others are put into pages later only makes       *)
(* buckets used and pages full, and neither turns it to another way.         *)
THEOREM OmfFindsAlways == ASSUME OmfBounds, Bertrand PROVE Omf!Spec => [](Omf!TypeOK /\ Omf!OmfFinds)
<1>1. Omf!Init => OmfInv BY OmfInit
<1>2. OmfInv /\ [Omf!Next]_Omf!vars => OmfInv'
  <2> SUFFICES ASSUME OmfInv, [Omf!Next]_Omf!vars PROVE OmfInv'
    OBVIOUS
  <2>1. CASE Omf!WriteOmfDict BY <2>1, OmfWrite
  <2>2. ASSUME NEW n \in Names, Omf!OMFSearchExtLib(n) PROVE OmfInv' BY <2>2, OmfStart
  <2>3. CASE Omf!SearchPage BY <2>3, OmfSearch
  <2>4. CASE Omf!DiscardDicts
    <3>1. /\ numBlocks' = numBlocks /\ syms' = syms /\ caseFlag' = caseFlag /\ dict' = dict /\ search' = search
          /\ cache' = cache \/ cache' = Omf!NoCache
      BY <2>4 DEF Omf!DiscardDicts
    <3> QED BY <3>1, OmfRest
  <2>5. CASE UNCHANGED Omf!vars BY <2>5, OmfRest DEF Omf!vars
  <2> QED BY <2>1, <2>2, <2>3, <2>4, <2>5 DEF Omf!Next
<1>3. OmfInv => Omf!TypeOK /\ Omf!OmfFinds BY OmfShows
<1> QED BY <1>1, <1>2, <1>3, PTL DEF Omf!Spec

-----------------------------------------------------------------------------
(* Sums *)

\* Total adds up one number after the other.
Sums(f, s) == f \in [0 .. Len(s) -> Nat] /\ f[0] = 0 /\ \A i \in 1 .. Len(s) : f[i] = f[i - 1] + s[i]

LEMMA TotalIs == ASSUME NEW s \in Seq(Nat) PROVE \E f : Sums(f, s) /\ Total(s) = f[Len(s)]
<1>1. PICK N \in Nat : N = Len(s) /\ DOMAIN s = 1 .. N OBVIOUS
<1>2. \A i \in 1 .. N : s[i] \in Nat BY <1>1
<1> DEFINE op == [x \in (1 .. N) \X Nat |-> x[2] + s[x[1]]]
           Is(g) == g = [q \in SUBSET DOMAIN s |-> IF q = {} THEN 0 ELSE g[q \ {Top(q)}] + s[Top(q)]]
           iter == CHOOSE g : Is(g)
<1>3. op \in [(1 .. N) \X Nat -> Nat]
  <2> SUFFICES ASSUME NEW x \in (1 .. N) \X Nat PROVE x[2] + s[x[1]] \in Nat
    OBVIOUS
  <2>1. x[1] \in 1 .. N /\ x[2] \in Nat OBVIOUS
  <2> QED BY <1>2, <2>1
<1>4. PICK h \in [SUBSET (1 .. N) -> Nat] : Folded(h, N, 0, op)
  <2>1. 0 \in Nat OBVIOUS
  <2> HIDE DEF op
  <2> QED BY <1>3, <2>1, FoldExists
<1>5. Is(h)
  <2>1. ASSUME NEW q \in SUBSET (1 .. N), q # {}
        PROVE  op[<<Top(q), h[q \ {Top(q)}]>>] = h[q \ {Top(q)}] + s[Top(q)]
    <3>1. Top(q) \in 1 .. N BY <2>1, TopOf
    <3>2. h[q \ {Top(q)}] \in Nat OBVIOUS
    <3>3. <<Top(q), h[q \ {Top(q)}]>> \in (1 .. N) \X Nat BY <3>1, <3>2
    <3> QED BY <3>3
  <2> QED BY <1>1, <1>4, <2>1 DEF Folded
<1>6. Is(iter)
  <2> HIDE DEF Is
  <2> QED BY <1>5
<1>7. Total(s) = iter[DOMAIN s] BY DEF Total, FoldLeft, MapThenFoldSet, Max, Top
<1>8. PICK it : Is(it) /\ Total(s) = it[DOMAIN s]
  <2> HIDE DEF Is
  <2> QED BY <1>6, <1>7
<1> HIDE DEF iter, op
<1> DEFINE f == [i \in 0 .. N |-> it[1 .. i]]
<1>9. \A i \in 0 .. N : f[i] = it[1 .. i] OBVIOUS
<1>10. it[1 .. 0] = 0
  <2>1. it[{}] = 0 BY <1>8
  <2>2. 1 .. 0 = {} OBVIOUS
  <2> QED BY <2>1, <2>2
<1>11. ASSUME NEW k \in 1 .. N PROVE it[1 .. k] = it[1 .. k - 1] + s[k]
  <2>1. Top(1 .. k) = k /\ (1 .. k) \ {Top(1 .. k)} = 1 .. k - 1 /\ 1 .. k \in SUBSET (1 .. N) /\ 1 .. k # {} BY TopStep
  <2>2. it[1 .. k] = it[(1 .. k) \ {Top(1 .. k)}] + s[Top(1 .. k)] BY <1>1, <1>8, <2>1
  <2> QED BY <2>1, <2>2
<1> HIDE DEF Is
<1> DEFINE Bad == {i \in Nat : i <= N /\ ~(it[1 .. i] \in Nat)}
<1>12. Bad = {}
  <2> SUFFICES ASSUME Bad # {} PROVE FALSE
    OBVIOUS
  <2>1. Bad \in SUBSET Nat OBVIOUS
  <2>2. PICK k \in Bad : \A m \in Bad : k <= m
    <3> HIDE DEF Bad
    <3> QED BY <2>1, Least
  <2>3. k # 0 BY <1>10, <2>2
  <2>4. k \in 1 .. N /\ k - 1 \in Nat /\ k - 1 <= N /\ k - 1 < k BY <2>2, <2>3
  <2>5. it[1 .. k - 1] \in Nat BY <2>2, <2>4
  <2>6. it[1 .. k] \in Nat
    <3>1. it[1 .. k] = it[1 .. k - 1] + s[k] BY <1>11, <2>4
    <3>2. s[k] \in Nat BY <1>2, <2>4
    <3>3. PICK a, b \in Nat : a = it[1 .. k - 1] /\ b = s[k] BY <2>5, <3>2
    <3>4. a + b \in Nat OBVIOUS
    <3> QED BY <3>1, <3>3, <3>4
  <2> QED BY <2>2, <2>6
<1>13. \A i \in 0 .. N : it[1 .. i] \in Nat BY <1>12
<1>14. f \in [0 .. N -> Nat] BY <1>13
<1>15. \A i \in 1 .. N : i \in 0 .. N /\ i - 1 \in 0 .. N OBVIOUS
<1> HIDE DEF f, Bad
<1>16. Sums(f, s)
  <2>1. f[0] = 0
    <3>1. 0 \in 0 .. N OBVIOUS
    <3> QED BY <1>9, <1>10, <3>1
  <2>2. ASSUME NEW i \in 1 .. N PROVE f[i] = f[i - 1] + s[i]
    <3>1. f[i] = it[1 .. i] /\ f[i - 1] = it[1 .. i - 1] BY <1>9, <1>15
    <3>2. it[1 .. i] = it[1 .. i - 1] + s[i] BY <1>11
    <3> QED BY <3>1, <3>2
  <2> QED BY <1>1, <1>14, <2>1, <2>2 DEF Sums
<1>17. Total(s) = f[Len(s)] BY <1>1, <1>8, <1>9
<1> QED BY <1>16, <1>17

\* A longer sequence of numbers no smaller has no smaller a total, part by part.
LEMMA SumsMore ==
  ASSUME NEW s \in Seq(Nat), NEW t \in Seq(Nat), Len(s) <= Len(t), \A i \in 1 .. Len(s) : s[i] <= t[i],
         NEW f, NEW g, Sums(f, s), Sums(g, t), NEW i \in 0 .. Len(s)
  PROVE  f[i] <= g[i]
<1>1. PICK M, N \in Nat : M = Len(s) /\ N = Len(t) /\ M <= N OBVIOUS
<1> DEFINE Bad == {k \in Nat : k <= M /\ ~(f[k] <= g[k])}
<1>2. Bad = {}
  <2> SUFFICES ASSUME Bad # {} PROVE FALSE
    OBVIOUS
  <2>1. Bad \in SUBSET Nat OBVIOUS
  <2>2. PICK k \in Bad : \A m \in Bad : k <= m
    <3> HIDE DEF Bad
    <3> QED BY <2>1, Least
  <2>3. k # 0 BY <2>2 DEF Sums
  <2>4. k \in 1 .. M /\ k \in 1 .. N /\ k - 1 \in Nat /\ k - 1 \in 0 .. M /\ k - 1 \in 0 .. N /\ k - 1 < k BY <1>1, <2>2, <2>3
  <2>5. f[k - 1] <= g[k - 1] BY <2>2, <2>4
  <2>6. f[k] = f[k - 1] + s[k] /\ g[k] = g[k - 1] + t[k] /\ f[k - 1] \in Nat /\ g[k - 1] \in Nat BY <1>1, <2>4 DEF Sums
  <2>7. s[k] \in Nat /\ t[k] \in Nat /\ s[k] <= t[k] BY <1>1, <2>4
  <2>8. f[k] <= g[k]
    <3>1. PICK a, b, c, d \in Nat : a = f[k - 1] /\ b = g[k - 1] /\ c = s[k] /\ d = t[k] BY <2>6, <2>7
    <3>4. a <= b /\ c <= d BY <2>5, <2>7, <3>1
    <3>2. a + c <= b + d BY <3>4
    <3> QED BY <2>6, <3>1, <3>2
  <2> QED BY <2>2, <2>8
<1> QED BY <1>1, <1>2

LEMMA SumsGrow ==
  ASSUME NEW s \in Seq(Nat), NEW f, Sums(f, s), NEW i \in 0 .. Len(s), NEW j \in i .. Len(s)
  PROVE  f[i] <= f[j]
<1>1. PICK N \in Nat : N = Len(s) OBVIOUS
<1> DEFINE Bad == {k \in Nat : k >= i /\ k <= N /\ ~(f[i] <= f[k])}
<1>2. Bad = {}
  <2> SUFFICES ASSUME Bad # {} PROVE FALSE
    OBVIOUS
  <2>1. Bad \in SUBSET Nat OBVIOUS
  <2>2. PICK k \in Bad : \A m \in Bad : k <= m
    <3> HIDE DEF Bad
    <3> QED BY <2>1, Least
  <2>3. f[i] \in Nat BY DEF Sums
  <2>4. k # i BY <2>2, <2>3
  <2>5. k \in 1 .. N /\ k - 1 \in Nat /\ k - 1 \in 0 .. N /\ k - 1 < k /\ k - 1 >= i BY <1>1, <2>2, <2>4
  <2>6. f[i] <= f[k - 1] BY <2>2, <2>5
  <2>7. f[k] = f[k - 1] + s[k] /\ f[k - 1] \in Nat BY <1>1, <2>5 DEF Sums
  <2>8. s[k] \in Nat BY <1>1, <2>5
  <2> QED BY <2>2, <2>3, <2>6, <2>7, <2>8
<1> QED BY <1>1, <1>2

LEMMA TotalMore ==
  ASSUME NEW s \in Seq(Nat), NEW t \in Seq(Nat), Len(s) <= Len(t), \A i \in 1 .. Len(s) : s[i] <= t[i]
  PROVE  Total(s) <= Total(t)
<1>1. PICK f : Sums(f, s) /\ Total(s) = f[Len(s)] BY TotalIs
<1>2. PICK g : Sums(g, t) /\ Total(t) = g[Len(t)] BY TotalIs
<1>3. PICK M, N \in Nat : M = Len(s) /\ N = Len(t) /\ M <= N OBVIOUS
<1>4. M \in 0 .. Len(s) /\ M \in 0 .. Len(t) /\ N \in M .. Len(t) BY <1>3
<1>5. f[M] <= g[M] BY <1>1, <1>2, <1>4, SumsMore
<1>6. g[M] <= g[N] BY <1>2, <1>4, SumsGrow
<1>7. f[M] \in Nat /\ g[M] \in Nat /\ g[N] \in Nat
  <2>1. N \in 0 .. Len(t) BY <1>3
  <2>2. f \in [0 .. Len(s) -> Nat] /\ g \in [0 .. Len(t) -> Nat] BY <1>1, <1>2 DEF Sums
  <2> QED BY <1>4, <2>1, <2>2
<1>8. PICK a, b, c \in Nat : a = f[M] /\ b = g[M] /\ c = g[N] BY <1>7
<1> QED BY <1>1, <1>2, <1>3, <1>5, <1>6, <1>8

LEMMA TotalHas == ASSUME NEW s \in Seq(Nat), NEW i \in 1 .. Len(s) PROVE s[i] <= Total(s) /\ Total(s) \in Nat
<1>1. PICK f : Sums(f, s) /\ Total(s) = f[Len(s)] BY TotalIs
<1>2. PICK N \in Nat : N = Len(s) OBVIOUS
<1>3. i \in 0 .. N /\ i - 1 \in 0 .. N /\ N \in i .. Len(s) /\ N \in 0 .. N BY <1>2
<1>4. f[i] <= f[N] BY <1>1, <1>2, <1>3, SumsGrow
<1>5. f[i] = f[i - 1] + s[i] /\ f[i - 1] \in Nat /\ f[N] \in Nat BY <1>1, <1>2, <1>3 DEF Sums
<1>6. s[i] \in Nat BY <1>2
<1> QED BY <1>1, <1>2, <1>4, <1>5, <1>6

LEMMA TotalAppend == ASSUME NEW s \in Seq(Nat), NEW x \in Nat PROVE Total(Append(s, x)) = Total(s) + x
<1>1. PICK t \in Seq(Nat) : t = Append(s, x)
  <2>1. Append(s, x) \in Seq(Nat) OBVIOUS
  <2> QED BY <2>1
<1>2. PICK f : Sums(f, s) /\ Total(s) = f[Len(s)] BY TotalIs
<1>3. PICK g : Sums(g, t) /\ Total(t) = g[Len(t)] BY TotalIs
<1>4. PICK N \in Nat : N = Len(s) /\ Len(t) = N + 1 /\ t[N + 1] = x /\ \A i \in 1 .. N : t[i] = s[i] BY <1>1
<1>5. g[N + 1] = g[N] + x
  <2>1. N + 1 \in 1 .. Len(t) /\ (N + 1) - 1 = N BY <1>4
  <2> QED BY <1>3, <1>4, <2>1 DEF Sums
<1> DEFINE Bad == {k \in Nat : k <= N /\ ~(f[k] = g[k])}
<1>6. Bad = {}
  <2> SUFFICES ASSUME Bad # {} PROVE FALSE
    OBVIOUS
  <2>1. Bad \in SUBSET Nat OBVIOUS
  <2>2. PICK k \in Bad : \A m \in Bad : k <= m
    <3> HIDE DEF Bad
    <3> QED BY <2>1, Least
  <2>3. k # 0 BY <1>2, <1>3, <2>2 DEF Sums
  <2>4. k \in 1 .. N /\ k \in 1 .. N + 1 /\ k - 1 \in Nat /\ k - 1 <= N /\ k - 1 < k BY <2>2, <2>3
  <2>5. f[k - 1] = g[k - 1] BY <2>2, <2>4, SMTT(20)
  <2>6. f[k] = f[k - 1] + s[k] /\ g[k] = g[k - 1] + t[k] BY <1>2, <1>3, <1>4, <2>4 DEF Sums
  <2> QED BY <1>4, <2>2, <2>4, <2>5, <2>6
<1>7. f[N] = g[N] BY <1>6
<1> QED BY <1>1, <1>2, <1>3, <1>4, <1>5, <1>7

-----------------------------------------------------------------------------
(* Sizes of communal symbols and COMDATs                                    *)

RoomIn(s, n) == Total([i \in DOMAIN s |-> IF s[i].of = n /\ ~s[i].dead THEN s[i].length ELSE 0])

RoomOf(t, s, n) ==
  /\ t \in Seq(Nat) /\ Len(t) = Len(s) /\ RoomIn(s, n) = Total(t)
  /\ \A i \in 1 .. Len(s) : t[i] = IF s[i].of = n /\ ~s[i].dead THEN s[i].length ELSE 0

LEMMA RoomSeq == ASSUME NEW s \in Seq(Segment), NEW n PROVE \E t : RoomOf(t, s, n)
<1>1. PICK N \in Nat : N = Len(s) /\ DOMAIN s = 1 .. N OBVIOUS
<1> DEFINE l(i) == IF s[i].of = n /\ ~s[i].dead THEN s[i].length ELSE 0
           t == [i \in DOMAIN s |-> IF s[i].of = n /\ ~s[i].dead THEN s[i].length ELSE 0]
<1>2. ASSUME NEW i \in 1 .. N PROVE l(i) \in Nat
  <2>1. s[i] \in Segment BY <1>1
  <2>2. s[i].length \in Nat BY <2>1 DEF Segment
  <2> QED BY <2>2
<1>3. t = [i \in 1 .. N |-> l(i)] BY <1>1
<1>4. RoomIn(s, n) = Total(t) BY DEF RoomIn
<1>5. \A i \in 1 .. N : t[i] = l(i) BY <1>3
<1>6. t \in Seq(Nat) /\ Len(t) = N
  <2> HIDE DEF l, t
  <2> QED BY <1>2, <1>3
<1>7. \A i \in 1 .. N : t[i] = IF s[i].of = n /\ ~s[i].dead THEN s[i].length ELSE 0 BY <1>5
<1> HIDE DEF l, t
<1> QED BY <1>1, <1>4, <1>6, <1>7 DEF RoomOf

LEMMA RoomMore ==
  ASSUME NEW s \in Seq(Segment), NEW r \in Seq(Segment), NEW n, Len(s) <= Len(r),
         \A i \in 1 .. Len(s) : s[i].of = n /\ ~s[i].dead => r[i].of = n /\ ~r[i].dead /\ s[i].length <= r[i].length
  PROVE  RoomIn(s, n) <= RoomIn(r, n)
<1>0. PICK t : RoomOf(t, s, n) BY RoomSeq
<1>7. PICK u : RoomOf(u, r, n) BY RoomSeq
<1>1. /\ t \in Seq(Nat) /\ Len(t) = Len(s) /\ RoomIn(s, n) = Total(t)
      /\ \A i \in 1 .. Len(s) : t[i] = IF s[i].of = n /\ ~s[i].dead THEN s[i].length ELSE 0
  BY <1>0 DEF RoomOf
<1>2. /\ u \in Seq(Nat) /\ Len(u) = Len(r) /\ RoomIn(r, n) = Total(u)
      /\ \A i \in 1 .. Len(r) : u[i] = IF r[i].of = n /\ ~r[i].dead THEN r[i].length ELSE 0
  BY <1>7 DEF RoomOf
<1>3. PICK M, N \in Nat : M = Len(s) /\ N = Len(r) /\ M <= N OBVIOUS
<1>4. ASSUME NEW i \in 1 .. M PROVE t[i] <= u[i]
  <2>1. i \in 1 .. N /\ i \in 1 .. Len(r) /\ i \in 1 .. Len(s) /\ i \in 1 .. Len(u) BY <1>2, <1>3
  <2>2. u[i] \in Nat BY <1>2, <2>1
  <2>3. CASE s[i].of = n /\ ~s[i].dead
    <3>1. t[i] = s[i].length /\ u[i] = r[i].length BY <1>1, <1>2, <2>1, <2>3
    <3> QED BY <2>1, <2>3, <3>1
  <2>4. CASE ~(s[i].of = n /\ ~s[i].dead)
    <3>1. t[i] = 0 BY <1>1, <2>1, <2>4
    <3> QED BY <2>2, <3>1
  <2> QED BY <2>3, <2>4
<1>5. Len(t) <= Len(u) /\ \A i \in 1 .. Len(t) : t[i] <= u[i] BY <1>1, <1>2, <1>3, <1>4
<1>6. Total(t) <= Total(u)
  <2>1. t \in Seq(Nat) /\ u \in Seq(Nat) BY <1>1, <1>2
  <2> QED BY <1>5, <2>1, TotalMore
<1> QED BY <1>1, <1>2, <1>6

LEMMA RoomHas ==
  ASSUME NEW s \in Seq(Segment), NEW n, NEW i \in 1 .. Len(s), s[i].of = n, ~s[i].dead
  PROVE  s[i].length <= RoomIn(s, n) /\ RoomIn(s, n) \in Nat
<1>0. PICK t : RoomOf(t, s, n) BY RoomSeq
<1>1. /\ t \in Seq(Nat) /\ Len(t) = Len(s) /\ RoomIn(s, n) = Total(t)
      /\ \A k \in 1 .. Len(s) : t[k] = IF s[k].of = n /\ ~s[k].dead THEN s[k].length ELSE 0
  BY <1>0 DEF RoomOf
<1>2. t[i] = s[i].length /\ i \in 1 .. Len(t) BY <1>1
<1>3. t[i] <= Total(t) /\ Total(t) \in Nat
  <2>1. t \in Seq(Nat) /\ i \in 1 .. Len(t) BY <1>1, <1>2
  <2> QED BY <2>1, TotalHas
<1> QED BY <1>1, <1>2, <1>3

LEMMA SumsSteps ==
  ASSUME NEW s \in Seq(Nat), NEW f, Sums(f, s), NEW b \in Nat, NEW L \in Nat, NEW P \in Nat, L + P <= Len(s),
         \A i \in 1 .. P : s[L + i] = b
  PROVE  f[L + P] >= P * b
<1>1. PICK N \in Nat : N = Len(s) OBVIOUS
<1> DEFINE Bad == {k \in Nat : k <= P /\ ~(f[L + k] >= k * b)}
<1>2. \A k \in 0 .. P : f[L + k] \in Nat
  <2>1. \A k \in 0 .. P : L + k \in 0 .. N BY <1>1
  <2> QED BY <1>1, <2>1 DEF Sums
<1>3. Bad = {}
  <2> SUFFICES ASSUME Bad # {} PROVE FALSE
    OBVIOUS
  <2>1. Bad \in SUBSET Nat OBVIOUS
  <2>2. PICK k \in Bad : \A m \in Bad : k <= m
    <3> HIDE DEF Bad
    <3> QED BY <2>1, Least
  <2>3. k # 0
    <3>1. 0 * b = 0 /\ 0 \in 0 .. P OBVIOUS
    <3>2. f[L + 0] \in Nat BY <1>2, <3>1
    <3>3. 0 \notin Bad BY <3>1, <3>2
    <3> QED BY <2>2, <3>3
  <2>4. PICK j \in Nat : k = j + 1 /\ j \in 0 .. P /\ k \in 0 .. P /\ k \in 1 .. P
    <3>1. k \in Nat /\ k <= P BY <2>2
    <3>2. k - 1 \in Nat /\ k = (k - 1) + 1 /\ k - 1 \in 0 .. P /\ k \in 0 .. P /\ k \in 1 .. P BY <2>3, <3>1
    <3> QED BY <3>2
  <2>5. f[L + j] >= j * b
    <3>1. j \notin Bad BY <2>2, <2>4
    <3> QED BY <2>4, <3>1
  <2>6. f[L + k] = f[L + j] + b
    <3>1. L + k \in 1 .. N /\ (L + k) - 1 = L + j BY <1>1, <2>4
    <3>2. f[L + k] = f[(L + k) - 1] + s[L + k] BY <1>1, <3>1 DEF Sums
    <3>3. s[L + k] = b BY <2>4
    <3> QED BY <3>1, <3>2, <3>3
  <2>7. k * b = j * b + b /\ j * b \in Nat BY <2>4
  <2>8. PICK a, c \in Nat : a = f[L + j] /\ c = j * b BY <1>2, <2>4, <2>7
  <2>9. a >= c /\ f[L + k] = a + b /\ k * b = c + b BY <2>5, <2>6, <2>7, <2>8
  <2>10. a + b >= c + b BY <2>9
  <2>11. f[L + k] >= k * b BY <2>9, <2>10
  <2> QED BY <2>2, <2>11
<1>4. ASSUME ~(f[L + P] >= P * b) PROVE FALSE
  <2>1. P \in Bad BY <1>4
  <2> QED BY <1>3, <2>1
<1> QED BY <1>4

\* What a far communal symbol has in segments of one size and a last one.
LEMMA RoomParts ==
  ASSUME NEW s \in Seq(Segment), NEW n, NEW b \in Nat, NEW c \in Nat, NEW L \in Nat, NEW P \in Nat, Len(s) = L + P + 1,
         \A i \in 1 .. P + 1 : s[L + i].of = n /\ ~s[L + i].dead /\ s[L + i].length = IF i > P THEN c ELSE b
  PROVE  RoomIn(s, n) >= P * b + c
<1>0. PICK t : RoomOf(t, s, n) BY RoomSeq
<1>1. /\ t \in Seq(Nat) /\ Len(t) = Len(s) /\ RoomIn(s, n) = Total(t)
      /\ \A k \in 1 .. Len(s) : t[k] = IF s[k].of = n /\ ~s[k].dead THEN s[k].length ELSE 0
  BY <1>0 DEF RoomOf
<1>10. t \in Seq(Nat) BY <1>1
<1>2. PICK f : Sums(f, t) /\ Total(t) = f[Len(t)] BY <1>10, TotalIs
<1>3. PICK N \in Nat : N = L + P + 1 /\ N = Len(s) /\ N = Len(t) BY <1>1
<1>4. \A i \in 1 .. P + 1 : L + i \in 1 .. N BY <1>3
<1>5. ASSUME NEW i \in 1 .. P PROVE t[L + i] = b
  <2>1. i \in 1 .. P + 1 /\ ~(i > P) OBVIOUS
  <2>2. s[L + i].of = n /\ ~s[L + i].dead /\ s[L + i].length = b BY <2>1
  <2>3. L + i \in 1 .. Len(s) BY <1>3, <1>4, <2>1
  <2> QED BY <1>1, <2>2, <2>3
<1>6. t[N] = c
  <2>1. P + 1 \in 1 .. P + 1 /\ P + 1 > P /\ L + (P + 1) = N BY <1>3
  <2>2. s[N].of = n /\ ~s[N].dead /\ s[N].length = c BY <2>1
  <2>3. N \in 1 .. Len(s) BY <1>3
  <2> QED BY <1>1, <2>2, <2>3
<1>7. f[L + P] >= P * b
  <2>1. L + P <= Len(t) BY <1>3
  <2>2. Sums(f, t) BY <1>2
  <2> QED BY <1>10, <1>5, <2>1, <2>2, SumsSteps
<1>8. f[N] = f[L + P] + c /\ f[L + P] \in Nat
  <2>1. N \in 1 .. Len(t) /\ N - 1 = L + P /\ L + P \in 0 .. Len(t) BY <1>3
  <2>2. f[N] = f[N - 1] + t[N] /\ f[L + P] \in Nat BY <1>2, <2>1 DEF Sums
  <2> QED BY <1>6, <2>1, <2>2
<1>9. P * b \in Nat OBVIOUS
<1> QED BY <1>1, <1>2, <1>3, <1>7, <1>8, <1>9

LEMMA RoomNat == ASSUME NEW s \in Seq(Segment), NEW n PROVE RoomIn(s, n) \in Nat
<1>0. PICK t : RoomOf(t, s, n) BY RoomSeq
<1>1. t \in Seq(Nat) /\ RoomIn(s, n) = Total(t) BY <1>0 DEF RoomOf
<1>2. PICK f : Sums(f, t) /\ Total(t) = f[Len(t)] BY <1>1, TotalIs
<1>3. Len(t) \in 0 .. Len(t) OBVIOUS
<1> QED BY <1>1, <1>2, <1>3 DEF Sums

-----------------------------------------------------------------------------
(* What becomes of the name of a record, and of others                      *)

InfoFine(n) ==
  /\ infos[n].seg # 0 <=> sym[n].kind = "comdat" /\ sym[n].mod = mod
  /\ infos[n].seg # 0 => infos[n].seg = sym[n].seg
  /\ infos[n].pieces # << >> => Taken(n)
Whole(n, c) ==
  /\ c.of = n /\ c.mod = sym[n].mod /\ segs[sym[n].seg].length = c.size
  /\ c.mod < mod => Total(segs[sym[n].seg].data) = c.size
  /\ c.mod = mod => Total(infos[n].pieces) = c.size
DataFine(n) == sym[n].kind = "comdat" => \E c \in came : Whole(n, c)
FirstFine(n) == Communal(n) => ~segs[sym[n].seg].rest
RoomFine(n) == sym[n].kind = "communal" => \A c \in Said(n, "communal") : RoomIn(segs, n) >= c.size
NameFine(n) == InfoFine(n) /\ DataFine(n) /\ FirstFine(n) /\ RoomFine(n)
PlacesFine == (delta = << >> /\ size = << >>) \/ (~Reading /\ PiecesApart)
CdatInv == Inv /\ (\A n \in Names : NameFine(n)) /\ PlacesFine

\* Nothing a module declares is declared by it before.
LEMMA Undeclared ==
  ASSUME Inv, NEW n \in Names, NEW kind, NEW s, Declare(n, kind, s), sym[n].kind # "undefined"
  PROVE  sym[n].mod # mod
<1>1. PICK c \in Said(n, Means(n)) : c.mod = sym[n].mod BY DEF Inv, OneDefinition
<1>2. c \in came /\ c.of = n BY <1>1 DEF Said
<1>3. <<c.of, c.mod>> # <<n, mod>> BY <1>2 DEF Declare
<1> QED BY <1>1, <1>2, <1>3

\* The segment of a communal symbol or a COMDAT.
LEMMA OwnSegment ==
  ASSUME Inv, NEW n \in Names, Communal(n)
  PROVE  sym[n].seg \in 1 .. Len(segs) /\ segs[sym[n].seg].of = n
BY DEF Inv, SymbolFine

LEMMA TypesOf ==
  ASSUME LegalRecords, Inv
  PROVE  /\ segs \in Seq(Segment) /\ mod \in Nat /\ Len(segs) \in Nat
         /\ \A n \in Names : sym[n] \in Symbol /\ sym[n].mod \in Nat /\ sym[n].kind \in Kinds /\ infos[n].seg \in 0 .. Len(segs) /\ infos[n].pieces \in Seq(Nat)
         /\ \A c \in came : c \in Declaration /\ c.of \in Names /\ c.mod \in Nat /\ c.size \in Nat
<1>1. segs \in Seq(Segment) /\ mod \in Nat /\ Len(segs) \in Nat BY Limits DEF Inv, TypeOK
<1>2. ASSUME NEW n \in Names
      PROVE  sym[n] \in Symbol /\ sym[n].mod \in Nat /\ sym[n].kind \in Kinds /\ infos[n].seg \in 0 .. Len(segs) /\ infos[n].pieces \in Seq(Nat)
  <2>1. sym[n] \in Symbol /\ infos[n] \in [seg : 0 .. Len(segs), pieces : Seq(Nat)] BY DEF Inv, TypeOK
  <2>2. sym[n].mod \in Nat /\ sym[n].kind \in Kinds BY <2>1, Limits DEF Symbol
  <2> QED BY <2>1, <2>2
<1>3. ASSUME NEW c \in came PROVE c \in Declaration /\ c.of \in Names /\ c.mod \in Nat /\ c.size \in Nat
  <2>1. c \in Declaration BY DEF Inv, TypeOK
  <2> QED BY <2>1, Limits DEF Declaration
<1> QED BY <1>1, <1>2, <1>3

\* A step that leaves a name, its declarations and its segments alone.
LEMMA OtherName ==
  ASSUME LegalRecords, Inv, Inv', NEW k \in Names, NameFine(k), mod' = mod, sym'[k] = sym[k], infos'[k] = infos[k],
         \A c \in came : c.of = k => c \in came',
         \A c \in came' : c.of = k /\ c.kind = "communal" => c \in came,
         Len(segs) <= Len(segs'), \A i \in 1 .. Len(segs) : segs[i].of = k => segs'[i] = segs[i]
  PROVE  NameFine(k)'
<1>1. InfoFine(k)' BY DEF NameFine, InfoFine, Taken
<1>2. Communal(k) => sym[k].seg \in 1 .. Len(segs) /\ segs'[sym[k].seg] = segs[sym[k].seg] BY OwnSegment
<1>3. DataFine(k)'
  <2> SUFFICES ASSUME sym'[k].kind = "comdat" PROVE \E c \in came' : Whole(k, c)'
    BY DEF DataFine
  <2>1. Communal(k) /\ sym[k].kind = "comdat" BY DEF Communal
  <2>2. PICK c \in came : Whole(k, c) BY <2>1 DEF NameFine, DataFine
  <2>3. c \in came' BY <2>2 DEF Whole
  <2>4. Whole(k, c)' BY <1>2, <2>1, <2>2 DEF Whole
  <2> QED BY <2>3, <2>4
<1>4. FirstFine(k)' BY <1>2 DEF NameFine, FirstFine, Communal
<1>5. RoomFine(k)'
  <2> SUFFICES ASSUME sym'[k].kind = "communal", NEW c \in Said(k, "communal")' PROVE RoomIn(segs', k) >= c.size
    BY DEF RoomFine
  <2>1. c \in came /\ c \in Said(k, "communal") BY DEF Said
  <2>2. RoomIn(segs, k) >= c.size BY <2>1 DEF NameFine, RoomFine
  <2>3. segs \in Seq(Segment) /\ segs' \in Seq(Segment) BY DEF Inv, TypeOK
  <2>4. RoomIn(segs, k) <= RoomIn(segs', k)
    <3>1. \A i \in 1 .. Len(segs) : segs[i].of = k /\ ~segs[i].dead => segs'[i].of = k /\ ~segs'[i].dead /\ segs[i].length <= segs'[i].length
      <4>1. \A i \in 1 .. Len(segs) : segs[i].length \in Nat
        <5>1. \A i \in 1 .. Len(segs) : segs[i] \in Segment BY <2>3
        <5> QED BY <5>1 DEF Segment
      <4> QED BY <4>1
    <3> QED BY <2>3, <3>1, RoomMore
  <2>5. RoomIn(segs, k) \in Nat /\ RoomIn(segs', k) \in Nat BY <2>3, RoomNat
  <2>6. c.size \in Nat BY <2>1, TypesOf
  <2> QED BY <2>2, <2>4, <2>5, <2>6
<1> QED BY <1>1, <1>3, <1>4, <1>5 DEF NameFine

\* Of what a record declares, only its own name gets something new.
LEMMA OthersSaid ==
  ASSUME NEW n, NEW kind, NEW s, Declare(n, kind, s)
  PROVE  /\ came \subseteq came' /\ \A c \in came' : c.of # n => c \in came
         /\ \E c \in came' : c.of = n /\ c.kind = kind /\ c.mod = mod /\ c.size = s /\ came' = came \cup {c}
<1> DEFINE c == [of |-> n, kind |-> kind, mod |-> mod, size |-> s]
<1>1. came' = came \cup {c} BY DEF Declare
<1>2. c.of = n /\ c.kind = kind /\ c.mod = mod /\ c.size = s OBVIOUS
<1> HIDE DEF c
<1> QED BY <1>1, <1>2

LEMMA ReplacedSame ==
  ASSUME LegalRecords, Inv, NEW n \in Names
  PROVE  \A i \in 1 .. Len(segs) : segs[i].of # n => Replaced(n)[i] = segs[i]
<1>1. CASE ~Communal(n) BY <1>1 DEF Replaced
<1>2. CASE Communal(n)
  <2>1. sym[n].seg \in 1 .. Len(segs) /\ segs[sym[n].seg].of = n BY <1>2, OwnSegment
  <2>2. segs \in Seq(Segment) BY DEF Inv, TypeOK
  <2>3. Replaced(n) = [segs EXCEPT ![sym[n].seg] = [segs[sym[n].seg] EXCEPT !.dead = TRUE]] BY <1>2 DEF Replaced
  <2> QED BY <2>1, <2>2, <2>3
<1> QED BY <1>1, <1>2

-----------------------------------------------------------------------------
(* Steps, and the sizes and data of what they define                        *)

LEMMA PubDefFine ==
  ASSUME LegalRecords, Inv, Inv', \A k \in Names : NameFine(k), NEW n \in Names, PubDef(n)
  PROVE  \A k \in Names : NameFine(k)'
<1>1. /\ Declare(n, "public", 0) /\ mod' = mod /\ infos' = infos /\ segs \in Seq(Segment)
      /\ segs' = segs \/ segs' = Replaced(n)
      /\ \A k \in Names \ {n} : sym'[k] = sym[k]
  BY DEF PubDef, Become, Inv, TypeOK
<1>2. Len(segs') = Len(segs) /\ \A i \in 1 .. Len(segs) : segs[i].of # n => segs'[i] = segs[i]
  <2>1. CASE segs' = segs BY <2>1
  <2>2. CASE segs' = Replaced(n) BY <2>2, SegmentsReplaced, ReplacedSame
  <2> QED BY <1>1, <2>1, <2>2
<1>3. ASSUME NEW k \in Names \ {n} PROVE NameFine(k)'
  <2>1. \A c \in came : c.of = k => c \in came' BY <1>1, OthersSaid
  <2>2. \A c \in came' : c.of = k /\ c.kind = "communal" => c \in came BY <1>1, OthersSaid
  <2>3. Len(segs) <= Len(segs') /\ \A i \in 1 .. Len(segs) : segs[i].of = k => segs'[i] = segs[i] BY <1>1, <1>2
  <2> QED BY <1>1, <2>1, <2>2, <2>3, OtherName
<1>4. sym'[n].kind = "public"
  <2>1. CASE sym[n].kind = "public" BY <2>1 DEF PubDef
  <2>2. CASE sym[n].kind # "public" BY <2>2 DEF PubDef, Become, Inv, TypeOK
  <2> QED BY <2>1, <2>2
<1>5. infos[n].seg = 0
  <2>1. InfoFine(n) BY DEF NameFine
  <2> SUFFICES ASSUME infos[n].seg # 0 PROVE FALSE
    OBVIOUS
  <2>2. sym[n].kind = "comdat" /\ sym[n].mod = mod BY <2>1 DEF InfoFine
  <2> QED BY <1>1, <2>2, Undeclared
<1>6. InfoFine(n)' BY <1>1, <1>4, <1>5 DEF InfoFine, Taken
<1>7. NameFine(n)' BY <1>4, <1>6 DEF NameFine, DataFine, FirstFine, RoomFine, Communal
<1> QED BY <1>3, <1>7

LEMMA FarParts ==
  ASSUME LegalRecords, NEW n \in Names, NEW s \in Nat
  PROVE  /\ Parts(s) \in Nat /\ s % MaxSegment \in Nat /\ s = Parts(s) * MaxSegment + (s % MaxSegment)
         /\ DOMAIN Far(n, s) = 1 .. Parts(s) + 1
         /\ \A i \in 1 .. Parts(s) + 1 : /\ Far(n, s)[i].of = n /\ ~Far(n, s)[i].dead
                                         /\ Far(n, s)[i].length = IF i > Parts(s) THEN s % MaxSegment ELSE MaxSegment
<1>1. PICK b \in Nat \ {0} : b = MaxSegment BY Limits
<1>2. s \div b \in Nat /\ s % b \in Nat /\ s = b * (s \div b) + (s % b)
  <2>1. s \div b \in Nat /\ s % b \in Nat OBVIOUS
  <2>2. s = b * (s \div b) + (s % b) OBVIOUS
  <2> QED BY <2>1, <2>2
<1>3. b * (s \div b) = (s \div b) * b BY <1>2
<1> DEFINE l(i) == IF i > Parts(s) THEN s % MaxSegment ELSE MaxSegment
           e == Far(n, s)
<1>4. ASSUME NEW i \in 1 .. Parts(s) + 1
      PROVE e[i] = [of |-> n, length |-> l(i), align |-> 0, leader |-> <<"far", Len(segs) + i>>,
                     rest |-> i > 1, dead |-> FALSE, data |-> << >>]
  BY DEF Far, Segdata
<1>5. ASSUME NEW i \in 1 .. Parts(s) + 1 PROVE e[i].of = n /\ ~e[i].dead /\ e[i].length = l(i)
  <2>1. e[i] = [of |-> n, length |-> l(i), align |-> 0, leader |-> <<"far", Len(segs) + i>>,
                     rest |-> i > 1, dead |-> FALSE, data |-> << >>] BY <1>4
  <2> HIDE DEF e, l
  <2> QED BY <2>1
<1>6. DOMAIN e = 1 .. Parts(s) + 1 BY DEF Far
<1>7. \A i \in 1 .. Parts(s) + 1 : e[i].of = n /\ ~e[i].dead /\ e[i].length = l(i)
  <2> HIDE DEF e, l
  <2> QED BY <1>5
<1> QED BY <1>1, <1>2, <1>3, <1>6, <1>7 DEF Parts

LEMMA ComDefOld ==
  ASSUME LegalRecords, Inv, Inv', \A k \in Names : NameFine(k), NEW n \in Names, NEW s \in Nat, NEW far \in BOOLEAN,
         ComDef(n, s, far), sym[n].kind # "undefined"
  PROVE  \A k \in Names : NameFine(k)'
<1>1. /\ Declare(n, "communal", s) /\ mod' = mod /\ infos' = infos /\ sym' = sym /\ segs \in Seq(Segment)
      /\ segs' = Grow(n, s) /\ segs' \in Seq(Segment)
  BY DEF ComDef, Inv, TypeOK
<1> DEFINE j == sym[n].seg
<1>2. Communal(n) => j \in 1 .. Len(segs) /\ segs[j].of = n /\ segs[j] \in Segment BY <1>1, OwnSegment
<1>3. /\ Len(segs') = Len(segs)
      /\ \A i \in 1 .. Len(segs) : i # j => segs'[i] = segs[i]
      /\ sym[n].kind # "communal" => segs' = segs
      /\ sym[n].kind = "communal" => /\ j \in 1 .. Len(segs) /\ segs'[j].of = n /\ segs'[j].rest = segs[j].rest /\ segs'[j].dead = segs[j].dead
                                     /\ segs'[j].length >= s /\ segs'[j].length >= segs[j].length
  <2>1. CASE sym[n].kind = "communal" /\ segs[j].length < s
    <3>1. segs' = [segs EXCEPT ![j] = [segs[j] EXCEPT !.length = s]] BY <1>1, <2>1 DEF Grow
    <3>2. j \in 1 .. Len(segs) /\ segs[j].of = n /\ segs[j] \in Segment BY <1>2, <2>1 DEF Communal
    <3>3. Len(segs') = Len(segs) /\ \A i \in 1 .. Len(segs) : i # j => segs'[i] = segs[i] BY <1>1, <3>1, <3>2
    <3>4. segs'[j] = [segs[j] EXCEPT !.length = s] BY <1>1, <3>1, <3>2
    <3>5. segs[j].length \in Nat BY <3>2 DEF Segment
    <3>6. segs'[j].of = segs[j].of /\ segs'[j].rest = segs[j].rest /\ segs'[j].dead = segs[j].dead /\ segs'[j].length = s BY <3>2, <3>4 DEF Segment
    <3> QED BY <2>1, <3>2, <3>3, <3>5, <3>6
  <2>2. CASE ~(sym[n].kind = "communal" /\ segs[j].length < s)
    <3>1. segs' = segs BY <1>1, <2>2 DEF Grow
    <3>2. sym[n].kind = "communal" => segs[j].length >= s /\ segs[j].length \in Nat BY <1>2, <2>2 DEF Communal, Segment
    <3> QED BY <1>2, <3>1, <3>2 DEF Communal
  <2> QED BY <2>1, <2>2
<1> HIDE DEF j
<1>4. ASSUME NEW k \in Names \ {n} PROVE NameFine(k)'
  <2>1. \A c \in came : c.of = k => c \in came' BY <1>1, OthersSaid
  <2>2. \A c \in came' : c.of = k /\ c.kind = "communal" => c \in came BY <1>1, OthersSaid
  <2>3. Len(segs) <= Len(segs') /\ \A i \in 1 .. Len(segs) : segs[i].of = k => segs'[i] = segs[i] BY <1>1, <1>2, <1>3 DEF Communal
  <2>4. sym'[k] = sym[k] /\ infos'[k] = infos[k] /\ NameFine(k) BY <1>1
  <2> QED BY <1>1, <2>1, <2>2, <2>3, <2>4, OtherName
<1>5. InfoFine(n)' BY <1>1 DEF NameFine, InfoFine, Taken
<1>6. DataFine(n)'
  <2> SUFFICES ASSUME sym'[n].kind = "comdat" PROVE \E c \in came' : Whole(n, c)'
    BY DEF DataFine
  <2>1. segs' = segs /\ sym[n].kind = "comdat" BY <1>1, <1>3
  <2>2. PICK c \in came : Whole(n, c) BY <2>1 DEF NameFine, DataFine
  <2>3. c \in came' BY <1>1, OthersSaid
  <2> QED BY <1>1, <2>1, <2>2, <2>3 DEF Whole
<1>7. FirstFine(n)'
  <2>1. CASE sym[n].kind = "communal" BY <1>1, <1>3, <2>1 DEF NameFine, FirstFine, Communal, j
  <2>2. CASE sym[n].kind # "communal" BY <1>1, <1>3, <2>2 DEF NameFine, FirstFine, Communal
  <2> QED BY <2>1, <2>2
<1>8. RoomFine(n)'
  <2> SUFFICES ASSUME sym'[n].kind = "communal", NEW c \in Said(n, "communal")' PROVE RoomIn(segs', n) >= c.size
    BY DEF RoomFine
  <2>1. /\ Len(segs') = Len(segs) /\ j \in 1 .. Len(segs) /\ segs'[j].of = n /\ segs'[j].rest = segs[j].rest /\ segs'[j].dead = segs[j].dead
        /\ segs'[j].length >= s /\ segs'[j].length >= segs[j].length /\ \A i \in 1 .. Len(segs) : i # j => segs'[i] = segs[i]
    BY <1>1, <1>3
  <2>2. sym[n].kind = "communal" /\ Communal(n) BY <1>1 DEF Communal
  <2>3. ~segs[j].dead
    <3>1. ~segs[j].rest BY <2>2 DEF NameFine, FirstFine, j
    <3>2. segs[j].of = n BY <1>2, <2>2
    <3>3. j \in DOMAIN segs BY <1>1, <2>1
    <3> QED BY <3>1, <3>2, <3>3 DEF Inv, OnlyDefinitionStays, j
  <2>4. segs'[j].length <= RoomIn(segs', n) /\ RoomIn(segs', n) \in Nat
    <3>1. j \in 1 .. Len(segs') /\ ~segs'[j].dead BY <2>1, <2>3
    <3> QED BY <1>1, <2>1, <3>1, RoomHas
  <2>5. RoomIn(segs, n) <= RoomIn(segs', n)
    <3>1. \A i \in 1 .. Len(segs) : segs[i] \in Segment /\ segs[i].length \in Nat
      <4>1. \A i \in 1 .. Len(segs) : segs[i] \in Segment BY <1>1
      <4> QED BY <4>1 DEF Segment
    <3>2. ASSUME NEW i \in 1 .. Len(segs), segs[i].of = n /\ ~segs[i].dead
          PROVE  segs'[i].of = n /\ ~segs'[i].dead /\ segs[i].length <= segs'[i].length
      <4>1. CASE i = j BY <2>1, <3>2, <4>1
      <4>2. CASE i # j BY <2>1, <3>1, <3>2, <4>2
      <4> QED BY <4>1, <4>2
    <3>3. Len(segs) <= Len(segs') BY <1>1, <2>1
    <3> QED BY <1>1, <3>2, <3>3, RoomMore
  <2>6. RoomIn(segs, n) \in Nat BY <1>1, RoomNat
  <2>7. CASE c \in came
    <3>1. c \in Said(n, "communal") BY <2>7 DEF Said
    <3>2. RoomIn(segs, n) >= c.size BY <2>2, <3>1 DEF NameFine, RoomFine
    <3>3. c.size \in Nat BY <2>7, TypesOf
    <3> QED BY <2>4, <2>5, <2>6, <3>2, <3>3
  <2>8. CASE c \notin came
    <3>1. c \in came' BY DEF Said
    <3>2. c.size = s BY <1>1, <2>8, <3>1, OthersSaid
    <3>3. segs'[j] \in Segment BY <1>1, <2>1
    <3>4. segs'[j].length \in Nat BY <3>3 DEF Segment
    <3> QED BY <2>1, <2>4, <3>2, <3>4
  <2> QED BY <2>7, <2>8
<1> QED BY <1>4, <1>5, <1>6, <1>7, <1>8 DEF NameFine

LEMMA ComDefNew ==
  ASSUME LegalRecords, Inv, Inv', \A k \in Names : NameFine(k), NEW n \in Names, NEW s \in Nat, NEW far \in BOOLEAN,
         ComDef(n, s, far), sym[n].kind = "undefined"
  PROVE  \A k \in Names : NameFine(k)'
<1> DEFINE x == Segdata(n, s, 2, <<"c_common">>)
           l == Len(segs)
<1>1. /\ Declare(n, "communal", s) /\ mod' = mod /\ infos' = infos /\ segs \in Seq(Segment) /\ l \in Nat
      /\ segs' = segs \o (IF far THEN Far(n, s) ELSE Near(n, s)) /\ segs' \in Seq(Segment)
      /\ sym'[n] = [kind |-> "communal", seg |-> l + 1, mod |-> mod] /\ \A k \in Names \ {n} : sym'[k] = sym[k]
  BY DEF ComDef, Become, Inv, TypeOK
<1>2. PICK e \in Seq(Segment) : e = (IF far THEN Far(n, s) ELSE Near(n, s)) /\ Len(e) > 0 /\ ~e[1].rest
  <2>1. CASE far
    <3>1. Far(n, s) \in Seq(Segment) /\ Far(n, s) # << >> /\ \A i \in 1 .. Len(Far(n, s)) : Far(n, s)[i].rest <=> i # 1 BY <1>1, FarFine, SMTT(20)
    <3>2. Len(Far(n, s)) > 0 /\ 1 \in 1 .. Len(Far(n, s)) BY <3>1
    <3> QED BY <2>1, <3>1, <3>2
  <2>2. CASE ~far
    <3>1. <<"c_common">> \in Leader BY DEF Leader
    <3>2. x \in Segment /\ ~x.rest BY <3>1 DEF Segdata, Segment
    <3>3. <<x>> \in Seq(Segment) /\ Len(<<x>>) = 1 /\ <<x>>[1] = x
      <4> HIDE DEF x
      <4> QED BY <3>2
    <3>4. Near(n, s) = <<x>> BY DEF Near
    <3> HIDE DEF x
    <3> QED BY <2>2, <3>2, <3>3, <3>4
  <2> QED BY <2>1, <2>2
<1>3. /\ Len(segs') = l + Len(e) /\ (\A i \in 1 .. l : segs'[i] = segs[i]) /\ \A i \in 1 .. Len(e) : segs'[l + i] = e[i]
  <2>1. PICK q \in Seq(Segment) : q = segs BY <1>1
  <2>2. PICK r : r = segs' /\ r = q \o e BY <1>1, <1>2, <2>1
  <2>3. /\ Len(r) = Len(q) + Len(e) /\ (\A i \in 1 .. Len(q) : r[i] = q[i]) /\ \A i \in 1 .. Len(e) : r[Len(q) + i] = e[i]
    BY ONLY <2>1, <2>2, e \in Seq(Segment)
  <2> QED BY <2>1, <2>2, <2>3
<1>4. Len(e) \in Nat /\ Len(segs) <= Len(segs') /\ 1 \in 1 .. Len(e) BY <1>1, <1>2, <1>3
<1>5. ASSUME NEW k \in Names \ {n} PROVE NameFine(k)'
  <2>1. \A c \in came : c.of = k => c \in came' BY <1>1, OthersSaid
  <2>2. \A c \in came' : c.of = k /\ c.kind = "communal" => c \in came BY <1>1, OthersSaid
  <2>3. Len(segs) <= Len(segs') /\ \A i \in 1 .. Len(segs) : segs[i].of = k => segs'[i] = segs[i] BY <1>3, <1>4
  <2>4. sym'[k] = sym[k] /\ infos'[k] = infos[k] /\ NameFine(k) BY <1>1
  <2> QED BY <1>1, <2>1, <2>2, <2>3, <2>4, OtherName
<1>6. InfoFine(n)'
  <2>1. InfoFine(n) BY DEF NameFine
  <2>2. infos[n].seg = 0 /\ infos[n].pieces = << >> BY <2>1 DEF InfoFine, Taken
  <2> QED BY <1>1, <2>2 DEF InfoFine
<1>7. DataFine(n)' BY <1>1 DEF DataFine
<1>8. FirstFine(n)'
  <2>1. sym'[n].seg = l + 1 /\ segs'[l + 1] = e[1] BY <1>1, <1>3, <1>4
  <2> QED BY <1>2, <2>1 DEF FirstFine
<1>9. RoomIn(segs', n) >= s
  <2>1. CASE far
    <3>1. /\ Parts(s) \in Nat /\ s % MaxSegment \in Nat /\ s = Parts(s) * MaxSegment + (s % MaxSegment)
          /\ DOMAIN Far(n, s) = 1 .. Parts(s) + 1
          /\ \A i \in 1 .. Parts(s) + 1 : /\ Far(n, s)[i].of = n /\ ~Far(n, s)[i].dead
                                          /\ Far(n, s)[i].length = IF i > Parts(s) THEN s % MaxSegment ELSE MaxSegment
      BY FarParts
    <3>2. PICK P, c \in Nat : P = Parts(s) /\ c = s % MaxSegment BY <3>1
    <3>3. PICK b \in Nat : b = MaxSegment BY Limits
    <3>4. e = Far(n, s) BY <1>2, <2>1
    <3>5. Len(e) = P + 1
      <4>1. DOMAIN e = 1 .. P + 1 BY <3>1, <3>2, <3>4
      <4>2. DOMAIN e = 1 .. Len(e) OBVIOUS
      <4>3. P + 1 \in 1 .. Len(e) /\ Len(e) \in 1 .. P + 1 BY <1>4, <4>1, <4>2, <3>2
      <4> QED BY <1>4, <4>3, <3>2
    <3>6. ASSUME NEW i \in 1 .. P + 1 PROVE segs'[l + i].of = n /\ ~segs'[l + i].dead /\ segs'[l + i].length = IF i > P THEN c ELSE b
      <4>1. segs'[l + i] = e[i] BY <1>3, <3>5
      <4>2. e[i].of = n /\ ~e[i].dead /\ e[i].length = IF i > P THEN c ELSE b BY <3>1, <3>2, <3>3, <3>4
      <4> QED BY <4>1, <4>2
    <3>7. Len(segs') = l + P + 1 BY <1>1, <1>3, <3>2, <3>5
    <3>8. PICK r \in Seq(Segment) : r = segs' BY <1>1
    <3>9. PICK L \in Nat : L = l BY <1>1
    <3>10. Len(r) = L + P + 1 /\ \A i \in 1 .. P + 1 : r[L + i].of = n /\ ~r[L + i].dead /\ r[L + i].length = IF i > P THEN c ELSE b
      BY <3>6, <3>7, <3>8, <3>9
    <3>11. RoomIn(r, n) >= P * b + c BY <3>10, RoomParts
    <3>12. s = P * b + c BY <3>1, <3>2, <3>3
    <3> QED BY <3>8, <3>11, <3>12
  <2>2. CASE ~far
    <3>1. e = <<x>> BY <1>2, <2>2 DEF Near
    <3>2. e[1] = x BY <3>1
    <3>3. x.of = n /\ ~x.dead /\ x.length = s BY DEF Segdata
    <3>4. segs'[l + 1] = e[1] /\ l + 1 \in 1 .. Len(segs') BY <1>1, <1>3, <1>4, SMTT(20)
    <3>5. segs'[l + 1].length <= RoomIn(segs', n) /\ RoomIn(segs', n) \in Nat
      <4>1. segs'[l + 1].of = n /\ ~segs'[l + 1].dead BY <3>2, <3>3, <3>4
      <4> HIDE DEF l
      <4> QED BY <1>1, <3>4, <4>1, RoomHas
    <3> QED BY <3>2, <3>3, <3>4, <3>5
  <2> QED BY <2>1, <2>2
<1>10. RoomFine(n)'
  <2>1. Said(n, "communal") = {} BY DEF Inv, OneDefinition, Means, Kinds
  <2>2. ASSUME NEW c \in Said(n, "communal")' PROVE c.size = s
    <3>1. c \in came' /\ c.of = n /\ c.kind = "communal" BY DEF Said
    <3>2. c \notin came BY <2>1, <3>1 DEF Said
    <3> QED BY <1>1, <3>1, <3>2, OthersSaid
  <2> QED BY <1>9, <2>2 DEF RoomFine
<1> QED BY <1>5, <1>6, <1>7, <1>8, <1>10 DEF NameFine

LEMMA ComDatFine ==
  ASSUME LegalRecords, Inv, Inv', \A k \in Names : NameFine(k), NEW n \in Names, NEW place, NEW align, NEW length \in Nat,
         ComDat(n, place, align, length)
  PROVE  \A k \in Names : NameFine(k)'
<1> DEFINE l == Len(segs)
<1>1. /\ Declare(n, "comdat", length) /\ mod' = mod /\ segs \in Seq(Segment) /\ l \in Nat /\ segs' \in Seq(Segment)
      /\ infos'[n] = [seg |-> IF Taken(n) THEN 0 ELSE l + 1, pieces |-> <<length>>] /\ \A k \in Names \ {n} : infos'[k] = infos[k]
  BY DEF ComDat, Inv, TypeOK
<1>2. \/ Taken(n) /\ sym' = sym /\ segs' = segs
      \/ /\ ~Taken(n) /\ sym'[n] = [kind |-> "comdat", seg |-> l + 1, mod |-> mod] /\ (\A k \in Names \ {n} : sym'[k] = sym[k])
         /\ \E leader : segs' = Replaced(n) \o << Segdata(n, length, align, leader) >>
  <2>1. CASE Taken(n) BY <2>1 DEF ComDat
  <2>2. CASE ~Taken(n)
    <3>1. AddToLinkerComdat(n, place, align, length) /\ Become(n, "comdat", l + 1) BY <2>2 DEF ComDat
    <3>2. sym'[n] = [kind |-> "comdat", seg |-> l + 1, mod |-> mod] /\ \A k \in Names \ {n} : sym'[k] = sym[k]
      BY <3>1 DEF Become, Inv, TypeOK
    <3>3. \E leader : segs' = Replaced(n) \o << Segdata(n, length, align, leader) >>
      BY <3>1 DEF AddToLinkerComdat
    <3> QED BY <2>2, <3>2, <3>3
  <2> QED BY <2>1, <2>2
<1>3. \A k \in Names \ {n} : sym'[k] = sym[k] BY <1>2
<1>4. /\ Len(segs) <= Len(segs') /\ \A i \in 1 .. l : segs[i].of # n => segs'[i] = segs[i]
      /\ ~Taken(n) => segs'[l + 1].length = length /\ ~segs'[l + 1].rest
  <2>1. CASE Taken(n) BY <1>1, <1>2, <2>1
  <2>2. CASE ~Taken(n)
    <3>1. PICK leader : segs' = Replaced(n) \o << Segdata(n, length, align, leader) >> BY <1>2, <2>2
    <3>2. PICK r \in Seq(Segment) : r = Replaced(n) /\ Len(r) = l /\ \A i \in 1 .. l : segs[i].of # n => r[i] = segs[i]
      BY SegmentsReplaced, ReplacedSame
    <3>3. PICK x : x = Segdata(n, length, align, leader) /\ x.length = length /\ ~x.rest
      <4>1. Segdata(n, length, align, leader).length = length /\ ~Segdata(n, length, align, leader).rest BY DEF Segdata
      <4> QED BY <4>1
    <3>4. segs' = r \o <<x>> BY <3>1, <3>2, <3>3
    <3>5. Len(segs') = l + 1 /\ (\A i \in 1 .. l : segs'[i] = r[i]) /\ segs'[l + 1] = x
      <4> HIDE DEF l
      <4> QED BY ONLY <3>2, <3>4, r \in Seq(Segment)
    <3> QED BY <1>1, <3>2, <3>3, <3>5
  <2> QED BY <2>1, <2>2
<1>5. ASSUME NEW k \in Names \ {n} PROVE NameFine(k)'
  <2>1. \A c \in came : c.of = k => c \in came' BY <1>1, OthersSaid
  <2>2. \A c \in came' : c.of = k /\ c.kind = "communal" => c \in came BY <1>1, OthersSaid
  <2>3. \A i \in 1 .. Len(segs) : segs[i].of = k => segs'[i] = segs[i] BY <1>4
  <2>4. sym'[k] = sym[k] /\ infos'[k] = infos[k] /\ NameFine(k) BY <1>1, <1>3
  <2> QED BY <1>1, <1>4, <2>1, <2>2, <2>3, <2>4, OtherName
<1>6. CASE Taken(n)
  <2>1. sym' = sym /\ segs' = segs BY <1>2, <1>6
  <2>2. sym[n].mod # mod BY <1>1, <1>6, Undeclared DEF Taken
  <2>3. InfoFine(n)' BY <1>1, <1>6, <2>1, <2>2 DEF InfoFine, Taken
  <2>4. DataFine(n)'
    <3> SUFFICES ASSUME sym'[n].kind = "comdat" PROVE \E c \in came' : Whole(n, c)'
      BY DEF DataFine
    <3>1. PICK c \in came : Whole(n, c) BY <2>1 DEF NameFine, DataFine
    <3>2. c \in came' BY <1>1, OthersSaid
    <3>3. Whole(n, c)' BY <1>1, <2>1, <2>2, <3>1 DEF Whole
    <3> QED BY <3>2, <3>3
  <2>5. FirstFine(n)' BY <2>1 DEF NameFine, FirstFine, Communal
  <2>6. RoomFine(n)' BY <1>6, <2>1 DEF RoomFine, Taken
  <2> QED BY <1>5, <2>3, <2>4, <2>5, <2>6 DEF NameFine
<1>7. CASE ~Taken(n)
  <2>1. sym'[n] = [kind |-> "comdat", seg |-> l + 1, mod |-> mod] /\ infos'[n] = [seg |-> l + 1, pieces |-> <<length>>]
    BY <1>1, <1>2, <1>7
  <2>2. sym'[n].kind = "comdat" /\ sym'[n].seg = l + 1 /\ sym'[n].mod = mod /\ infos'[n].seg = l + 1 /\ infos'[n].pieces = <<length>> BY <2>1
  <2>3. InfoFine(n)'
    <3>1. l + 1 # 0 BY <1>1
    <3> QED BY <1>1, <2>2, <3>1 DEF InfoFine, Taken
  <2>4. DataFine(n)'
    <3>1. PICK c \in came' : c.of = n /\ c.mod = mod /\ c.size = length BY <1>1, OthersSaid
    <3>2. Total(<<length>>) = length
      <4>1. PICK z \in Seq(Nat) : z = << >>
        <5>1. << >> \in Seq(Nat) OBVIOUS
        <5> QED BY <5>1
      <4>2. Total(z) = 0
        <5>1. PICK f : Sums(f, z) /\ Total(z) = f[Len(z)] BY TotalIs
        <5> QED BY <4>1, <5>1 DEF Sums
      <4>3. Append(z, length) = <<length>> BY <4>1
      <4>4. Total(Append(z, length)) = Total(z) + length BY TotalAppend
      <4> QED BY <4>2, <4>3, <4>4
    <3>3. ~(c.mod < mod')
      <4>1. mod \in Nat BY TypesOf
      <4> QED BY <1>1, <3>1, <4>1
    <3>4. Whole(n, c)' BY <1>1, <1>4, <1>7, <2>2, <3>1, <3>2, <3>3 DEF Whole
    <3> QED BY <3>1, <3>4 DEF DataFine
  <2>5. FirstFine(n)' BY <1>4, <1>7, <2>2 DEF FirstFine
  <2>6. RoomFine(n)' BY <2>2 DEF RoomFine
  <2> QED BY <1>5, <2>3, <2>4, <2>5, <2>6 DEF NameFine
<1> QED BY <1>6, <1>7

LEMMA ContinueFine ==
  ASSUME LegalRecords, Inv, Inv', \A k \in Names : NameFine(k), NEW n \in Names, NEW length \in Nat, Continue(n, length)
  PROVE  \A k \in Names : NameFine(k)'
<1> DEFINE j == infos[n].seg
           l(c) == IF <<c.of, c.mod>> = <<n, mod>> THEN [c EXCEPT !.size = c.size + length] ELSE c
<1>1. /\ mod' = mod /\ sym' = sym /\ segs \in Seq(Segment) /\ segs' \in Seq(Segment) /\ Len(infos[n].pieces) > 0
      /\ infos' = [infos EXCEPT ![n].pieces = Append(infos[n].pieces, length)]
      /\ came' = {l(c) : c \in came} /\ segs' = Longer(j, length)
      /\ infos \in [Names -> [seg : 0 .. Len(segs), pieces : Seq(Nat)]]
  BY DEF Continue, Continues, Inv, TypeOK
<1>2. /\ \A k \in Names \ {n} : infos'[k] = infos[k]
      /\ infos'[n].seg = j /\ infos'[n].pieces = Append(infos[n].pieces, length)
      /\ infos[n].pieces \in Seq(Nat) /\ infos[n].pieces # << >>
  <2>1. infos[n] \in [seg : 0 .. Len(segs), pieces : Seq(Nat)] BY <1>1
  <2> QED BY <1>1, <2>1
<1>3. ASSUME NEW c \in came
      PROVE  /\ l(c).of = c.of /\ l(c).mod = c.mod /\ l(c).kind = c.kind
             /\ <<c.of, c.mod>> = <<n, mod>> => l(c).size = c.size + length
             /\ <<c.of, c.mod>> # <<n, mod>> => l(c) = c
  <2>1. c \in Declaration BY TypesOf
  <2>2. CASE <<c.of, c.mod>> = <<n, mod>>
    <3>1. l(c) = [c EXCEPT !.size = c.size + length] BY <2>2
    <3> HIDE DEF l
    <3> QED BY <2>1, <2>2, <3>1 DEF Declaration
  <2>3. CASE <<c.of, c.mod>> # <<n, mod>> BY <2>3
  <2> QED BY <2>2, <2>3
<1> HIDE DEF l
<1>4. Taken(n) /\ InfoFine(n) BY <1>2 DEF NameFine, InfoFine
<1>5. j # 0 => /\ j \in 1 .. Len(segs) /\ j = sym[n].seg /\ sym[n].kind = "comdat" /\ sym[n].mod = mod /\ segs[j].of = n
               /\ segs[j] \in Segment
  <2> SUFFICES ASSUME j # 0 PROVE /\ j \in 1 .. Len(segs) /\ j = sym[n].seg /\ sym[n].kind = "comdat" /\ sym[n].mod = mod /\ segs[j].of = n
                                  /\ segs[j] \in Segment
    OBVIOUS
  <2>1. j = sym[n].seg /\ sym[n].kind = "comdat" /\ sym[n].mod = mod BY <1>4 DEF InfoFine
  <2>2. sym[n].seg \in 1 .. Len(segs) /\ segs[sym[n].seg].of = n BY <2>1, OwnSegment DEF Communal
  <2> HIDE DEF j
  <2> QED BY <1>1, <2>1, <2>2
<1> HIDE DEF j
<1>6. /\ Len(segs') = Len(segs) /\ \A i \in 1 .. Len(segs) : i # j => segs'[i] = segs[i]
      /\ j # 0 => segs'[j].length = segs[j].length + length /\ segs'[j].rest = segs[j].rest
  <2>1. CASE j = 0 BY <1>1, <2>1 DEF Longer
  <2>2. CASE j # 0
    <3>1. segs' = [segs EXCEPT ![j] = [segs[j] EXCEPT !.length = segs[j].length + length]] BY <1>1, <2>2 DEF Longer
    <3>2. Len(segs') = Len(segs) /\ \A i \in 1 .. Len(segs) : i # j => segs'[i] = segs[i] BY <1>1, <1>5, <2>2, <3>1
    <3>3. segs'[j] = [segs[j] EXCEPT !.length = segs[j].length + length] BY <1>1, <1>5, <2>2, <3>1
    <3>4. segs'[j].length = segs[j].length + length /\ segs'[j].rest = segs[j].rest BY <1>5, <2>2, <3>3 DEF Segment
    <3> QED BY <3>2, <3>4
  <2> QED BY <2>1, <2>2
<1>7. ASSUME NEW k \in Names \ {n} PROVE NameFine(k)'
  <2>1. \A c \in came : c.of = k => c \in came'
    <3> SUFFICES ASSUME NEW c \in came, c.of = k PROVE c \in came'
      OBVIOUS
    <3>1. l(c) = c BY <1>3
    <3> QED BY <1>1, <3>1
  <2>2. \A c \in came' : c.of = k /\ c.kind = "communal" => c \in came
    <3> SUFFICES ASSUME NEW d \in came', d.of = k PROVE d \in came
      OBVIOUS
    <3>1. PICK c \in came : d = l(c) BY <1>1
    <3>2. c.of = k BY <1>3, <3>1
    <3>3. l(c) = c BY <1>3, <3>2
    <3> QED BY <3>1, <3>3
  <2>3. Len(segs) <= Len(segs') /\ \A i \in 1 .. Len(segs) : segs[i].of = k => segs'[i] = segs[i]
    <3>1. Len(segs) <= Len(segs') BY <1>1, <1>6
    <3>2. ASSUME NEW i \in 1 .. Len(segs), segs[i].of = k PROVE i # j
      <4>1. i # 0 OBVIOUS
      <4> QED BY <1>5, <3>2, <4>1
    <3> QED BY <1>6, <3>1, <3>2
  <2>4. sym'[k] = sym[k] /\ infos'[k] = infos[k] /\ NameFine(k) BY <1>1, <1>2
  <2> QED BY <1>1, <2>1, <2>2, <2>3, <2>4, OtherName
<1>8. InfoFine(n)' BY <1>1, <1>2, <1>4 DEF InfoFine, Taken, j
<1>9. RoomFine(n)' BY <1>1, <1>4 DEF RoomFine, Taken
<1>10. Communal(n) => sym[n].seg \in 1 .. Len(segs) BY OwnSegment
<1>11. FirstFine(n)'
  <2> SUFFICES ASSUME Communal(n)' PROVE ~segs'[sym[n].seg].rest
    BY <1>1 DEF FirstFine
  <2>1. Communal(n) /\ ~segs[sym[n].seg].rest BY <1>1 DEF NameFine, FirstFine, Communal
  <2>2. CASE sym[n].seg = j
    <3>1. j # 0 BY <1>10, <2>1, <2>2
    <3> QED BY <1>6, <2>1, <2>2, <3>1
  <2>3. CASE sym[n].seg # j BY <1>6, <1>10, <2>1, <2>3
  <2> QED BY <2>2, <2>3
<1>12. DataFine(n)'
  <2> SUFFICES ASSUME sym'[n].kind = "comdat" PROVE \E c \in came' : Whole(n, c)'
    BY DEF DataFine
  <2>1. sym[n].kind = "comdat" /\ Communal(n) BY <1>1 DEF Communal
  <2>2. PICK c \in came : Whole(n, c) BY <2>1 DEF NameFine, DataFine
  <2>3. c.of = n /\ c.mod = sym[n].mod /\ c.size \in Nat /\ c.mod \in Nat /\ mod \in Nat BY <2>2, TypesOf DEF Whole
  <2>4. l(c) \in came' /\ l(c).of = c.of /\ l(c).mod = c.mod BY <1>1, <1>3
  <2>5. CASE sym[n].mod = mod
    <3>1. j # 0 /\ j = sym[n].seg BY <1>4, <2>1, <2>5 DEF InfoFine, j
    <3>2. <<c.of, c.mod>> = <<n, mod>> BY <2>3, <2>5
    <3>3. l(c).size = c.size + length BY <1>3, <3>2
    <3>4. segs'[sym[n].seg].length = c.size + length
      <4>1. segs[sym[n].seg].length = c.size BY <2>2 DEF Whole
      <4> QED BY <1>6, <3>1, <4>1
    <3>5. Total(infos'[n].pieces) = c.size + length
      <4>1. Total(infos[n].pieces) = c.size BY <2>2, <2>3, <2>5 DEF Whole
      <4>2. Total(Append(infos[n].pieces, length)) = Total(infos[n].pieces) + length BY <1>2, TotalAppend
      <4> QED BY <1>2, <4>1, <4>2
    <3>6. ~(l(c).mod < mod) BY <2>3, <2>4, <2>5
    <3>7. PICK d : d = l(c) OBVIOUS
    <3>8. Whole(n, d)' BY <1>1, <2>3, <2>4, <3>3, <3>4, <3>5, <3>6, <3>7 DEF Whole
    <3> QED BY <2>4, <3>7, <3>8
  <2>6. CASE sym[n].mod # mod
    <3>1. j = 0 BY <1>5, <2>6
    <3>2. l(c) = c BY <1>3, <2>3, <2>6
    <3>3. segs'[sym[n].seg] = segs[sym[n].seg] BY <1>6, <1>10, <2>1, <3>1
    <3>4. c.mod # mod BY <2>3, <2>6
    <3>5. Whole(n, c)' BY <1>1, <2>2, <3>3, <3>4 DEF Whole
    <3> QED BY <2>4, <3>2, <3>5
  <2> QED BY <2>5, <2>6
<1> QED BY <1>7, <1>8, <1>9, <1>11, <1>12 DEF NameFine

LEMMA ResolveFine ==
  ASSUME LegalRecords, Inv, Inv', \A k \in Names : NameFine(k), ResolveComdats
  PROVE  \A k \in Names : NameFine(k)'
<1>1. /\ mod' = mod + 1 /\ mod \in Nat /\ sym' = sym /\ came' = came /\ segs \in Seq(Segment) /\ segs' \in Seq(Segment)
      /\ Len(segs) \in Nat /\ segs' = [i \in DOMAIN segs |-> Stored(i)] /\ infos' = [m \in Names |-> NoInfo]
  BY TypesOf DEF ResolveComdats, Inv, TypeOK
<1>2. Len(segs') = Len(segs) /\ \A i \in 1 .. Len(segs) : segs'[i] = Stored(i) BY <1>1
<1>3. ASSUME NEW i \in 1 .. Len(segs)
      PROVE  /\ Stored(i).of = segs[i].of /\ Stored(i).rest = segs[i].rest /\ Stored(i).dead = segs[i].dead
             /\ Stored(i).length = segs[i].length /\ segs[i].length \in Nat
             /\ (~\E m \in Names : infos[m].seg = i) => Stored(i) = segs[i]
             /\ (\E m \in Names : infos[m].seg = i) => \E m \in Names : infos[m].seg = i /\ Stored(i).data = infos[m].pieces
  <2>1. segs[i] \in Segment BY <1>1
  <2>2. CASE \E m \in Names : infos[m].seg = i
    <3>1. PICK m \in Names : m = (CHOOSE n \in Names : infos[n].seg = i) /\ infos[m].seg = i BY <2>2
    <3>2. Stored(i) = [segs[i] EXCEPT !.data = infos[m].pieces] BY <2>2, <3>1 DEF Stored
    <3> QED BY <2>1, <2>2, <3>1, <3>2 DEF Segment
  <2>3. CASE ~\E m \in Names : infos[m].seg = i
    <3>1. Stored(i) = segs[i] BY <2>3 DEF Stored
    <3> QED BY <2>1, <2>3, <3>1 DEF Segment
  <2> QED BY <2>2, <2>3
<1>4. ASSUME NEW k \in Names PROVE InfoFine(k)'
  <2>1. infos'[k].seg = 0 /\ infos'[k].pieces = << >> BY <1>1 DEF NoInfo
  <2>2. sym[k].kind # "undefined" => sym[k].mod <= mod /\ sym[k].mod \in Nat BY TypesOf DEF Inv, SymbolFine
  <2>3. sym[k].kind = "comdat" => sym[k].mod # mod + 1 BY <1>1, <2>2
  <2> QED BY <1>1, <2>1, <2>3 DEF InfoFine
<1>5. ASSUME NEW k \in Names PROVE DataFine(k)'
  <2> SUFFICES ASSUME sym'[k].kind = "comdat" PROVE \E c \in came' : Whole(k, c)'
    BY DEF DataFine
  <2>1. sym[k].kind = "comdat" /\ Communal(k) BY <1>1 DEF Communal
  <2>2. PICK c \in came : Whole(k, c) BY <2>1 DEF NameFine, DataFine
  <2>3. c.of = k /\ c.mod = sym[k].mod /\ c.mod \in Nat BY <2>2, TypesOf DEF Whole
  <2>4. PICK i \in 1 .. Len(segs) : i = sym[k].seg /\ segs[i].of = k BY <2>1, OwnSegment
  <2>5. \A m \in Names : infos[m].seg = i => m = k
    <3> SUFFICES ASSUME NEW m \in Names, infos[m].seg = i PROVE m = k
      OBVIOUS
    <3>1. i # 0 OBVIOUS
    <3>2. sym[m].kind = "comdat" /\ sym[m].seg = i BY <3>1 DEF NameFine, InfoFine
    <3>3. segs[sym[m].seg].of = m BY <3>2, OwnSegment DEF Communal
    <3> QED BY <2>4, <3>2, <3>3
  <2>6. segs'[i].length = c.size /\ segs'[i] = Stored(i) BY <1>2, <1>3, <2>2, <2>4 DEF Whole
  <2>7. c.mod <= mod BY <2>3 DEF Inv, Read
  <2>8. Total(Stored(i).data) = c.size
    <3>1. CASE c.mod = mod
      <4>1. infos[k].seg = i
        <5>1. InfoFine(k) BY DEF NameFine
        <5>2. infos[k].seg # 0 BY <2>1, <2>3, <3>1, <5>1 DEF InfoFine
        <5> QED BY <2>4, <5>1, <5>2 DEF InfoFine
      <4>2. Stored(i).data = infos[k].pieces BY <1>3, <2>5, <4>1
      <4>3. Total(infos[k].pieces) = c.size BY <2>2, <3>1 DEF Whole
      <4> QED BY <4>2, <4>3
    <3>2. CASE c.mod # mod
      <4>1. c.mod < mod BY <1>1, <2>3, <2>7, <3>2
      <4>2. infos[k].seg # i
        <5>1. InfoFine(k) BY DEF NameFine
        <5>2. infos[k].seg = 0 BY <2>3, <3>2, <5>1 DEF InfoFine
        <5> QED BY <5>2
      <4>3. Stored(i) = segs[i] BY <1>3, <2>5, <4>2
      <4>4. Total(segs[i].data) = c.size BY <2>2, <2>4, <4>1 DEF Whole
      <4> QED BY <4>3, <4>4
    <3> QED BY <3>1, <3>2
  <2>9. c.mod # mod + 1 BY <1>1, <2>3, <2>7
  <2>10. Whole(k, c)' BY <1>1, <2>3, <2>4, <2>6, <2>8, <2>9 DEF Whole
  <2> QED BY <1>1, <2>2, <2>10
<1>6. ASSUME NEW k \in Names PROVE FirstFine(k)'
  <2> SUFFICES ASSUME Communal(k)' PROVE ~segs'[sym[k].seg].rest
    BY <1>1 DEF FirstFine
  <2>1. Communal(k) /\ ~segs[sym[k].seg].rest BY <1>1 DEF NameFine, FirstFine, Communal
  <2>2. sym[k].seg \in 1 .. Len(segs) BY <2>1, OwnSegment
  <2> QED BY <1>2, <1>3, <2>1, <2>2
<1>7. ASSUME NEW k \in Names PROVE RoomFine(k)'
  <2> SUFFICES ASSUME sym'[k].kind = "communal", NEW c \in Said(k, "communal")' PROVE RoomIn(segs', k) >= c.size
    BY DEF RoomFine
  <2>1. c \in Said(k, "communal") /\ c \in came /\ sym[k].kind = "communal" BY <1>1 DEF Said
  <2>2. RoomIn(segs, k) >= c.size BY <2>1 DEF NameFine, RoomFine
  <2>3. RoomIn(segs, k) <= RoomIn(segs', k)
    <3>1. Len(segs) <= Len(segs') BY <1>1, <1>2
    <3>2. \A i \in 1 .. Len(segs) : segs[i].of = k /\ ~segs[i].dead => segs'[i].of = k /\ ~segs'[i].dead /\ segs[i].length <= segs'[i].length
      BY <1>2, <1>3
    <3> QED BY <1>1, <3>1, <3>2, RoomMore
  <2>4. RoomIn(segs, k) \in Nat /\ RoomIn(segs', k) \in Nat BY <1>1, RoomNat
  <2>5. c.size \in Nat BY <2>1, TypesOf
  <2> QED BY <2>2, <2>3, <2>4, <2>5
<1> QED BY <1>4, <1>5, <1>6, <1>7 DEF NameFine

LEMMA SameFine ==
  ASSUME \A k \in Names : NameFine(k), UNCHANGED <<mod, sym, segs, infos, came>> PROVE \A k \in Names : NameFine(k)'
<1> SUFFICES ASSUME NEW k \in Names PROVE NameFine(k)'
  OBVIOUS
<1>1. NameFine(k) OBVIOUS
<1>2. InfoFine(k)' BY <1>1 DEF NameFine, InfoFine, Taken
<1>3. DataFine(k)'
  <2> SUFFICES ASSUME sym[k].kind = "comdat" PROVE \E c \in came' : Whole(k, c)'
    BY DEF DataFine
  <2>1. PICK c \in came : Whole(k, c) BY <1>1 DEF NameFine, DataFine
  <2>2. Whole(k, c)' BY <2>1 DEF Whole
  <2> QED BY <2>1, <2>2
<1>4. FirstFine(k)' BY <1>1 DEF NameFine, FirstFine, Communal
<1>5. RoomFine(k)' BY <1>1 DEF NameFine, RoomFine, Said
<1> QED BY <1>2, <1>3, <1>4, <1>5 DEF NameFine

LEMMA InitFine == ASSUME LegalRecords, Init PROVE \A k \in Names : NameFine(k)
BY DEF Init, NameFine, InfoFine, DataFine, FirstFine, RoomFine, Communal, NoInfo

-----------------------------------------------------------------------------
(* Where the segments of one name are                                       *)

\* An arithmetic fact the provers do not know.
PowersOfTwo == \A k \in Nat : 2 ^ k \in Nat \ {0}

Sizings == UNION {[D -> Nat] : D \in SUBSET Leader}
Sized == [size : Sizings, delta : Seq(Nat)]
NoSizes == [size |-> << >>, delta |-> << >>]
SizeIn(t, leader) == IF leader \in DOMAIN t.size THEN t.size[leader] ELSE 0
\* The first i segments have places on their own.
Placed(t, i) ==
  /\ Len(t.delta) = i
  /\ \A j \in 1 .. i : ~segs[j].dead =>
       /\ segs[j].leader \in DOMAIN t.size /\ t.delta[j] % 2 ^ segs[j].align = 0
       /\ t.delta[j] + segs[j].length <= t.size[segs[j].leader]
       /\ \A k \in 1 .. j - 1 : ~segs[k].dead /\ segs[k].leader = segs[j].leader => t.delta[k] + segs[k].length <= t.delta[j]

LEMMA AlignIs ==
  ASSUME PowersOfTwo, NEW off \in Nat, NEW align \in Nat
  PROVE  CAlign(off, align) \in Nat /\ CAlign(off, align) >= off /\ CAlign(off, align) % 2 ^ align = 0
<1>1. PICK b \in Nat \ {0} : b = 2 ^ align BY DEF PowersOfTwo
<1>2. PICK y \in Nat : y = off + b - 1 OBVIOUS
<1>3. y \div b \in Nat /\ y % b \in 0 .. b - 1 OBVIOUS
<1>4. y = b * (y \div b) + (y % b) OBVIOUS
<1>5. b * (y \div b) = (y \div b) * b BY <1>3
<1>6. PICK q \in Nat : q = y \div b BY <1>3
<1>7. PICK z \in Nat : z = q * b OBVIOUS
<1>8. z >= off BY <1>2, <1>3, <1>4, <1>5, <1>6, <1>7
<1>9. (q * b) % b = 0 OBVIOUS
<1>10. CAlign(off, align) = z BY <1>1, <1>2, <1>6, <1>7 DEF CAlign
<1> QED BY <1>1, <1>7, <1>8, <1>9, <1>10

LEMMA AddUpIs ==
  ASSUME PowersOfTwo, NEW t \in Sized, NEW s \in Segment
  PROVE  /\ AddUp(t, s) \in Sized
         /\ s.dead => AddUp(t, s).size = t.size /\ AddUp(t, s).delta = Append(t.delta, 0)
         /\ ~s.dead => \E x \in Nat :
              /\ x >= SizeIn(t, s.leader) /\ x % 2 ^ s.align = 0 /\ AddUp(t, s).delta = Append(t.delta, x)
              /\ DOMAIN AddUp(t, s).size = DOMAIN t.size \cup {s.leader} /\ AddUp(t, s).size[s.leader] = x + s.length
              /\ \A l \in DOMAIN t.size \ {s.leader} : AddUp(t, s).size[l] = t.size[l]
<1>1. s.leader \in Leader /\ s.length \in Nat /\ s.align \in Nat BY DEF Segment
<1>2. PICK D \in SUBSET Leader : t.size \in [D -> Nat] BY DEF Sized, Sizings
<1>3. t.delta \in Seq(Nat) BY DEF Sized
<1>4. SizeIn(t, s.leader) \in Nat BY <1>2 DEF SizeIn
<1>5. PICK x \in Nat : x = CAlign(SizeIn(t, s.leader), s.align) /\ x >= SizeIn(t, s.leader) /\ x % 2 ^ s.align = 0
  BY <1>1, <1>4, AlignIs
<1>6. t = [size |-> t.size, delta |-> t.delta] BY DEF Sized
<1>7. CASE s.dead
  <2>1. AddUp(t, s) = [t EXCEPT !.delta = Append(t.delta, 0)] BY <1>7 DEF AddUp
  <2>2. [t EXCEPT !.delta = Append(t.delta, 0)] = [size |-> t.size, delta |-> Append(t.delta, 0)] BY <1>6, SMTT(20)
  <2>3. AddUp(t, s) = [size |-> t.size, delta |-> Append(t.delta, 0)] BY <2>1, <2>2
  <2>4. Append(t.delta, 0) \in Seq(Nat) /\ t.size \in Sizings BY <1>3 DEF Sized
  <2> QED BY <1>7, <2>3, <2>4 DEF Sized
<1>8. CASE ~s.dead
  <2> DEFINE z == [l \in D \cup {s.leader} |-> IF l = s.leader THEN x + s.length ELSE t.size[l]]
  <2>1. DOMAIN t.size \cup {s.leader} = D \cup {s.leader} BY <1>2
  <2>2. AddUp(t, s) = [size |-> [l \in DOMAIN t.size \cup {s.leader} |-> IF l = s.leader THEN x + s.length ELSE t.size[l]],
                       delta |-> Append(t.delta, x)]
    BY <1>5, <1>8 DEF AddUp, SizeIn
  <2>3. AddUp(t, s) = [size |-> z, delta |-> Append(t.delta, x)] BY <2>1, <2>2
  <2>4. z \in [D \cup {s.leader} -> Nat] BY <1>1, <1>2
  <2>5. DOMAIN z = DOMAIN t.size \cup {s.leader} /\ z[s.leader] = x + s.length /\ \A l \in DOMAIN t.size \ {s.leader} : z[l] = t.size[l] BY <1>2
  <2> HIDE DEF z
  <2>6. D \cup {s.leader} \in SUBSET Leader BY <1>1
  <2>7. z \in Sizings BY <2>4, <2>6 DEF Sizings
  <2>8. Append(t.delta, x) \in Seq(Nat) BY <1>3
  <2>9. AddUp(t, s) \in Sized BY <2>3, <2>7, <2>8 DEF Sized
  <2>10. AddUp(t, s).size = z /\ AddUp(t, s).delta = Append(t.delta, x) BY <2>3
  <2> QED BY <1>5, <1>8, <2>5, <2>9, <2>10
<1> QED BY <1>7, <1>8

\* CalcSegSizes goes through the segments one step at a time.
LEMMA SizesFold ==
  ASSUME NEW N \in Nat, N = Len(segs), segs \in Seq(Segment), NEW base \in {NoSizes}, base \in Sized,
         \A t \in Sized : \A s \in Segment : AddUp(t, s) \in Sized
  PROVE  \E f : /\ f[0] = base /\ (\A i \in 1 .. N : f[i] = AddUp(f[i - 1], segs[i]))
                /\ FoldLeft(AddUp, base, segs) = f[N]
<1>1. DOMAIN segs = 1 .. N /\ \A i \in 1 .. N : segs[i] \in Segment OBVIOUS
<1> DEFINE op == [x \in (1 .. N) \X Sized |-> AddUp(x[2], segs[x[1]])]
           Is(g) == g = [q \in SUBSET DOMAIN segs |-> IF q = {} THEN base ELSE AddUp(g[q \ {Top(q)}], segs[Top(q)])]
           iter == CHOOSE g : Is(g)
<1>2. op \in [(1 .. N) \X Sized -> Sized]
  <2> HIDE DEF Sized
  <2> SUFFICES ASSUME NEW x \in (1 .. N) \X Sized PROVE AddUp(x[2], segs[x[1]]) \in Sized
    OBVIOUS
  <2>1. x[1] \in 1 .. N /\ x[2] \in Sized OBVIOUS
  <2> QED BY <1>1, <2>1
<1>3. PICK h \in [SUBSET (1 .. N) -> Sized] : Folded(h, N, base, op)
  <2> HIDE DEF op
  <2> QED BY <1>2, FoldExists
<1>4. Is(h)
  <2>1. ASSUME NEW q \in SUBSET (1 .. N), q # {} PROVE op[<<Top(q), h[q \ {Top(q)}]>>] = AddUp(h[q \ {Top(q)}], segs[Top(q)])
    <3>1. Top(q) \in 1 .. N BY <2>1, TopOf
    <3>2. q \ {Top(q)} \in SUBSET (1 .. N) OBVIOUS
    <3>3. h[q \ {Top(q)}] \in Sized BY <3>2
    <3> HIDE DEF Sized
    <3> QED BY <3>1, <3>3
  <2> QED BY <1>1, <1>3, <2>1 DEF Folded
<1>5. Is(iter)
  <2> HIDE DEF Is
  <2> QED BY <1>4
<1>6. FoldLeft(AddUp, base, segs) = iter[DOMAIN segs] BY DEF FoldLeft, MapThenFoldSet, Max, Top
<1>7. PICK it : Is(it) /\ FoldLeft(AddUp, base, segs) = it[DOMAIN segs]
  <2> HIDE DEF Is
  <2> QED BY <1>5, <1>6
<1> HIDE DEF iter, op
<1> DEFINE f == [i \in 0 .. N |-> it[1 .. i]]
<1>8. f[0] = base
  <2>1. 1 .. 0 = {} /\ {} \in SUBSET DOMAIN segs OBVIOUS
  <2>2. it[{}] = base BY <1>7, <2>1
  <2>3. f[0] = it[1 .. 0] OBVIOUS
  <2> HIDE DEF f
  <2> QED BY <2>1, <2>2, <2>3
<1>9. ASSUME NEW i \in 1 .. N PROVE f[i] = AddUp(f[i - 1], segs[i])
  <2>1. Top(1 .. i) = i /\ (1 .. i) \ {Top(1 .. i)} = 1 .. i - 1 /\ 1 .. i \in SUBSET (1 .. N) /\ 1 .. i # {} BY TopStep
  <2>2. it[1 .. i] = AddUp(it[(1 .. i) \ {Top(1 .. i)}], segs[Top(1 .. i)]) BY <1>1, <1>7, <2>1
  <2>3. f[i] = it[1 .. i] /\ f[i - 1] = it[1 .. i - 1] OBVIOUS
  <2> HIDE DEF f, Is
  <2> QED BY <2>1, <2>2, <2>3
<1>10. f[N] = it[1 .. N] OBVIOUS
<1> HIDE DEF f
<1> QED BY <1>1, <1>7, <1>8, <1>9, <1>10

LEMMA PlacedStep ==
  ASSUME PowersOfTwo, NEW t \in Sized, NEW i \in 1 .. Len(segs), segs \in Seq(Segment), Placed(t, i - 1)
  PROVE  AddUp(t, segs[i]) \in Sized /\ Placed(AddUp(t, segs[i]), i)
<1>1. PICK s \in Segment : s = segs[i] OBVIOUS
<1>2. PICK u : u = AddUp(t, s) OBVIOUS
<1>3. /\ u \in Sized
      /\ s.dead => u.size = t.size /\ u.delta = Append(t.delta, 0)
      /\ ~s.dead => \E x \in Nat :
              /\ x >= SizeIn(t, s.leader) /\ x % 2 ^ s.align = 0 /\ u.delta = Append(t.delta, x)
              /\ DOMAIN u.size = DOMAIN t.size \cup {s.leader} /\ u.size[s.leader] = x + s.length
              /\ \A l \in DOMAIN t.size \ {s.leader} : u.size[l] = t.size[l]
  BY <1>2, AddUpIs
<1>4. PICK m \in Nat : m = i - 1 OBVIOUS
<1>5. t.delta \in Seq(Nat) /\ Len(t.delta) = m BY <1>4 DEF Placed, Sized
<1>6. ASSUME NEW j \in 1 .. m, ~segs[j].dead
      PROVE  /\ segs[j].leader \in DOMAIN t.size /\ t.delta[j] % 2 ^ segs[j].align = 0
             /\ t.delta[j] + segs[j].length <= t.size[segs[j].leader]
             /\ \A k \in 1 .. j - 1 : ~segs[k].dead /\ segs[k].leader = segs[j].leader => t.delta[k] + segs[k].length <= t.delta[j]
  BY <1>4, <1>6 DEF Placed
<1>7. \A j \in 1 .. m : t.delta[j] \in Nat /\ segs[j].length \in Nat
  <2>1. \A j \in 1 .. m : segs[j] \in Segment BY <1>4
  <2>2. \A j \in 1 .. m : segs[j].length \in Nat BY <2>1 DEF Segment
  <2>3. \A j \in 1 .. m : t.delta[j] \in Nat BY <1>5
  <2> QED BY <2>2, <2>3
<1>8. t.size \in Sizings /\ \A l \in DOMAIN t.size : t.size[l] \in Nat BY DEF Sized, Sizings
<1>9. \A j \in 1 .. i : j \in 1 .. m \/ j = i BY <1>4
<1>10. CASE s.dead
  <2>1. u.size = t.size /\ u.delta = Append(t.delta, 0) BY <1>3, <1>10
  <2>2. Len(u.delta) = i /\ \A j \in 1 .. m : u.delta[j] = t.delta[j] BY <1>4, <1>5, <2>1
  <2>3. ASSUME NEW j \in 1 .. i, ~segs[j].dead
        PROVE  /\ segs[j].leader \in DOMAIN u.size /\ u.delta[j] % 2 ^ segs[j].align = 0
               /\ u.delta[j] + segs[j].length <= u.size[segs[j].leader]
               /\ \A k \in 1 .. j - 1 : ~segs[k].dead /\ segs[k].leader = segs[j].leader => u.delta[k] + segs[k].length <= u.delta[j]
    <3>1. j \in 1 .. m BY <1>1, <1>9, <1>10, <2>3
    <3>2. \A k \in 1 .. j - 1 : k \in 1 .. m BY <1>4, <3>1
    <3> QED BY <1>6, <2>1, <2>2, <2>3, <3>1, <3>2
  <2>4. Placed(u, i) BY <2>2, <2>3 DEF Placed
  <2> QED BY <1>1, <1>2, <1>3, <2>4
<1>11. CASE ~s.dead
  <2>1. PICK x \in Nat :
              /\ x >= SizeIn(t, s.leader) /\ x % 2 ^ s.align = 0 /\ u.delta = Append(t.delta, x)
              /\ DOMAIN u.size = DOMAIN t.size \cup {s.leader} /\ u.size[s.leader] = x + s.length
              /\ \A l \in DOMAIN t.size \ {s.leader} : u.size[l] = t.size[l]
    BY <1>3, <1>11
  <2>2. Len(u.delta) = i /\ u.delta[i] = x /\ \A j \in 1 .. m : u.delta[j] = t.delta[j] BY <1>4, <1>5, <2>1
  <2>3. \A l \in DOMAIN t.size : u.size[l] >= t.size[l]
    <3> SUFFICES ASSUME NEW l \in DOMAIN t.size PROVE u.size[l] >= t.size[l]
      OBVIOUS
    <3>1. t.size[l] \in Nat BY <1>8
    <3>2. CASE l = s.leader
      <4>1. SizeIn(t, s.leader) = t.size[l] BY <3>2 DEF SizeIn
      <4>2. u.size[l] = x + s.length /\ s.length \in Nat /\ x >= t.size[l] BY <2>1, <3>2, <4>1 DEF Segment
      <4> QED BY <3>1, <4>2
    <3>3. CASE l # s.leader BY <2>1, <3>1, <3>3
    <3> QED BY <3>2, <3>3
  <2>4. ASSUME NEW j \in 1 .. i, ~segs[j].dead
        PROVE  /\ segs[j].leader \in DOMAIN u.size /\ u.delta[j] % 2 ^ segs[j].align = 0
               /\ u.delta[j] + segs[j].length <= u.size[segs[j].leader]
               /\ \A k \in 1 .. j - 1 : ~segs[k].dead /\ segs[k].leader = segs[j].leader => u.delta[k] + segs[k].length <= u.delta[j]
    <3>1. CASE j \in 1 .. m
      <4>1. /\ segs[j].leader \in DOMAIN t.size /\ t.delta[j] % 2 ^ segs[j].align = 0
            /\ t.delta[j] + segs[j].length <= t.size[segs[j].leader]
            /\ \A k \in 1 .. j - 1 : ~segs[k].dead /\ segs[k].leader = segs[j].leader => t.delta[k] + segs[k].length <= t.delta[j]
        BY <1>6, <2>4, <3>1
      <4>2. \A k \in 1 .. j - 1 : k \in 1 .. m BY <1>4, <3>1
      <4>3. segs[j].leader \in DOMAIN u.size /\ u.size[segs[j].leader] >= t.size[segs[j].leader] BY <2>1, <2>3, <4>1
      <4>4. u.delta[j] + segs[j].length <= u.size[segs[j].leader]
        <5>1. PICK a, b, c \in Nat : a = t.delta[j] /\ b = segs[j].length /\ c = t.size[segs[j].leader] BY <1>7, <1>8, <3>1, <4>1
        <5>2. a + b <= c /\ u.size[segs[j].leader] >= c /\ u.delta[j] = a BY <2>2, <3>1, <4>1, <4>3, <5>1
        <5>3. u.size[segs[j].leader] \in Nat
          <6>1. \A l \in DOMAIN u.size : u.size[l] \in Nat BY <1>3 DEF Sized, Sizings
          <6> QED BY <4>3, <6>1
        <5>4. PICK d \in Nat : d = u.size[segs[j].leader] BY <5>3
        <5>5. a + b <= d BY <5>2, <5>4
        <5> QED BY <5>1, <5>2, <5>4, <5>5, Zenon
      <4> QED BY <2>2, <3>1, <4>1, <4>2, <4>3, <4>4
    <3>2. CASE j = i
      <4>1. segs[j] = s /\ u.delta[j] = x BY <1>1, <2>2, <3>2
      <4>2. s.length \in Nat BY DEF Segment
      <4>3. ASSUME NEW k \in 1 .. j - 1, ~segs[k].dead, segs[k].leader = s.leader PROVE u.delta[k] + segs[k].length <= x
        <5>1. k \in 1 .. m BY <1>4, <3>2
        <5>2. segs[k].leader \in DOMAIN t.size /\ t.delta[k] + segs[k].length <= t.size[segs[k].leader] BY <1>6, <4>3, <5>1
        <5>3. SizeIn(t, s.leader) = t.size[s.leader] BY <4>3, <5>2 DEF SizeIn
        <5>4. PICK a, b, c \in Nat : a = t.delta[k] /\ b = segs[k].length /\ c = t.size[s.leader] BY <1>7, <1>8, <4>3, <5>1, <5>2
        <5>5. a + b <= c /\ x >= c /\ u.delta[k] = a BY <2>1, <2>2, <4>3, <5>1, <5>2, <5>3, <5>4
        <5>6. a + b <= x BY <5>4, <5>5
        <5> QED BY <5>4, <5>5, <5>6
      <4>4. u.delta[j] + segs[j].length <= u.size[segs[j].leader] BY <2>1, <4>1, <4>2
      <4> QED BY <2>1, <4>1, <4>3, <4>4
    <3> QED BY <1>9, <3>1, <3>2
  <2>5. Placed(u, i) BY <2>2, <2>4 DEF Placed
  <2> QED BY <1>1, <1>2, <1>3, <2>5
<1> QED BY <1>10, <1>11

LEMMA CalcPlaces ==
  ASSUME PowersOfTwo, segs \in Seq(Segment), CalcSegSizes
  PROVE  PlacesFine'
<1>1. PICK N \in Nat : N = Len(segs) OBVIOUS
<1>2. PICK base \in {NoSizes} : base = NoSizes OBVIOUS
<1>3. base \in Sized
  <2>1. << >> \in [{} -> Nat] /\ {} \in SUBSET Leader OBVIOUS
  <2>2. << >> \in Sizings BY <2>1 DEF Sizings
  <2>3. << >> \in Seq(Nat) OBVIOUS
  <2> QED BY <1>2, <2>2, <2>3 DEF NoSizes, Sized
<1>4. \A t \in Sized : \A s \in Segment : AddUp(t, s) \in Sized BY AddUpIs
<1>5. PICK f : /\ f[0] = base /\ (\A i \in 1 .. N : f[i] = AddUp(f[i - 1], segs[i]))
               /\ FoldLeft(AddUp, base, segs) = f[N]
  BY <1>1, <1>3, <1>4, SizesFold
<1> DEFINE Good(i) == f[i] \in Sized /\ Placed(f[i], i)
           Bad == {i \in Nat : i <= N /\ ~Good(i)}
<1>6. Good(0)
  <2>1. base.delta = << >> /\ Len(<< >>) = 0 BY <1>2 DEF NoSizes
  <2> QED BY <1>3, <1>5, <2>1 DEF Placed
<1>7. ASSUME NEW i \in 1 .. N, Good(i - 1) PROVE Good(i)
  <2>1. PICK t \in Sized : t = f[i - 1] /\ Placed(t, i - 1) BY <1>7
  <2>2. i \in 1 .. Len(segs) BY <1>1
  <2>3. AddUp(t, segs[i]) \in Sized /\ Placed(AddUp(t, segs[i]), i) BY <2>1, <2>2, PlacedStep
  <2>4. f[i] = AddUp(t, segs[i]) BY <1>5, <2>1
  <2> QED BY <2>3, <2>4
<1> HIDE DEF Good
<1>8. Bad = {}
  <2> SUFFICES ASSUME Bad # {} PROVE FALSE
    OBVIOUS
  <2>1. Bad \in SUBSET Nat OBVIOUS
  <2>2. PICK k \in Bad : \A m \in Bad : k <= m
    <3> HIDE DEF Bad
    <3> QED BY <2>1, Least
  <2>3. k # 0 BY <1>6, <2>2
  <2>4. k \in 1 .. N /\ k - 1 \in Nat /\ k - 1 <= N /\ k - 1 < k BY <2>2, <2>3
  <2>5. Good(k - 1) BY <2>2, <2>4
  <2>6. Good(k) BY <1>7, <2>4, <2>5
  <2> QED BY <2>2, <2>6
<1>9. Good(N)
  <2> SUFFICES ASSUME ~Good(N) PROVE FALSE
    OBVIOUS
  <2>1. N \in Bad OBVIOUS
  <2> QED BY <1>8, <2>1
<1>10. PICK t \in Sized : t = f[N] /\ Placed(t, N) BY <1>9 DEF Good
<1>11. size' = t.size /\ delta' = t.delta /\ segs' = segs /\ mod' = mod /\ ~Reading
  <2>1. base = [size |-> << >>, delta |-> << >>] BY <1>2 DEF NoSizes
  <2>2. FoldLeft(AddUp, [size |-> << >>, delta |-> << >>], segs) = t BY <1>5, <1>10, <2>1
  <2> QED BY <2>2 DEF CalcSegSizes
<1>12. DOMAIN delta' = 1 .. N
  <2>1. t.delta \in Seq(Nat) /\ Len(t.delta) = N BY <1>10 DEF Placed, Sized
  <2> QED BY <1>11, <2>1
<1>13. PiecesApart' BY <1>10, <1>11, <1>12 DEF PiecesApart, Placed
<1>14. ~Reading' BY <1>11 DEF Reading
<1> QED BY <1>13, <1>14 DEF PlacesFine

\* What an action of pass 1 leaves alone.
LEMMA NoPlaces == ASSUME PlacesFine, Reading, size' = size, delta' = delta PROVE PlacesFine'
BY DEF PlacesFine

LEMMA CdatStays == ASSUME LegalRecords, PowersOfTwo, CdatInv, [Next]_vars PROVE CdatInv'
<1>1. Inv /\ (\A k \in Names : NameFine(k)) /\ PlacesFine BY DEF CdatInv
<1>2. Inv' BY <1>1, InvStays
<1>3. ASSUME NEW n \in Names, PubDef(n) PROVE CdatInv'
  <2>1. \A k \in Names : NameFine(k)' BY <1>1, <1>2, <1>3, PubDefFine
  <2>2. PlacesFine' BY <1>1, <1>3, NoPlaces DEF PubDef, Declare
  <2> QED BY <1>2, <2>1, <2>2 DEF CdatInv
<1>4. ASSUME NEW n \in Names, NEW c \in Sizes, ComDef(n, c[1], c[2]) PROVE CdatInv'
  <2>1. c[1] \in Nat /\ c[2] \in BOOLEAN BY DEF LegalRecords
  <2>2. \A k \in Names : NameFine(k)' BY <1>1, <1>2, <1>4, <2>1, ComDefOld, ComDefNew
  <2>3. PlacesFine' BY <1>1, <1>4, NoPlaces DEF ComDef, Declare
  <2> QED BY <1>2, <2>2, <2>3 DEF CdatInv
<1>5. ASSUME NEW n \in Names, NEW s \in Selections, ComDat(n, s[1], s[2], s[3]) PROVE CdatInv'
  <2>1. s[3] \in Nat BY DEF LegalRecords
  <2>2. \A k \in Names : NameFine(k)' BY <1>1, <1>2, <1>5, <2>1, ComDatFine
  <2>3. PlacesFine' BY <1>1, <1>5, NoPlaces DEF ComDat, Declare
  <2> QED BY <1>2, <2>2, <2>3 DEF CdatInv
<1>6. ASSUME NEW n \in Names, NEW l \in More, Continue(n, l) PROVE CdatInv'
  <2>1. l \in Nat BY DEF LegalRecords
  <2>2. \A k \in Names : NameFine(k)' BY <1>1, <1>2, <1>6, <2>1, ContinueFine
  <2>3. PlacesFine' BY <1>1, <1>6, NoPlaces DEF Continue, Continues
  <2> QED BY <1>2, <2>2, <2>3 DEF CdatInv
<1>7. CASE ResolveComdats
  <2>1. \A k \in Names : NameFine(k)' BY <1>1, <1>2, <1>7, ResolveFine
  <2>2. PlacesFine' BY <1>1, <1>7, NoPlaces DEF ResolveComdats
  <2> QED BY <1>2, <2>1, <2>2 DEF CdatInv
<1>8. CASE CalcSegSizes
  <2>1. \A k \in Names : NameFine(k)' BY <1>1, <1>8, SameFine DEF CalcSegSizes
  <2>2. PlacesFine' BY <1>1, <1>8, CalcPlaces DEF Inv, TypeOK
  <2> QED BY <1>2, <2>1, <2>2 DEF CdatInv
<1>9. CASE UNCHANGED vars
  <2>1. \A k \in Names : NameFine(k)' BY <1>1, <1>9, SameFine DEF vars
  <2>2. PlacesFine' BY <1>1, <1>9 DEF vars, PlacesFine, PiecesApart, Reading
  <2> QED BY <1>2, <2>1, <2>2 DEF CdatInv
<1> QED BY <1>3, <1>4, <1>5, <1>6, <1>7, <1>8, <1>9 DEF Next

\* A COMDAT has the data of all its records and of no other module's, there is
\* room for a communal symbol as large as any module takes it to be, and the
\* segments that bear one name lie one behind the other, each aligned as it asks
\* for (ProcComdat, StoreInfoData, MakeCommunalSym, FarAllocCommunal,
\* AddUpSegData). With OneMeaning this is all of what a link does to names that
\* several modules define.
THEOREM StorageRight ==
  ASSUME LegalRecords, PowersOfTwo
  PROVE  Spec => [](ComdatWhole /\ CommunalHolds /\ PiecesApart)
<1>1. Init => CdatInv
  <2> SUFFICES ASSUME Init PROVE CdatInv
    OBVIOUS
  <2>1. PlacesFine BY DEF Init, PlacesFine
  <2> QED BY <2>1, InitInv, InitFine DEF CdatInv
<1>2. CdatInv /\ [Next]_vars => CdatInv' BY CdatStays
<1>3. CdatInv => ComdatWhole /\ CommunalHolds /\ PiecesApart
  <2> SUFFICES ASSUME CdatInv PROVE ComdatWhole /\ CommunalHolds /\ PiecesApart
    OBVIOUS
  <2>1. ComdatWhole BY DEF CdatInv, NameFine, DataFine, Whole, ComdatWhole
  <2>2. \A n \in Names : Room(n) = RoomIn(segs, n) BY DEF Room, RoomIn
  <2>3. CommunalHolds BY <2>2 DEF CdatInv, NameFine, RoomFine, CommunalHolds
  <2>4. PiecesApart BY DEF CdatInv, PlacesFine, PiecesApart
  <2> QED BY <2>1, <2>3, <2>4
<1> QED BY <1>1, <1>2, <1>3, PTL DEF Spec
===============================================================================
