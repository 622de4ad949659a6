--------------------------- MODULE MCResolveLibs ---------------------------
(***************************************************************************)
(* Names and libraries, for TLC.  Two kinds of links by Resolve: one with  *)
(* two libraries and default libraries of modules, and one with virtual    *)
(* function records, imports and communal symbols.  The dictionaries those *)
(* links take as functions from names to modules: of an OMF library by     *)
(* OmfDict, and of an AR archive by ArDict.  And what becomes of the       *)
(* storage of a name that several modules define, by Comdat.  part says    *)
(* which it is; the others stay where they began.                          *)
(***************************************************************************)
EXTENDS MCResolve

CONSTANTS l1, l2, l3

VARIABLES part, oSyms, oBlocks, oDict, oCase, oCache, oSearch,
          aNumdicts, aCase, aListed, aNames, aOffsets, aIndex, aIx, aIxSave, aSaved, aPc, aResult,
          cMod, cSym, cPublist, cSegs, cCdatSegments, cCdatSegNum, cInfos, cSize, cDelta, cCame
omfVars == <<oSyms, oBlocks, oDict, oCase, oCache, oSearch>>
arVars == <<aNumdicts, aCase, aListed, aNames, aOffsets, aIndex, aIx, aIxSave, aSaved, aPc, aResult>>
cdatVars == <<cMod, cSym, cPublist, cSegs, cCdatSegments, cCdatSegNum, cInfos, cSize, cDelta, cCame>>

Virtual == INSTANCE Resolve WITH
    Libs <- {l3}, Records <- {"ext", "pub", "com", "imp", "lazy", "vf", "pure", "vfref"}, MaxObjs <- 1

\* Names of an OMF library: their hash, their length and their case.  Two differ in
\* case only; the others meet in pages and buckets on different ways.
OmfNames == {<<0, 1, 0, 1, 1, 0>>, <<0, 1, 0, 1, 1, 1>>, <<0, 0, 0, 2, 1, 0>>, <<2, 1, 0, 2, 3, 0>>,
             <<1, 2, 2, 1, 3, 0>>, <<4, 3, 1, 2, 2, 0>>, <<0, 1, 1, 1, 3, 0>>}
OmfHash(n) == [major |-> n[1], majorInc |-> n[2], minor |-> n[3], minorInc |-> n[4]]
Omf == INSTANCE OmfDict WITH
    NumBuckets <- 3, PageWords <- 6, PagesInCache <- 2, Names <- OmfNames, Hash <- OmfHash,
    NameLen <- LAMBDA n : n[5], Fold <- LAMBDA n : SubSeq(n, 1, 5), MaxSyms <- 4,
    syms <- oSyms, numBlocks <- oBlocks, dict <- oDict, caseFlag <- oCase, cache <- oCache, search <- oSearch

\* Names of an archive: a letter, and 0 if it is upper case.
ArNames == {<<1, 0>>, <<1, 1>>, <<2, 0>>, <<3, 0>>, <<3, 1>>}
Ar == INSTANCE ArDict WITH
    Names <- ArNames, StrKey <- LAMBDA n : 10 * n[2] + n[1], StrIKey <- LAMBDA n : n[1],
    IndexLimit <- 4, MaxEntries <- 4,
    numdicts <- aNumdicts, caseFlag <- aCase, listed <- aListed, fnametab <- aNames, offsettab <- aOffsets,
    indexTab <- aIndex, ix <- aIx, ixSave <- aIxSave, saved <- aSaved, pc <- aPc, result <- aResult

\* Communal symbols around 64K, which is 4, and COMDATs of three places and alignments.
OneName == INSTANCE Comdat WITH
    Sizes <- {<<1, FALSE>>, <<5, FALSE>>, <<5, TRUE>>, <<6, TRUE>>},
    Selections <- {<<"explicit", 1, 1>>, <<"code", 0, 3>>, <<"data32", 2, 1>>}, More <- {2},
    MaxSegment <- 4, MaxMods <- 3, MaxRecords <- 4, MaxPieces <- 2,
    mod <- cMod, sym <- cSym, publist <- cPublist, segs <- cSegs, cdatSegments <- cCdatSegments,
    cdatSegNum <- cCdatSegNum, infos <- cInfos, size <- cSize, delta <- cDelta, came <- cCame

Symmetric == Permutations({n1, n2}) \cup Permutations({l1, l2})

PartInit ==
    /\ part \in {"plain", "virtual", "omf", "ar", "comdats"}
    /\ IF part = "virtual" THEN Virtual!Init ELSE Init
    /\ part \in {"omf", "ar", "comdats"} => dict = [l \in Libs |-> {}]
    /\ Omf!Init /\ (part # "omf" => oSyms = << >> /\ oCase)
    /\ Ar!Init /\ (part # "ar" => aListed = {} /\ aNumdicts = 1 /\ aCase)
    /\ OneName!Init

InPart(p, A, rest) == part = p /\ A /\ UNCHANGED <<part, rest>>

PartNext ==
    \/ InPart("plain", Next, <<omfVars, arVars, cdatVars>>)
    \/ InPart("virtual", Virtual!Next, <<omfVars, arVars, cdatVars>>)
    \/ InPart("omf", Omf!Next, <<vars, arVars, cdatVars>>)
    \/ InPart("ar", Ar!Next, <<vars, omfVars, cdatVars>>)
    \/ InPart("comdats", OneName!Next, <<vars, omfVars, arVars>>)
    \/ part \in {"omf", "ar", "comdats"} /\ UNCHANGED <<part, vars, omfVars, arVars, cdatVars>>

PartSpec == PartInit /\ [][PartNext]_<<part, vars, omfVars, arVars, cdatVars>>

\* TypeOK of each part.
BothTypeOK ==
    CASE part = "plain" -> TypeOK
      [] part = "virtual" -> Virtual!TypeOK
      [] part = "omf" -> Omf!TypeOK
      [] part = "ar" -> Ar!TypeOK
      [] part = "comdats" -> OneName!TypeOK

\* The properties of OmfDict and ArDict: a search answers what the library has.
DictionaryFinds == (part = "omf" => Omf!OmfFinds) /\ (part = "ar" => Ar!ArFinds)

\* The properties of Comdat: a name means the best and first of its declarations,
\* and has the storage of that one, whole and apart from others.
ComdatsRight ==
    part = "comdats" =>
        /\ OneName!OneDefinition /\ OneName!InOneList /\ OneName!OnlyDefinitionStays
        /\ OneName!ComdatWhole /\ OneName!CommunalHolds /\ OneName!PiecesApart
=============================================================================
