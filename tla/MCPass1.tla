------------------------------- MODULE MCPass1 -------------------------------
(***************************************************************************)
(* How pass 1 and the passes after it read files, by ObjCache, for TLC; or *)
(* the directives and the library search of a link with a chain of         *)
(* aliases, by Resolve.  part says which; the other stays where it began.  *)
(***************************************************************************)
EXTENDS MCObjCache

CONSTANTS n1, n2, n3, n4, l1, Nil

VARIABLES part, sSyms, sLibs, sDict, sSeen, sOld, sAdded, sSearching, sPhase, sMod, sPos, sLeft,
          sStrong, sVirtual, sPulled
symVars == <<sSyms, sLibs, sDict, sSeen, sOld, sAdded, sSearching, sPhase, sMod, sPos, sLeft,
             sStrong, sVirtual, sPulled>>

\* n3 is another name of n1, which is one of n2, which is one of n4.
Chain == {<<n3, n1>>, <<n1, n2>>, <<n2, n4>>}

Names == INSTANCE Resolve WITH
    Names <- {n1, n2, n3, n4}, Clip <- LAMBDA r, t : r, Libs <- {l1}, Aliases <- Chain,
    Directives <- {"library", "reference", "alias"}, Records <- {"ext", "pub", "alias"},
    MaxDirectives <- 2, MaxObjs <- 1, MaxRecords <- 2,
    syms <- sSyms, libs <- sLibs, dict <- sDict, seenLibs <- sSeen, oldLibs <- sOld, added <- sAdded,
    searching <- sSearching, phase <- sPhase, mod <- sMod, pos <- sPos, left <- sLeft,
    strong <- sStrong, virtual <- sVirtual, pulled <- sPulled

Pass1Init ==
    /\ part \in {"reads", "names"}
    /\ Init /\ (part = "names" => option = "default")
    /\ Names!Init /\ (part = "reads" => sDict = [l \in {l1} |-> {}])
    \* the library has none of the names, the middle of the chain, or one and its end
    /\ sDict[l1] \in {{}, {n2}, {n1, n4}}

Reads(A) == part = "reads" /\ A /\ UNCHANGED <<part, symVars>>
Aliased(A) == part = "names" /\ A /\ UNCHANGED <<part, vars>>

Pass1Next == Reads(Next) \/ Aliased(Names!Next)

\* One thread runs the directives and the search.
Pass1Spec ==
    /\ Pass1Init /\ [][Pass1Next]_<<part, vars, symVars>>
    /\ WF_<<part, vars, symVars>>(Aliased(Names!Next))

\* The properties of Resolve.
AliasMeansTarget == Names!AliasMeansTarget
TargetsPulled == Names!TargetsPulled
LinkEnds == part = "names" => Names!LinkEnds
==============================================================================
