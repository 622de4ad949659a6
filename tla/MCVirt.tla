------------------------------- MODULE MCVirt -------------------------------
(***************************************************************************)
(* Two small instances of VirtMem for TLC: 4K pages under memory pressure, *)
(* and huge pages over two links.  part says which; the other stays where  *)
(* it began.                                                               *)
(***************************************************************************)
EXTENDS VirtMem

\* Three pages: a one-cell (tiny) block and a two-page block whose last page
\* is short.
PageSizes == {1, 3}

\* Bound: the blocks of the first instance, enough to fill the three pages.
MaxBlocks == 4

VARIABLES part,
    hSegSize, hNextSeg, hInmem, hHugeTab, hNextHuge, hNextSwap, hTiny,
    hBlocks, hHeap, hRam, hSpill, hTmpFSize, hTempFile, hFiles, hDisk,
    hOpening, hWriting, hFill, hNomem, hOp, hCur, hOff, hLen, hPos, hBuf,
    hSame
hugeVars == <<
    hSegSize, hNextSeg, hInmem, hHugeTab, hNextHuge, hNextSwap, hTiny,
    hBlocks, hHeap, hRam, hSpill, hTmpFSize, hTempFile, hFiles, hDisk,
    hOpening, hWriting, hFill, hNomem, hOp, hCur, hOff, hLen, hPos, hBuf,
    hSame>>

\* A block of one full huge page and one more with a single short subpage.
Huge == INSTANCE VirtMem WITH
    MaxSeg <- 1, MaxHuge <- 2, DiskSize <- 12, MaxLen <- 3,
    Ops <- {"null", "cmp", "copy"}, Sizes <- {5},
    segSize <- hSegSize, nextSeg <- hNextSeg, inmem <- hInmem,
    hugeTab <- hHugeTab, nextHuge <- hNextHuge, nextSwap <- hNextSwap,
    tiny <- hTiny, blocks <- hBlocks, heap <- hHeap, ram <- hRam,
    spill <- hSpill, tmpFSize <- hTmpFSize, tempFile <- hTempFile,
    files <- hFiles, disk <- hDisk, opening <- hOpening, writing <- hWriting,
    fill <- hFill, nomem <- hNomem, op <- hOp, cur <- hCur, off <- hOff,
    len <- hLen, pos <- hPos, buf <- hBuf, same <- hSame

MemInit == part \in {"pages", "huge"} /\ Init /\ Huge!Init
MemNext ==
    \/ part = "pages" /\ Next /\ Cardinality(blocks') <= MaxBlocks /\ UNCHANGED <<part, hugeVars>>
    \/ part = "huge" /\ Huge!Next /\ UNCHANGED <<part, vars>>
MemSpec == MemInit /\ [][MemNext]_<<part, vars, hugeVars>> /\ Huge!Fairness

\* What a fatal message leaves behind, in either instance: FreeVirtMem frees every
\* block but the one a swap was taking out, and no spill handle of a huge page.
CleanUp == CleanUpIsExact /\ Huge!CleanUpIsExact

\* Every request on huge pages stays in its block and is answered as a plain store
\* would answer it, wherever the subpages are, in a second link as in the first.
HugeRequestsServed == []Huge!RequestFits /\ Huge!RequestsEnd /\ Huge!ImplementsStore
=============================================================================
