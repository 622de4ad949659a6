------------------------------- MODULE OmfDict -------------------------------
(***************************************************************************)
(* The dictionary of an OMF library: JWlib (JWlib/c/omfutil.c) hashes the  *)
(* symbols into pages of NUM_BUCKETS buckets, and the linker (c/libr.c)    *)
(* searches it page by page.  Neither knows the other's code; what they    *)
(* share is the order in which buckets and pages are tried, and fflag,     *)
(* which tells how far a page is used or that a symbol did not fit.        *)
(*                                                                         *)
(* A page is PageWords words of two bytes: buckets, fflag, and entries of  *)
(* a length byte, a name and the place of its module.  Hash is what the    *)
(* two equal loops over the characters compute before their moduli.        *)
(***************************************************************************)
EXTENDS Naturals, Sequences, SequencesExt

CONSTANTS NumBuckets,     \* NUM_BUCKETS, and the 37 of c/libr.c
          PageWords,      \* DIC_REC_SIZE / 2
          PagesInCache,   \* PAGES_IN_CACHE
          Names,
          Hash(_),        \* [major, majorInc, minor, minorInc] of a name
          NameLen(_),     \* its length
          Fold(_),        \* the name in lower case; the hash is the same
          MaxSyms         \* bound: symbols in the library

VARIABLES syms,           \* the symbols, in the order JWlib writes them
          numBlocks,      \* num_blocks
          dict,           \* the pages, none before they are written
          caseFlag,       \* CASE_FLAG
          cache,          \* dict->cache: the pages of the file in each part
          search          \* the search that is going on, or its result

vars == <<syms, numBlocks, dict, caseFlag, cache, search>>
Full == PageWords - 1     \* LIB_FULL_PAGE, which is also the fflag of a page without room
NoCache == << >>
-------------------------------------------------------------------------------
(* JWlib.                                                                  *)

Odd(n) == IF n % 2 = 0 THEN n + 1 ELSE n
CeilDiv(a, b) == (a + b - 1) \div b
Larger(a, b) == IF a > b THEN a ELSE b
IsPrime(n) == \A p \in 2 .. n - 1 : p * p > n \/ n % p # 0
\* NextPrime, for numbers its table reaches.
NextPrime(n) == IF n <= 2 THEN n
                ELSE CHOOSE m \in Odd(n) .. 2 * n : /\ m % 2 = 1 /\ IsPrime(m)
                                                    /\ \A k \in Odd(n) .. m - 1 : k % 2 = 1 => ~IsPrime(k)

\* The number of pages WriteOmfDict starts from: buckets and characters for all.
Estimate(s) ==
    LET chars == FoldLeft(LAMBDA t, n : t + Odd(NameLen(n)), 0, s)
        nameBytes == 2 * PageWords - NumBuckets - 1 IN
    Larger(CeilDiv(Len(s), NumBuckets), CeilDiv(chars + 3, nameBytes)) - 1

EmptyPage == [htab |-> [b \in 0 .. NumBuckets - 1 |-> 0], fflag |-> (NumBuckets + 1) \div 2, at |-> << >>]
Start(n, pages) == Hash(n).major % pages
Inc(n, pages) == IF Hash(n).majorInc % pages = 0 THEN 1 ELSE Hash(n).majorInc % pages
EntryWords(n) == (Odd(NameLen(n)) + 3) \div 2
Wrap(a, n) == IF a >= n THEN a - n ELSE a

\* The bucket tried in a page after j others.
Bucket(n, first, j) ==
    (first + j * (IF Hash(n).minorInc = 0 THEN 1 ELSE Hash(n).minorInc)) % NumBuckets

\* Mutant: a page that is too full for an entry does not say so.
NoRoomSilent(p) == p
\* The page has a free bucket for an entry but no room.
NoRoom(p) == [p EXCEPT !.fflag = Full]

\* The inner loop of InsertOmfDict: n goes to page t.block at the first free
\* bucket, if there is one and the page has room.
InsertInPage(t, n, offset) ==
    LET p == t.pages[t.block]
        free == {j \in 0 .. NumBuckets - 1 : p.htab[Bucket(n, t.bucket, j)] = 0}
        b == Bucket(n, t.bucket, CHOOSE j \in free : \A k \in free : j <= k)
        next == [t EXCEPT !.block = Wrap(@ + Inc(n, numBlocks), numBlocks)] IN
    IF free = {} THEN next
    ELSE IF PageWords - p.fflag - 1 < EntryWords(n)
    THEN [next EXCEPT !.pages[t.block] = NoRoom(p), !.bucket = b]
    ELSE [t EXCEPT !.pages[t.block] =
                      [htab |-> [p.htab EXCEPT ![b] = p.fflag], fflag |-> p.fflag + EntryWords(n),
                       at |-> [w \in DOMAIN p.at \cup {p.fflag} |->
                                  IF w = p.fflag THEN [name |-> n, offset |-> offset] ELSE p.at[w]]],
                   !.done = TRUE]

\* InsertOmfDict goes on from page to page; done says whether it found a place.
InsertOmfDict(pages, n, offset) ==
    FoldLeft(LAMBDA t, i : IF t.done THEN t ELSE InsertInPage(t, n, offset),
             [pages |-> pages, block |-> Start(n, numBlocks), bucket |-> Hash(n).minor, done |-> FALSE],
             [i \in 1 .. numBlocks |-> i])

HashOmfSymbols ==
    FoldLeft(LAMBDA t, i : IF ~t.done THEN t ELSE InsertOmfDict(t.pages, syms[i], i),
             [pages |-> [b \in 0 .. numBlocks - 1 |-> EmptyPage], done |-> TRUE],
             [i \in 1 .. Len(syms) |-> i])

Init ==
    /\ syms \in UNION {{s \in [1 .. k -> Names] : IsInjective(s)} : k \in 0 .. MaxSyms}
    /\ numBlocks = NextPrime(Estimate(syms) + 1)
    /\ dict = << >> /\ caseFlag \in BOOLEAN /\ cache = NoCache /\ search = [state |-> "none"]

\* One round of WriteOmfDict: all symbols fit, or it starts again with more pages.
WriteOmfDict ==
    /\ dict = << >>
    /\ LET all == HashOmfSymbols IN
       IF all.done THEN dict' = all.pages /\ UNCHANGED numBlocks
       ELSE numBlocks' = NextPrime(numBlocks + 1) /\ UNCHANGED dict
    /\ UNCHANGED <<syms, caseFlag, cache, search>>
-------------------------------------------------------------------------------
(* The linker.                                                             *)

\* OMFSearchExtLib starts.
OMFSearchExtLib(n) ==
    /\ dict # << >> /\ search.state = "none"
    /\ search' = [state |-> "on", name |-> n, major |-> Start(n, numBlocks), minor |-> Hash(n).minor,
                  left |-> numBlocks]
    /\ UNCHANGED <<syms, numBlocks, dict, caseFlag, cache>>

\* SetDict reads the whole dictionary, in parts, if there is memory for it.
Parts == [k \in 0 .. numBlocks \div PagesInCache |->
             [r \in 0 .. PagesInCache - 1 |-> k * PagesInCache + r]]
CachedPage(major) == cache[major \div PagesInCache][major % PagesInCache]

\* OMFCompName.
Matches(entry, n) == IF caseFlag THEN entry.name = n ELSE Fold(entry.name) = Fold(n)

\* Mutant: every page is searched from the first bucket of the name.
GoOnAtFirst(bucket, n) == Hash(n).minor
\* The bucket where the search goes on in the next page.
GoOnAt(bucket, n) == bucket

\* SetDict for the next page, and the loop over its buckets.
SearchPage ==
    /\ search.state = "on"
    /\ \/ cache # NoCache /\ UNCHANGED cache
       \/ cache = NoCache /\ cache' \in {NoCache, Parts}
    /\ LET p == dict[IF cache # NoCache THEN CachedPage(search.major) ELSE search.major]
           n == search.name
           hit == {j \in 0 .. NumBuckets - 1 :
                      LET w == p.htab[Bucket(n, search.minor, j)] IN w = 0 \/ Matches(p.at[w], n)}
           b == Bucket(n, search.minor, CHOOSE j \in hit : \A k \in hit : j <= k)
           next == IF search.left = 1 THEN [state |-> "missing", name |-> n]
                   ELSE [search EXCEPT !.major = Wrap(@ + Inc(n, numBlocks), numBlocks), !.left = @ - 1] IN
       search' = IF hit = {} THEN next
                 ELSE IF p.htab[b] # 0 THEN [state |-> "found", name |-> n, offset |-> p.at[p.htab[b]].offset]
                 ELSE IF p.fflag # Full \/ search.left = 1 THEN [state |-> "missing", name |-> n]
                 ELSE [next EXCEPT !.minor = GoOnAt(b, n)]
    /\ UNCHANGED <<syms, numBlocks, dict, caseFlag>>

\* Something else needs memory between two searches.
DiscardDicts ==
    /\ search.state # "on" /\ cache # NoCache /\ cache' = NoCache
    /\ UNCHANGED <<syms, numBlocks, dict, caseFlag, search>>

Next == WriteOmfDict \/ (\E n \in Names : OMFSearchExtLib(n)) \/ SearchPage \/ DiscardDicts
Spec == Init /\ [][Next]_vars
-------------------------------------------------------------------------------
(* Properties.                                                             *)

TypeOK ==
    /\ numBlocks \in Nat \ {0} /\ caseFlag \in BOOLEAN /\ cache \in {NoCache, Parts} /\ search.state \in {"none", "on", "found", "missing"}
    /\ \A b \in DOMAIN dict : dict[b].fflag \in 1 .. Full

\* A symbol of the library is found, with a module that JWlib put it into, and no
\* other is, however many pages were too full for it or for others before and
\* after it: the search tries what the writer tried until a place where the
\* writer would have put the symbol.
OmfFinds ==
    LET named == {i \in DOMAIN syms : Matches([name |-> syms[i]], search.name)} IN
    /\ search.state = "found" => search.offset \in named
    /\ search.state = "missing" => named = {}
===============================================================================
