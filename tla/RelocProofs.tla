----------------------------- MODULE RelocProofs -----------------------------
(***************************************************************************)
(* Proofs about the relocation store (Reloc): where its blocks lie, that   *)
(* all of them are found when memory is short and when it is freed, and    *)
(* that it is a RelocStore. IInv is the invariant of the first three, Kept *)
(* what it lacks for the last.                                             *)
(***************************************************************************)
EXTENDS Reloc, FiniteSetTheorems, SequenceTheorems, WellFoundedInduction, TLAPS

-----------------------------------------------------------------------------
(* Sequences                                                                *)

\* Every set of numbers that is not empty has a least one.
LEMMA Least == ASSUME NEW S \in SUBSET Nat, S # {} PROVE \E n \in S : \A m \in S : n <= m
<1> DEFINE R == OpToRel(<, Nat)
<1>1. IsWellFoundedOn(R, Nat) BY NatLessThanWellFounded
<1>2. \A n, m \in Nat : m < n => <<m, n>> \in R BY DEF OpToRel
<1> HIDE DEF R
<1>3. PICK n \in S : \A m \in S : ~(<<m, n>> \in R) BY <1>1, WFMin
<1>4. \A m \in S : ~(m < n) BY <1>2, <1>3
<1> QED BY <1>3, <1>4

\* What FlattenSeq computes, one sequence after the other.
LEMMA FlattenSteps ==
  ASSUME NEW T, NEW ss \in Seq(Seq(T)), ss # << >>
  PROVE  \E f : /\ f[1] = ss[1]
                /\ \A i \in 2 .. Len(ss) : f[i] = f[i - 1] \o ss[i]
                /\ FlattenSeq(ss) = f[Len(ss)]
<1> DEFINE N == Len(ss)
           Rec(f, n) == f = [i \in 1 .. n |-> IF i = 1 THEN ss[i] ELSE f[i - 1] \o ss[i]]
           Has(n) == \E f : Rec(f, n)
           Bad == {n \in Nat : n <= N /\ ~Has(n)}
<1>1. N \in Nat \ {0} OBVIOUS
<1>2. Has(0)
  <2>1. Rec(<< >>, 0) OBVIOUS
  <2> QED BY <2>1
<1>3. ASSUME NEW n \in Nat \ {0}, n <= N, Has(n - 1) PROVE Has(n)
  <2>1. PICK f : Rec(f, n - 1) BY <1>3
  <2>2. \A i \in 1 .. n - 1 : f[i] = IF i = 1 THEN ss[i] ELSE f[i - 1] \o ss[i] BY <2>1
  <2> HIDE DEF Rec
  <2> DEFINE g == [i \in 1 .. n |-> IF i < n THEN f[i] ELSE IF i = 1 THEN ss[i] ELSE f[i - 1] \o ss[i]]
  <2>3. ASSUME NEW i \in 1 .. n PROVE g[i] = IF i = 1 THEN ss[i] ELSE g[i - 1] \o ss[i]
    <3>1. CASE i = n BY <3>1
    <3>2. CASE i < n
      <4>1. g[i] = f[i] /\ (i # 1 => g[i - 1] = f[i - 1]) BY <3>2
      <4> HIDE DEF g
      <4>2. i \in 1 .. n - 1 BY <3>2
      <4>3. f[i] = IF i = 1 THEN ss[i] ELSE f[i - 1] \o ss[i] BY <2>2, <4>2
      <4> QED BY <4>1, <4>3
    <3> QED BY <3>1, <3>2
  <2>4. g = [i \in 1 .. n |-> g[i]] OBVIOUS
  <2>5. Rec(g, n)
    <3> HIDE DEF g
    <3> QED BY <2>3, <2>4 DEF Rec
  <2> HIDE DEF g
  <2> QED BY <2>5
<1>4. Has(N)
  <2> HIDE DEF Has
  <2> SUFFICES ASSUME ~Has(N) PROVE FALSE
    OBVIOUS
  <2>1. N \in Bad /\ Bad \in SUBSET Nat BY <1>1
  <2>2. PICK n \in Bad : \A m \in Bad : n <= m
    <3> HIDE DEF Bad
    <3> QED BY <2>1, Least
  <2>3. n \in Nat \ {0} /\ n <= N /\ ~Has(n) BY <1>2
  <2>4. n - 1 \notin Bad BY <2>2, <2>3
  <2> QED BY <1>3, <2>3, <2>4
<1> DEFINE f == CHOOSE f : Rec(f, N)
<1>5. Rec(f, N)
  <2> HIDE DEF Rec
  <2> QED BY <1>4
<1>6. FlattenSeq(ss) = f[N] BY <1>1, Zenon DEF FlattenSeq
<1> HIDE DEF f
<1>7. \A i \in 1 .. N : f[i] = IF i = 1 THEN ss[i] ELSE f[i - 1] \o ss[i] BY <1>5
<1> HIDE DEF Rec
<1>8. f[1] = ss[1] /\ \A i \in 2 .. N : f[i] = f[i - 1] \o ss[i]
  <2> HIDE DEF N
  <2>1. 1 \in 1 .. N BY <1>1
  <2>2. f[1] = ss[1] BY <1>7, <2>1
  <2>3. ASSUME NEW i \in 2 .. N PROVE f[i] = f[i - 1] \o ss[i]
    <3>1. i \in 1 .. N /\ i # 1 BY <1>1
    <3>2. f[i] = IF i = 1 THEN ss[i] ELSE f[i - 1] \o ss[i] BY <1>7, <3>1
    <3> QED BY <3>1, <3>2
  <2> QED BY <2>2, <2>3
<1> QED BY <1>6, <1>8

\* Where the elements of s are in the first n of the sequences ss, if s is the
\* first n of them one after the other.
IsPlaces(pl, s, ss, n) ==
  /\ \A p \in DOMAIN s : /\ pl[p] \in Nat \X Nat /\ pl[p][1] \in 1 .. n /\ pl[p][2] \in DOMAIN ss[pl[p][1]]
                         /\ s[p] = ss[pl[p][1]][pl[p][2]]
  /\ \A p, q \in DOMAIN s : pl[p] = pl[q] => p = q
  /\ \A i \in 1 .. n : \A k \in DOMAIN ss[i] : \E p \in DOMAIN s : pl[p] = <<i, k>>
  /\ \A p \in DOMAIN s : pl[p][2] > 1 => p > 1 /\ pl[p - 1] = <<pl[p][1], pl[p][2] - 1>>

LEMMA OneMorePlace ==
  ASSUME NEW T, NEW ss \in Seq(Seq(T)), NEW n \in Nat, n + 1 <= Len(ss), NEW s \in Seq(T), NEW pl, IsPlaces(pl, s, ss, n)
  PROVE  /\ s \o ss[n + 1] \in Seq(T)
         /\ \E q : IsPlaces(q, s \o ss[n + 1], ss, n + 1)
<1>1. ss[n + 1] \in Seq(T) OBVIOUS
<1> DEFINE t == ss[n + 1]
           r == s \o t
           q == [p \in 1 .. Len(s) + Len(t) |-> IF p <= Len(s) THEN pl[p] ELSE <<n + 1, p - Len(s)>>]
<1>2. /\ r \in Seq(T) /\ Len(r) = Len(s) + Len(t) /\ Len(s) \in Nat /\ Len(t) \in Nat
      /\ DOMAIN r = 1 .. Len(s) + Len(t) /\ DOMAIN s = 1 .. Len(s) /\ DOMAIN t = 1 .. Len(t)
      /\ \A p \in DOMAIN s : r[p] = s[p]
      /\ \A p \in DOMAIN r \ DOMAIN s : r[p] = t[p - Len(s)]
  <2> HIDE DEF t
  <2> QED BY <1>1 DEF t
<1>3. /\ \A p \in DOMAIN s : q[p] = pl[p]
      /\ \A p \in DOMAIN r \ DOMAIN s : q[p] = <<n + 1, p - Len(s)>> /\ p - Len(s) \in DOMAIN t
  BY <1>2
<1> HIDE DEF r, q
<1>4. \A p \in DOMAIN s : p \in DOMAIN r BY <1>2
<1>5. \A p \in DOMAIN r : /\ q[p] \in Nat \X Nat /\ q[p][1] \in 1 .. n + 1 /\ q[p][2] \in DOMAIN ss[q[p][1]]
                          /\ r[p] = ss[q[p][1]][q[p][2]]
  <2> SUFFICES ASSUME NEW p \in DOMAIN r
               PROVE  /\ q[p] \in Nat \X Nat /\ q[p][1] \in 1 .. n + 1 /\ q[p][2] \in DOMAIN ss[q[p][1]]
                      /\ r[p] = ss[q[p][1]][q[p][2]]
    OBVIOUS
  <2>1. CASE p \in DOMAIN s
    <3>1. q[p] = pl[p] /\ r[p] = s[p] BY <2>1, <1>2, <1>3
    <3>2. /\ pl[p] \in Nat \X Nat /\ pl[p][1] \in 1 .. n /\ pl[p][2] \in DOMAIN ss[pl[p][1]]
          /\ s[p] = ss[pl[p][1]][pl[p][2]]
      BY <2>1 DEF IsPlaces
    <3>3. pl[p][1] \in 1 .. n + 1 BY <3>2
    <3> QED BY <3>1, <3>2, <3>3
  <2>2. CASE p \notin DOMAIN s
    <3>1. q[p] = <<n + 1, p - Len(s)>> /\ p - Len(s) \in 1 .. Len(t) /\ r[p] = t[p - Len(s)] BY <2>2, <1>2, <1>3
    <3>2. q[p][1] = n + 1 /\ q[p][2] = p - Len(s) /\ ss[n + 1] = t BY <3>1
    <3> HIDE DEF t
    <3>3. p - Len(s) \in Nat /\ n + 1 \in 1 .. n + 1 BY <3>1, <1>2
    <3>4. p - Len(s) \in DOMAIN t BY <3>1, <1>2
    <3>5. q[p] \in Nat \X Nat BY <3>1, <3>3
    <3>6. ss[q[p][1]] = t BY <3>2
    <3>7. ss[q[p][1]][q[p][2]] = t[p - Len(s)] BY <3>2, <3>6
    <3>8. q[p][1] \in 1 .. n + 1 BY <3>2, <3>3
    <3>9. q[p][2] \in DOMAIN ss[q[p][1]] BY <3>2, <3>4, <3>6
    <3> QED BY <3>1, <3>5, <3>7, <3>8, <3>9
  <2> QED BY <2>1, <2>2
<1>6. \A p, v \in DOMAIN r : q[p] = q[v] => p = v
  <2> SUFFICES ASSUME NEW p \in DOMAIN r, NEW v \in DOMAIN r, q[p] = q[v] PROVE p = v
    OBVIOUS
  <2>1. CASE p \in DOMAIN s /\ v \in DOMAIN s BY <2>1, <1>3 DEF IsPlaces
  <2>2. CASE p \notin DOMAIN s /\ v \notin DOMAIN s
    <3>1. p - Len(s) = v - Len(s) BY <2>2, <1>3
    <3> QED BY <3>1, <1>2
  <2>3. \A x \in DOMAIN s, y \in DOMAIN r \ DOMAIN s : q[x] # q[y]
    <3> SUFFICES ASSUME NEW x \in DOMAIN s, NEW y \in DOMAIN r \ DOMAIN s, q[x] = q[y] PROVE FALSE
      OBVIOUS
    <3>1. pl[x][1] \in 1 .. n BY DEF IsPlaces
    <3>2. pl[x] = <<n + 1, y - Len(s)>> BY <1>3
    <3> QED BY <3>1, <3>2
  <2> QED BY <2>1, <2>2, <2>3
<1>7. \A i \in 1 .. n + 1 : \A k \in DOMAIN ss[i] : \E p \in DOMAIN r : q[p] = <<i, k>>
  <2> SUFFICES ASSUME NEW i \in 1 .. n + 1, NEW k \in DOMAIN ss[i] PROVE \E p \in DOMAIN r : q[p] = <<i, k>>
    OBVIOUS
  <2>1. CASE i \in 1 .. n
    <3>1. PICK p \in DOMAIN s : pl[p] = <<i, k>> BY <2>1 DEF IsPlaces
    <3> QED BY <3>1, <1>3, <1>4
  <2>2. CASE i = n + 1
    <3>1. k \in 1 .. Len(t) BY <2>2, <1>2
    <3> HIDE DEF t
    <3>2. Len(s) \in Nat /\ Len(t) \in Nat /\ DOMAIN r = 1 .. Len(s) + Len(t) /\ DOMAIN s = 1 .. Len(s) BY <1>2
    <3>3. PICK a, b : a = Len(s) /\ b = Len(t) OBVIOUS
    <3>4. a \in Nat /\ b \in Nat /\ k \in 1 .. b BY <3>1, <3>2, <3>3
    <3>5. k + a \in 1 .. a + b /\ k + a \notin 1 .. a /\ (k + a) - a = k BY <3>4
    <3>6. k + Len(s) \in DOMAIN r \ DOMAIN s /\ (k + Len(s)) - Len(s) = k BY <3>2, <3>3, <3>5
    <3> QED BY <3>6, <1>3, <2>2
  <2> QED BY <2>1, <2>2
<1>8. \A p \in DOMAIN r : q[p][2] > 1 => p > 1 /\ q[p - 1] = <<q[p][1], q[p][2] - 1>>
  <2> SUFFICES ASSUME NEW p \in DOMAIN r, q[p][2] > 1 PROVE p > 1 /\ q[p - 1] = <<q[p][1], q[p][2] - 1>>
    OBVIOUS
  <2>1. CASE p \in DOMAIN s
    <3>1. p > 1 /\ pl[p - 1] = <<pl[p][1], pl[p][2] - 1>> BY <2>1, <1>3 DEF IsPlaces
    <3>2. p - 1 \in DOMAIN s BY <3>1, <2>1, <1>2
    <3> QED BY <3>1, <3>2, <1>3, <2>1
  <2>2. CASE p \notin DOMAIN s
    <3>1. q[p] = <<n + 1, p - Len(s)>> BY <2>2, <1>3
    <3>2. p - Len(s) > 1 /\ p \in Nat BY <3>1, <1>2
    <3>3. p - 1 \in DOMAIN r \ DOMAIN s BY <3>2, <1>2
    <3>4. q[p - 1] = <<n + 1, (p - 1) - Len(s)>> BY <3>3, <1>3
    <3>5. (p - 1) - Len(s) = (p - Len(s)) - 1 BY <3>2, <1>2
    <3> QED BY <3>1, <3>2, <3>4, <3>5, <1>2
  <2> QED BY <2>1, <2>2
<1>9. IsPlaces(q, r, ss, n + 1) BY <1>5, <1>6, <1>7, <1>8 DEF IsPlaces
<1> QED BY <1>2, <1>9 DEF r

\* FlattenSeq has each element of each of its sequences once, those of one
\* sequence in their order, one after the other.
LEMMA FlattenPlaces ==
  ASSUME NEW T, NEW ss \in Seq(Seq(T))
  PROVE  /\ FlattenSeq(ss) \in Seq(T)
         /\ \E pl : IsPlaces(pl, FlattenSeq(ss), ss, Len(ss))
<1>1. CASE ss = << >>
  <2>1. FlattenSeq(ss) = << >> BY <1>1 DEF FlattenSeq
  <2>2. IsPlaces(<< >>, << >>, ss, Len(ss)) BY <1>1 DEF IsPlaces
  <2> QED BY <2>1, <2>2
<1>2. CASE ss # << >>
  <2>1. PICK f : /\ f[1] = ss[1] /\ \A i \in 2 .. Len(ss) : f[i] = f[i - 1] \o ss[i]
                 /\ FlattenSeq(ss) = f[Len(ss)]
    BY <1>2, FlattenSteps
  <2> DEFINE N == Len(ss)
             Has(n) == f[n] \in Seq(T) /\ \E pl : IsPlaces(pl, f[n], ss, n)
             Bad == {n \in 1 .. N : ~Has(n)}
  <2>2. N \in Nat \ {0} BY <1>2
  <2>3. Has(1)
    <3>1. ss[1] \in Seq(T) BY <2>2
    <3> DEFINE pl == [k \in DOMAIN ss[1] |-> <<1, k>>]
    <3>2. DOMAIN ss[1] = 1 .. Len(ss[1]) /\ Len(ss[1]) \in Nat BY <3>1
    <3>3. \A k \in DOMAIN ss[1] : pl[k] = <<1, k>> /\ pl[k][1] = 1 /\ pl[k][2] = k OBVIOUS
    <3> HIDE DEF pl
    <3>4. ASSUME NEW p \in DOMAIN ss[1], pl[p][2] > 1 PROVE p > 1 /\ pl[p - 1] = <<pl[p][1], pl[p][2] - 1>>
      <4>1. p > 1 /\ p - 1 \in DOMAIN ss[1] BY <3>2, <3>3, <3>4
      <4> QED BY <3>3, <4>1
    <3>5. ASSUME NEW p \in DOMAIN ss[1] PROVE pl[p] \in Nat \X Nat
      <4>1. p \in Nat /\ pl[p] = <<1, p>> BY <3>2, <3>3
      <4> QED BY <4>1
    <3>6. IsPlaces(pl, ss[1], ss, 1) BY <3>3, <3>4, <3>5 DEF IsPlaces
    <3> QED BY <3>1, <3>6, <2>1
  <2>4. ASSUME NEW n \in 1 .. N, n # N, Has(n) PROVE Has(n + 1)
    <3>1. f[n + 1] = f[n] \o ss[n + 1]
      <4>1. n + 1 \in 2 .. Len(ss) /\ (n + 1) - 1 = n BY <2>2, <2>4
      <4>2. f[n + 1] = f[(n + 1) - 1] \o ss[n + 1] BY <4>1, <2>1
      <4> QED BY <4>1, <4>2
    <3>2. n \in Nat /\ n + 1 <= Len(ss) BY <2>2, <2>4
    <3>3. PICK pl : IsPlaces(pl, f[n], ss, n) BY <2>4
    <3>4. PICK s : s = f[n] OBVIOUS
    <3>5. s \in Seq(T) BY <2>4, <3>4
    <3>6. s \o ss[n + 1] \in Seq(T) /\ \E q : IsPlaces(q, s \o ss[n + 1], ss, n + 1)
      BY <3>2, <3>3, <3>4, <3>5, OneMorePlace
    <3> QED BY <3>1, <3>4, <3>6
  <2>5. Has(N)
    <3> HIDE DEF Has
    <3> SUFFICES ASSUME ~Has(N) PROVE FALSE
      OBVIOUS
    <3>1. N \in Bad /\ Bad \in SUBSET Nat BY <2>2
    <3>2. PICK n \in Bad : \A m \in Bad : n <= m
      <4> HIDE DEF Bad
      <4> QED BY <3>1, Least
    <3>3. n \in 1 .. N /\ n # 1 /\ ~Has(n) BY <2>3
    <3>4. n - 1 \in 1 .. N /\ n - 1 # N /\ (n - 1) + 1 = n /\ n - 1 \notin Bad BY <2>2, <3>2, <3>3
    <3>5. Has(n - 1) BY <3>4
    <3>6. Has((n - 1) + 1) BY <2>4, <3>4, <3>5
    <3> QED BY <3>3, <3>4, <3>6
  <2> QED BY <2>1, <2>5
<1> QED BY <1>1, <1>2

\* The elements of FlattenSeq are those of its sequences.
LEMMA FlattenHas ==
  ASSUME NEW T, NEW ss \in Seq(Seq(T))
  PROVE  /\ FlattenSeq(ss) \in Seq(T)
         /\ \A x \in Range(FlattenSeq(ss)) : \E i \in DOMAIN ss : x \in Range(ss[i])
         /\ \A i \in DOMAIN ss : Range(ss[i]) \subseteq Range(FlattenSeq(ss))
<1>1. PICK pl : IsPlaces(pl, FlattenSeq(ss), ss, Len(ss)) BY FlattenPlaces
<1> DEFINE s == FlattenSeq(ss)
<1>2. s \in Seq(T) BY FlattenPlaces
<1>3. DOMAIN ss = 1 .. Len(ss) OBVIOUS
<1> HIDE DEF s
<1>4. IsPlaces(pl, s, ss, Len(ss)) BY <1>1 DEF s
<1>5. ASSUME NEW x \in Range(s) PROVE \E i \in DOMAIN ss : x \in Range(ss[i])
  <2>1. PICK p \in DOMAIN s : x = s[p] BY DEF Range
  <2>2. pl[p][1] \in 1 .. Len(ss) /\ pl[p][2] \in DOMAIN ss[pl[p][1]] /\ s[p] = ss[pl[p][1]][pl[p][2]] BY <1>4 DEF IsPlaces
  <2> QED BY <2>1, <2>2, <1>3 DEF Range
<1>6. ASSUME NEW i \in DOMAIN ss, NEW x \in Range(ss[i]) PROVE x \in Range(s)
  <2>1. PICK k \in DOMAIN ss[i] : x = ss[i][k] BY DEF Range
  <2>2. PICK p \in DOMAIN s : pl[p] = <<i, k>> BY <1>3, <1>4 DEF IsPlaces
  <2>3. s[p] = ss[pl[p][1]][pl[p][2]] BY <1>4 DEF IsPlaces
  <2>4. s[p] = ss[i][k] BY <2>2, <2>3
  <2> QED BY <2>1, <2>4 DEF Range
<1> QED BY <1>2, <1>5, <1>6 DEF s

\* A sequence that has no element twice.
Once(s) == \A p, q \in DOMAIN s : s[p] = s[q] => p = q

\* FlattenSeq has no element twice if no sequence has, and no two share one.
LEMMA FlattenOnce ==
  ASSUME NEW T, NEW ss \in Seq(Seq(T)), \A i \in DOMAIN ss : Once(ss[i]),
         \A i, j \in DOMAIN ss : i # j => Range(ss[i]) \cap Range(ss[j]) = {}
  PROVE  Once(FlattenSeq(ss))
<1> DEFINE s == FlattenSeq(ss)
<1>1. PICK pl : IsPlaces(pl, s, ss, Len(ss)) BY FlattenPlaces
<1>2. DOMAIN ss = 1 .. Len(ss) OBVIOUS
<1> HIDE DEF s
<1> SUFFICES ASSUME NEW p \in DOMAIN s, NEW q \in DOMAIN s, s[p] = s[q] PROVE p = q
  BY DEF Once, s
<1> DEFINE i == pl[p][1]
           j == pl[q][1]
           k == pl[p][2]
           h == pl[q][2]
<1>3. /\ i \in DOMAIN ss /\ k \in DOMAIN ss[i] /\ s[p] = ss[i][k]
      /\ j \in DOMAIN ss /\ h \in DOMAIN ss[j] /\ s[q] = ss[j][h]
      /\ pl[p] = <<i, k>> /\ pl[q] = <<j, h>>
  BY <1>1, <1>2 DEF IsPlaces
<1> HIDE DEF i, j, k, h
<1>4. s[p] \in Range(ss[i]) /\ s[q] \in Range(ss[j]) BY <1>3 DEF Range
<1>5. i = j BY <1>3, <1>4
<1>6. k = h BY <1>3, <1>5 DEF Once
<1>7. pl[p] = pl[q] BY <1>3, <1>5, <1>6
<1> QED BY <1>1, <1>7 DEF IsPlaces

\* The same of two sequences, one after the other.
LEMMA JoinHas ==
  ASSUME NEW T, NEW s \in Seq(T), NEW t \in Seq(T)
  PROVE  /\ s \o t \in Seq(T)
         /\ Range(s \o t) = Range(s) \cup Range(t)
         /\ Once(s) /\ Once(t) /\ Range(s) \cap Range(t) = {} => Once(s \o t)
<1>1. /\ Len(s) \in Nat /\ Len(t) \in Nat /\ DOMAIN s = 1 .. Len(s) /\ DOMAIN t = 1 .. Len(t)
      /\ s \o t \in Seq(T) /\ DOMAIN (s \o t) = 1 .. Len(s) + Len(t)
      /\ \A p \in DOMAIN s : (s \o t)[p] = s[p]
      /\ \A p \in DOMAIN (s \o t) \ DOMAIN s : p - Len(s) \in DOMAIN t /\ (s \o t)[p] = t[p - Len(s)]
  OBVIOUS
<1> DEFINE r == s \o t
<1>2. \A p \in DOMAIN s : r[p] = s[p] /\ p \in DOMAIN r BY <1>1
<1>3. \A p \in DOMAIN r \ DOMAIN s : p - Len(s) \in DOMAIN t /\ r[p] = t[p - Len(s)] BY <1>1
<1>4. \A k \in DOMAIN t : k + Len(s) \in DOMAIN r \ DOMAIN s /\ (k + Len(s)) - Len(s) = k BY <1>1
<1>5. \A p, q \in DOMAIN r : p - Len(s) = q - Len(s) => p = q BY <1>1
<1>6. r \in Seq(T) BY <1>1
<1> HIDE DEF r
<1>7. ASSUME NEW x \in Range(r) PROVE x \in Range(s) \cup Range(t)
  <2>1. PICK p \in DOMAIN r : x = r[p] BY DEF Range
  <2> QED BY <2>1, <1>2, <1>3 DEF Range
<1>8. ASSUME NEW x \in Range(s) \cup Range(t) PROVE x \in Range(r)
  <2>1. CASE x \in Range(s)
    <3>1. PICK p \in DOMAIN s : x = s[p] BY <2>1 DEF Range
    <3> QED BY <3>1, <1>2 DEF Range
  <2>2. CASE x \in Range(t)
    <3>1. PICK k \in DOMAIN t : x = t[k] BY <2>2 DEF Range
    <3>2. r[k + Len(s)] = t[k] /\ k + Len(s) \in DOMAIN r BY <1>3, <1>4
    <3> QED BY <3>1, <3>2 DEF Range
  <2> QED BY <2>1, <2>2
<1>9. ASSUME Once(s), Once(t), Range(s) \cap Range(t) = {}, NEW p \in DOMAIN r, NEW q \in DOMAIN r, r[p] = r[q]
      PROVE p = q
  <2>1. CASE p \in DOMAIN s /\ q \in DOMAIN s BY <2>1, <1>2, <1>9 DEF Once
  <2>2. CASE p \notin DOMAIN s /\ q \notin DOMAIN s
    <3>1. p - Len(s) = q - Len(s) BY <2>2, <1>3, <1>9 DEF Once
    <3> QED BY <3>1, <1>5
  <2>3. \A v \in DOMAIN s, w \in DOMAIN r \ DOMAIN s : r[v] # r[w]
    <3>1. \A v \in DOMAIN s : r[v] \in Range(s) BY <1>2 DEF Range
    <3>2. \A w \in DOMAIN r \ DOMAIN s : r[w] \in Range(t) BY <1>3 DEF Range
    <3> QED BY <3>1, <3>2, <1>9
  <2> QED BY <2>1, <2>2, <2>3, <1>9
<1> QED BY <1>6, <1>7, <1>8, <1>9 DEF r, Once

-----------------------------------------------------------------------------
(* The index table                                                          *)

\* What a sequence holds.
LEMMA Elements == ASSUME NEW S, NEW s \in Seq(S)
                  PROVE  DOMAIN s = 1 .. Len(s) /\ Len(s) \in Nat /\ \A i \in DOMAIN s : s[i] \in S
OBVIOUS

LEMMA Limits ==
  /\ PageSize \in Nat \ {0} /\ RlidxMax \in Nat \ {0} /\ NumSects \in Nat \ {0}
  /\ Groups = 1 .. Len(GroupPages) /\ Len(GroupPages) \in Nat
  /\ \A g \in Groups : /\ GroupPages[g].size \in Nat /\ GroupPages[g].total \in Nat
                       /\ GroupPages[g].size <= GroupPages[g].total
<1>1. Groups = 1 .. Len(GroupPages) /\ Len(GroupPages) \in Nat BY RelocAssumption DEF Groups
<1>2. \A g \in Groups : GroupPages[g] \in [size : Nat, total : Nat]
  BY RelocAssumption, Elements DEF Groups
<1> QED BY <1>1, <1>2, RelocAssumption DEF Groups

\* Of pages in parts of n: what is below part a, or in part a below b.
LEMMA Lexicographic ==
  ASSUME NEW n \in Nat \ {0}, NEW a \in Nat, NEW b \in 0 .. n - 1, NEW c \in Nat, NEW d \in 0 .. n - 1
  PROVE  /\ a * n + b \in Nat /\ c * n + d \in Nat
         /\ a * n + b < c * n + d <=> (a < c \/ (a = c /\ b < d))
<1>1. a * n \in Nat /\ c * n \in Nat OBVIOUS
<1>2. a < c => c * n >= a * n + n
  <2> SUFFICES ASSUME a < c PROVE c * n >= a * n + n
    OBVIOUS
  <2>1. c - a - 1 \in Nat /\ (c - a - 1) * n \in Nat OBVIOUS
  <2>2. (c - a - 1) * n = c * n - a * n - n OBVIOUS
  <2> QED BY <2>1, <2>2, <1>1
<1>3. c < a => a * n >= c * n + n
  <2> SUFFICES ASSUME c < a PROVE a * n >= c * n + n
    OBVIOUS
  <2>1. a - c - 1 \in Nat /\ (a - c - 1) * n \in Nat OBVIOUS
  <2>2. (a - c - 1) * n = a * n - c * n - n OBVIOUS
  <2> QED BY <2>1, <2>2, <1>1
<1> DEFINE x == a * n
           y == c * n
<1>4. x \in Nat /\ y \in Nat /\ (a < c => y >= x + n) /\ (c < a => x >= y + n) /\ (a = c => x = y)
  BY <1>1, <1>2, <1>3
<1> HIDE DEF x, y
<1>5. x + b \in Nat /\ y + d \in Nat /\ (x + b < y + d <=> (a < c \/ (a = c /\ b < d))) BY <1>4
<1> QED BY <1>5 DEF x, y

\* High and Low are the quotient and the remainder.
LEMMA HighLow ==
  ASSUME NEW p \in Nat
  PROVE  /\ High(p) \in Nat /\ Low(p) \in 0 .. RlidxMax - 1
         /\ High(p) * RlidxMax + Low(p) = p
<1> DEFINE n == RlidxMax
<1>1. n \in Nat \ {0} BY Limits
<1> HIDE DEF n
<1>2. p = n * (p \div n) + (p % n) /\ p % n \in 0 .. n - 1 /\ p \div n \in Int BY <1>1
<1>3. p \div n \in Nat BY <1>1
<1>4. n * (p \div n) = (p \div n) * n BY <1>1, <1>3
<1> QED BY <1>2, <1>3, <1>4 DEF n, High, Low

LEMMA HighLowOf ==
  ASSUME NEW a \in Nat, NEW b \in 0 .. RlidxMax - 1
  PROVE  a * RlidxMax + b \in Nat /\ High(a * RlidxMax + b) = a /\ Low(a * RlidxMax + b) = b
<1> DEFINE p == a * RlidxMax + b
<1>1. p \in Nat BY Limits, Lexicographic
<1> HIDE DEF p
<1>2. High(p) \in Nat /\ Low(p) \in 0 .. RlidxMax - 1 /\ High(p) * RlidxMax + Low(p) = p BY <1>1, HighLow
<1>3. ~(p < p) BY <1>1
<1>4. ~(High(p) * RlidxMax + Low(p) < a * RlidxMax + b) /\ ~(a * RlidxMax + b < High(p) * RlidxMax + Low(p))
  BY <1>2, <1>3 DEF p
<1> DEFINE c == High(p)
           d == Low(p)
<1>5. c \in Nat /\ d \in 0 .. RlidxMax - 1 BY <1>2
<1>6. ~(c * RlidxMax + d < a * RlidxMax + b) /\ ~(a * RlidxMax + b < c * RlidxMax + d) BY <1>4
<1> HIDE DEF c, d
<1>7. ~(c < a \/ (c = a /\ d < b)) BY <1>5, <1>6, Limits, Lexicographic
<1>8. ~(a < c \/ (a = c /\ b < d)) BY <1>5, <1>6, Limits, Lexicographic
<1>9. RlidxMax \in Nat BY Limits
<1>10. c = a BY <1>5, <1>7, <1>8
<1>11. d = b BY <1>5, <1>7, <1>8, <1>9, <1>10
<1> QED BY <1>1, <1>10, <1>11 DEF c, d, p

\* The lists of a page.
Kinds == IF fmt = "flat" THEN {"ext", "int"} ELSE {"ext"}
PageHeads == {<<"page", g, c, s, k>> : g \in Groups, c \in Nat, s \in Nat, k \in {"ext", "int"}}

\* The lists of n pages of a part, and of the first n pages of a group.
PartHeads(g, c, n) == {<<"page", g, c, s, k>> : s \in 1 .. n, k \in Kinds}
FirstHeads(g, n) == {Header(g, p, k) : p \in 0 .. n - 1, k \in Kinds}

LEMMA PartListsAre ==
  ASSUME NEW g \in Groups, NEW c \in Nat, NEW n \in Nat
  PROVE  /\ PartLists(g, c, n) \in Seq(PageHeads) /\ Once(PartLists(g, c, n))
         /\ Range(PartLists(g, c, n)) = PartHeads(g, c, n)
<1> DEFINE Of(s) == IF fmt = "flat" THEN <<<<"page", g, c, s, "ext">>, <<"page", g, c, s, "int">>>>
                    ELSE <<<<"page", g, c, s, "ext">>>>
           ss == [s \in 1 .. n |-> Of(s)]
<1>1. \A s \in Nat : <<"page", g, c, s, "ext">> \in PageHeads /\ <<"page", g, c, s, "int">> \in PageHeads
  BY DEF PageHeads
<1>2. ASSUME NEW s \in Nat
      PROVE  Of(s) \in Seq(PageHeads) /\ Once(Of(s)) /\ Range(Of(s)) = {<<"page", g, c, s, k>> : k \in Kinds}
  <2> DEFINE e == <<"page", g, c, s, "ext">>
             i == <<"page", g, c, s, "int">>
  <2>1. e \in PageHeads /\ i \in PageHeads /\ e # i BY <1>1
  <2>2. CASE fmt = "flat"
    <3>1. Of(s) = <<e, i>> /\ {<<"page", g, c, s, k>> : k \in Kinds} = {e, i} BY <2>2 DEF Kinds
    <3> HIDE DEF e, i, Of
    <3>2. <<e, i>> \in Seq(PageHeads) /\ Once(<<e, i>>) /\ Range(<<e, i>>) = {e, i} BY <2>1 DEF Once, Range
    <3> QED BY <3>1, <3>2
  <2>3. CASE fmt # "flat"
    <3>1. Of(s) = <<e>> /\ {<<"page", g, c, s, k>> : k \in Kinds} = {e} BY <2>3 DEF Kinds
    <3> HIDE DEF e, i, Of
    <3>2. <<e>> \in Seq(PageHeads) /\ Once(<<e>>) /\ Range(<<e>>) = {e} BY <2>1 DEF Once, Range
    <3> QED BY <3>1, <3>2
  <2> QED BY <2>2, <2>3
<1>3. PartLists(g, c, n) = FlattenSeq(ss) BY DEF PartLists
<1> HIDE DEF Of
<1>4. ss \in Seq(Seq(PageHeads)) /\ DOMAIN ss = 1 .. n /\ \A s \in 1 .. n : ss[s] = Of(s) BY <1>2
<1> HIDE DEF ss
<1>5. \A s \in 1 .. n : s \in Nat OBVIOUS
<1>6. \A s, t \in DOMAIN ss : s # t => Range(ss[s]) \cap Range(ss[t]) = {}
  <2> SUFFICES ASSUME NEW s \in 1 .. n, NEW t \in 1 .. n, NEW x, x \in Range(Of(s)), x \in Range(Of(t)) PROVE s = t
    BY <1>4
  <2>1. PICK k : x = <<"page", g, c, s, k>> BY <1>2, <1>5
  <2>2. PICK h : x = <<"page", g, c, t, h>> BY <1>2, <1>5
  <2> QED BY <2>1, <2>2
<1>7. \A s \in DOMAIN ss : Once(ss[s]) BY <1>2, <1>4, <1>5
<1>8. FlattenSeq(ss) \in Seq(PageHeads) /\ Once(FlattenSeq(ss)) BY <1>4, <1>6, <1>7, FlattenHas, FlattenOnce
<1>9. ASSUME NEW x \in Range(FlattenSeq(ss)) PROVE \E s \in 1 .. n, k \in Kinds : x = <<"page", g, c, s, k>>
  <2>1. PICK s \in DOMAIN ss : x \in Range(ss[s]) BY <1>4, FlattenHas
  <2> QED BY <2>1, <1>2, <1>4, <1>5
<1>10. ASSUME NEW s \in 1 .. n, NEW k \in Kinds PROVE <<"page", g, c, s, k>> \in Range(FlattenSeq(ss))
  <2>1. Range(ss[s]) \subseteq Range(FlattenSeq(ss)) BY <1>4, FlattenHas
  <2>2. <<"page", g, c, s, k>> \in Range(ss[s]) BY <1>2, <1>4, <1>5
  <2> QED BY <2>1, <2>2
<1> QED BY <1>3, <1>8, <1>9, <1>10 DEF PartHeads

\* The lists of the first n pages of a group.
LEMMA PageListsAre ==
  ASSUME NEW g \in Groups, NEW n \in Nat
  PROVE  /\ PageLists(g, n) \in Seq(PageHeads) /\ Once(PageLists(g, n))
         /\ Range(PageLists(g, n)) = FirstHeads(g, n)
<1> DEFINE R == RlidxMax
           H == High(n)
           L == Low(n)
           ss == [c \in 1 .. H |-> PartLists(g, c, R)]
           s == FlattenSeq(ss)
           t == PartLists(g, H + 1, L)
<1>1. H \in Nat /\ L \in 0 .. R - 1 /\ H * R + L = n BY HighLow
<1>2. R \in Nat \ {0} BY Limits
<1>3. PageLists(g, n) = s \o t BY DEF PageLists
<1>4. L \in Nat /\ H + 1 \in Nat BY <1>1, <1>2
<1> HIDE DEF R, H, L
<1>5. t \in Seq(PageHeads) /\ Once(t) /\ Range(t) = PartHeads(g, H + 1, L)
  BY <1>4, PartListsAre
<1>6. ASSUME NEW c \in 1 .. H
      PROVE  /\ ss[c] \in Seq(PageHeads) /\ Once(ss[c])
             /\ Range(ss[c]) = PartHeads(g, c, R)
  <2>1. c \in Nat /\ R \in Nat BY <1>1, <1>2
  <2>2. ss[c] = PartLists(g, c, R) BY DEF R
  <2> HIDE DEF ss
  <2> QED BY <2>1, <2>2, PartListsAre
<1>7. DOMAIN ss = 1 .. H OBVIOUS
<1>8. ss \in Seq(Seq(PageHeads))
  <2>1. ss = [c \in 1 .. H |-> ss[c]] OBVIOUS
  <2> HIDE DEF ss
  <2> QED BY <1>1, <1>6, <2>1
<1> HIDE DEF ss, t
<1>9. \A c, d \in DOMAIN ss : c # d => Range(ss[c]) \cap Range(ss[d]) = {}
  <2> SUFFICES ASSUME NEW c \in 1 .. H, NEW d \in 1 .. H, NEW x, x \in Range(ss[c]), x \in Range(ss[d]) PROVE c = d
    BY <1>7
  <2>1. PICK i, k : x = <<"page", g, c, i, k>> BY <1>6 DEF PartHeads
  <2>2. PICK j, h : x = <<"page", g, d, j, h>> BY <1>6 DEF PartHeads
  <2> QED BY <2>1, <2>2
<1>10. /\ s \in Seq(PageHeads) /\ Once(s)
       /\ \A x \in Range(s) : \E c \in DOMAIN ss : x \in Range(ss[c])
       /\ \A c \in DOMAIN ss : Range(ss[c]) \subseteq Range(s)
  BY <1>6, <1>7, <1>8, <1>9, FlattenHas, FlattenOnce
<1> HIDE DEF s
<1>11. Range(s) \cap Range(t) = {}
  <2> SUFFICES ASSUME NEW x, x \in Range(s), x \in Range(t) PROVE FALSE
    OBVIOUS
  <2>1. PICK c \in 1 .. H : x \in Range(ss[c]) BY <1>7, <1>10
  <2>2. PICK i, k : x = <<"page", g, c, i, k>> BY <1>6, <2>1 DEF PartHeads
  <2>3. PICK j, h : x = <<"page", g, H + 1, j, h>> BY <1>5 DEF PartHeads
  <2>4. c = H + 1 BY <2>2, <2>3
  <2> QED BY <2>4, <1>1
<1>12. s \o t \in Seq(PageHeads) /\ Once(s \o t) /\ Range(s \o t) = Range(s) \cup Range(t)
  BY <1>5, <1>10, <1>11, JoinHas
<1>13. ASSUME NEW x \in Range(s) \cup Range(t) PROVE \E p \in 0 .. n - 1, k \in Kinds : x = Header(g, p, k)
  <2>1. \E c \in Nat, i \in 1 .. R, k \in Kinds :
          x = <<"page", g, c + 1, i, k>> /\ (c < H \/ (c = H /\ i - 1 < L))
    <3>1. CASE x \in Range(s)
      <4>1. PICK c \in 1 .. H : x \in Range(ss[c]) BY <3>1, <1>7, <1>10
      <4>2. PICK i \in 1 .. R, k \in Kinds : x = <<"page", g, c, i, k>> BY <1>6, <4>1 DEF PartHeads
      <4>3. c - 1 \in Nat /\ (c - 1) + 1 = c /\ c - 1 < H BY <1>1
      <4> QED BY <4>2, <4>3
    <3>2. CASE x \in Range(t)
      <4>1. PICK i \in 1 .. L, k \in Kinds : x = <<"page", g, H + 1, i, k>> BY <1>5, <3>2 DEF PartHeads
      <4>2. i \in 1 .. R /\ i - 1 < L BY <1>1, <1>2
      <4> QED BY <4>1, <4>2, <1>1
    <3> QED BY <3>1, <3>2
  <2>2. PICK c \in Nat, i \in 1 .. R, k \in Kinds :
          x = <<"page", g, c + 1, i, k>> /\ (c < H \/ (c = H /\ i - 1 < L))
    BY <2>1
  <2>3. i - 1 \in 0 .. R - 1 /\ (i - 1) + 1 = i BY <1>2
  <2> DEFINE p == c * R + (i - 1)
  <2>4. p \in Nat /\ High(p) = c /\ Low(p) = i - 1 BY <2>3, HighLowOf DEF R
  <2>5. p < n BY <1>1, <1>2, <2>2, <2>3, Lexicographic
  <2> HIDE DEF p
  <2>6. p \in 0 .. n - 1 BY <2>4, <2>5
  <2>7. x = Header(g, p, k) BY <2>2, <2>3, <2>4 DEF Header
  <2> QED BY <2>6, <2>7
<1>14. ASSUME NEW p \in 0 .. n - 1, NEW k \in Kinds PROVE Header(g, p, k) \in Range(s) \cup Range(t)
  <2> DEFINE c == High(p)
             d == Low(p)
  <2>1. p \in Nat /\ p < n OBVIOUS
  <2>2. c \in Nat /\ d \in 0 .. R - 1 /\ c * R + d = p BY <2>1, HighLow DEF R
  <2>3. Header(g, p, k) = <<"page", g, c + 1, d + 1, k>> BY DEF Header
  <2> HIDE DEF c, d
  <2>4. c * R + d < H * R + L BY <1>1, <2>1, <2>2
  <2>5. c < H \/ (c = H /\ d < L) BY <1>1, <1>2, <2>2, <2>4, Lexicographic
  <2>6. CASE c < H
    <3>1. c + 1 \in 1 .. H /\ d + 1 \in 1 .. R BY <2>2, <2>6, <1>1, <1>2
    <3>2. <<"page", g, c + 1, d + 1, k>> \in Range(ss[c + 1]) BY <3>1, <1>6 DEF PartHeads
    <3> QED BY <3>1, <3>2, <2>3, <1>7, <1>10
  <2>7. CASE c = H /\ d < L
    <3>1. d + 1 \in 1 .. L BY <2>2, <2>7, <1>4
    <3> QED BY <3>1, <2>3, <2>7, <1>5 DEF PartHeads
  <2> QED BY <2>5, <2>6, <2>7
<1> QED BY <1>3, <1>12, <1>13, <1>14 DEF FirstHeads

-----------------------------------------------------------------------------
(* Lists                                                                    *)

\* What the loops over the lists of a group go through.
LEMMA TraverseAre ==
  ASSUME NEW g \in Groups
  PROVE  /\ TraverseOS2RelocList(g) \in Seq(PageHeads) /\ Once(TraverseOS2RelocList(g))
         /\ Range(TraverseOS2RelocList(g)) = IF table[g] = << >> THEN {} ELSE FirstHeads(g, GroupPages[g].total)
<1>1. << >> \in Seq(PageHeads) /\ Once(<< >>) /\ Range(<< >>) = {} BY DEF Once, Range
<1>2. GroupPages[g].total \in Nat BY Limits
<1> QED BY <1>1, <1>2, PageListsAre DEF TraverseOS2RelocList

\* The lists of all groups, one group after the other.
LEMMA GroupwiseAre ==
  ASSUME NEW F, F \in [Groups -> Seq(PageHeads)], \A g \in Groups : Once(F[g]),
         \A g \in Groups : \A l \in Range(F[g]) : l[2] = g
  PROVE  /\ FlattenSeq(F) \in Seq(PageHeads) /\ Once(FlattenSeq(F))
         /\ \A l \in Range(FlattenSeq(F)) : \E g \in Groups : l \in Range(F[g])
         /\ \A g \in Groups : Range(F[g]) \subseteq Range(FlattenSeq(F))
<1>1. F \in Seq(Seq(PageHeads)) /\ DOMAIN F = Groups BY Limits
<1>2. \A g, h \in DOMAIN F : g # h => Range(F[g]) \cap Range(F[h]) = {} BY <1>1
<1>3. \A g \in DOMAIN F : Once(F[g]) BY <1>1
<1> QED BY <1>1, <1>2, <1>3, FlattenHas, FlattenOnce

LEMMA HeadOf == ASSUME NEW g \in Groups, NEW n \in Nat, NEW l \in FirstHeads(g, n) PROVE l \in PageHeads /\ l[2] = g
<1>1. PICK p \in 0 .. n - 1, k \in Kinds : l = Header(g, p, k) BY DEF FirstHeads
<1>2. High(p) + 1 \in Nat /\ Low(p) + 1 \in Nat
  <2>1. p \in Nat BY <1>1
  <2>2. High(p) \in Nat /\ Low(p) \in 0 .. RlidxMax - 1 BY <2>1, HighLow
  <2>3. Low(p) \in Nat BY <2>2, Limits
  <2> QED BY <2>2, <2>3
<1>3. k \in {"ext", "int"} BY DEF Kinds
<1> QED BY <1>1, <1>2, <1>3 DEF Header, PageHeads

\* The first pages are among all pages.
LEMMA MoreHeads == ASSUME NEW g \in Groups, NEW n \in Nat, NEW m \in Nat, n <= m PROVE FirstHeads(g, n) \subseteq FirstHeads(g, m)
BY DEF FirstHeads

AllTraversed == FlattenSeq([g \in Groups |-> TraverseOS2RelocList(g)])

LEMMA AllTraversedAre ==
  /\ AllTraversed \in Seq(PageHeads) /\ Once(AllTraversed)
  /\ \A l \in Range(AllTraversed) : \E g \in Groups : table[g] # << >> /\ l \in FirstHeads(g, GroupPages[g].total)
  /\ \A g \in Groups : table[g] # << >> => FirstHeads(g, GroupPages[g].total) \subseteq Range(AllTraversed)
<1> DEFINE F == [g \in Groups |-> TraverseOS2RelocList(g)]
<1>1. \A g \in Groups : F[g] = TraverseOS2RelocList(g) OBVIOUS
<1>2. F \in [Groups -> Seq(PageHeads)] BY TraverseAre
<1>3. AllTraversed = FlattenSeq(F) BY DEF AllTraversed
<1> HIDE DEF F
<1>4. \A g \in Groups : Once(F[g]) BY <1>1, TraverseAre
<1>5. \A g \in Groups : Range(F[g]) = IF table[g] = << >> THEN {} ELSE FirstHeads(g, GroupPages[g].total)
  BY <1>1, TraverseAre
<1>6. \A g \in Groups : \A l \in Range(F[g]) : l[2] = g
  <2>1. \A g \in Groups : GroupPages[g].total \in Nat BY Limits
  <2> QED BY <1>5, <2>1, HeadOf
<1>7. /\ FlattenSeq(F) \in Seq(PageHeads) /\ Once(FlattenSeq(F))
      /\ \A l \in Range(FlattenSeq(F)) : \E g \in Groups : l \in Range(F[g])
      /\ \A g \in Groups : Range(F[g]) \subseteq Range(FlattenSeq(F))
  BY <1>2, <1>4, <1>6, GroupwiseAre
<1> QED BY <1>3, <1>5, <1>7

\* Which lists there are.
LEMMA ListsAre ==
  /\ Paged => \A g \in Groups : FirstHeads(g, GroupPages[g].total) \subseteq Lists
  /\ ~Paged => \A g \in Groups : <<"group", g>> \in Lists
  /\ \A s \in 1 .. NumSects : <<"sect", s>> \in Lists
  /\ FloatFixups \in Lists
<1>1. \A s \in 1 .. NumSects : <<"sect", s>> \in ToSet(SectLists) BY DEF ToSet, SectLists
<1>2. \A g \in Groups : <<"group", g>> \in ToSet(GroupLists) BY DEF ToSet, GroupLists
<1>3. \A g \in Groups : FirstHeads(g, GroupPages[g].total) \subseteq ToSet(FlattenSeq([h \in Groups |-> PageLists(h, GroupPages[h].total)]))
  <2> DEFINE F == [h \in Groups |-> PageLists(h, GroupPages[h].total)]
  <2>1. \A g \in Groups : GroupPages[g].total \in Nat BY Limits
  <2>2. F \in [Groups -> Seq(PageHeads)] BY <2>1, PageListsAre
  <2>3. \A g \in Groups : F[g] = PageLists(g, GroupPages[g].total) OBVIOUS
  <2> HIDE DEF F
  <2>4. \A g \in Groups : Once(F[g]) /\ Range(F[g]) = FirstHeads(g, GroupPages[g].total) BY <2>1, <2>3, PageListsAre
  <2>5. \A g \in Groups : \A l \in Range(F[g]) : l[2] = g BY <2>1, <2>4, HeadOf
  <2>6. \A g \in Groups : Range(F[g]) \subseteq Range(FlattenSeq(F)) BY <2>2, <2>4, <2>5, GroupwiseAre
  <2>7. Range(FlattenSeq(F)) = ToSet(FlattenSeq(F)) BY DEF Range, ToSet
  <2> QED BY <2>4, <2>6, <2>7 DEF F
<1> QED BY <1>1, <1>2, <1>3 DEF Lists

\* What a list that gets relocations is.
LEMMA TargetIs ==
  ASSUME NEW l \in Targets
  PROVE  /\ l \in Lists
         /\ Paged => \E g \in Groups : l[2] = g /\ l \in FirstHeads(g, GroupPages[g].size)
         /\ fmt \in {"os2", "elf"} => \E g \in Groups : l = <<"group", g>>
         /\ fmt = "qnx" => l = FloatFixups \/ l = <<"sect", 1>> \/ \E g \in Groups : l = <<"group", g>>
         /\ fmt \notin {"flat", "pe", "os2", "elf", "qnx"} => \E s \in 1 .. NumSects : l = <<"sect", s>>
<1>1. CASE Paged
  <2>1. PICK g \in Groups : l \in FirstHeads(g, GroupPages[g].size)
    <3>1. CASE fmt = "flat" BY <3>1 DEF Targets, FirstHeads, Kinds
    <3>2. CASE fmt = "pe" BY <3>2 DEF Targets, FirstHeads, Kinds
    <3> QED BY <1>1, <3>1, <3>2 DEF Paged
  <2>2. GroupPages[g].size \in Nat /\ GroupPages[g].total \in Nat /\ GroupPages[g].size <= GroupPages[g].total BY Limits
  <2>3. l[2] = g BY <2>1, <2>2, HeadOf
  <2>4. l \in FirstHeads(g, GroupPages[g].total) BY <2>1, <2>2, MoreHeads
  <2>5. l \in Lists BY <1>1, <2>4, ListsAre
  <2> QED BY <1>1, <2>1, <2>3, <2>5 DEF Paged
<1>2. CASE ~Paged
  <2>1. \A x \in Range(GroupLists) : \E g \in Groups : x = <<"group", g>> BY DEF Range, GroupLists
  <2>2. \A x \in Range(SectLists) : \E s \in 1 .. NumSects : x = <<"sect", s>> BY DEF Range, SectLists
  <2>3. 1 \in 1 .. NumSects /\ SectLists[1] = <<"sect", 1>> BY Limits DEF SectLists
  <2>4. CASE fmt \in {"os2", "elf"}
    <3>1. l \in Range(GroupLists) BY <2>4 DEF Targets
    <3> QED BY <1>2, <2>1, <2>4, <3>1, ListsAre
  <2>5. CASE fmt = "qnx"
    <3>1. l \in Range(GroupLists) \/ l = FloatFixups \/ l = <<"sect", 1>> BY <2>3, <2>5 DEF Targets
    <3> QED BY <1>2, <2>1, <2>3, <2>5, <3>1, ListsAre
  <2>6. CASE fmt \notin {"flat", "pe", "os2", "elf", "qnx"}
    <3>1. l \in Range(SectLists) BY <2>6 DEF Targets
    <3> QED BY <1>2, <2>2, <2>6, <3>1, ListsAre
  <2> QED BY <1>2, <2>4, <2>5, <2>6 DEF Paged
<1> QED BY <1>1, <1>2

\* SwapOutRelocs looks at every list that gets relocations, once its group has a
\* table, and for all formats but ELF.
LEMMA SwapReaches ==
  ASSUME NEW l \in Targets, Paged => table[l[2]] # << >>, fmt # "elf"
  PROVE  l \in Range(SwapOrder)
<1>1. CASE Paged
  <2>1. PICK g \in Groups : l[2] = g /\ l \in FirstHeads(g, GroupPages[g].size) BY <1>1, TargetIs
  <2>2. GroupPages[g].size \in Nat /\ GroupPages[g].total \in Nat /\ GroupPages[g].size <= GroupPages[g].total BY Limits
  <2>3. l \in FirstHeads(g, GroupPages[g].total) BY <2>1, <2>2, MoreHeads
  <2>4. l \in Range(AllTraversed) BY <1>1, <2>1, <2>3, AllTraversedAre
  <2>5. SwapOrder = AllTraversed BY <1>1 DEF SwapOrder, AllTraversed, Paged
  <2> QED BY <2>4, <2>5
<1>2. CASE fmt = "os2"
  <2>1. PICK g \in Groups : l = <<"group", g>> BY <1>2, TargetIs
  <2>2. l \in Range(GroupLists) BY <2>1 DEF Range, GroupLists
  <2>3. SwapOrder = GroupLists BY <1>2 DEF SwapOrder, Paged
  <2> QED BY <2>2, <2>3
<1>3. CASE fmt = "qnx"
  <2> DEFINE T == {FloatFixups, SectLists[1]} \cup {<<"group", g>> : g \in Groups}
             tail == <<FloatFixups, SectLists[1]>>
  <2>1. SectLists[1] = <<"sect", 1>> BY Limits DEF SectLists
  <2>2. GroupLists \in Seq(T) /\ tail \in Seq(T)
    <3>1. GroupLists \in [1 .. Len(GroupPages) -> T] BY Limits DEF GroupLists
    <3> HIDE DEF T
    <3>2. GroupLists \in Seq(T) BY <3>1, Limits
    <3>3. FloatFixups \in T /\ SectLists[1] \in T BY DEF T
    <3> QED BY <3>2, <3>3
  <2>3. \A g \in Groups : <<"group", g>> \in Range(GroupLists) BY DEF Range, GroupLists
  <2>4. FloatFixups \in Range(tail) /\ SectLists[1] \in Range(tail) BY DEF Range
  <2> HIDE DEF T, tail
  <2>5. Range(GroupLists \o tail) = Range(GroupLists) \cup Range(tail) BY <2>2, JoinHas
  <2>6. SwapOrder = GroupLists \o tail BY <1>3 DEF SwapOrder, Paged, tail
  <2>7. l = FloatFixups \/ l = SectLists[1] \/ \E g \in Groups : l = <<"group", g>> BY <1>3, <2>1, TargetIs
  <2> QED BY <2>3, <2>4, <2>5, <2>6, <2>7
<1>4. CASE fmt \notin {"flat", "pe", "os2", "elf", "qnx"}
  <2>1. PICK s \in 1 .. NumSects : l = <<"sect", s>> BY <1>4, TargetIs
  <2>2. l \in Range(SectLists) BY <2>1 DEF Range, SectLists
  <2>3. SwapOrder = SectLists BY <1>4 DEF SwapOrder, Paged
  <2> QED BY <2>2, <2>3
<1> QED BY <1>1, <1>2, <1>3, <1>4 DEF Paged

-----------------------------------------------------------------------------
(* The invariant                                                            *)

Cell == Nat \X Nat
Area == [1 .. PageSize -> Cell \cup {Unset}]
BlockOK(b) ==
  /\ b.spilled => b.loc \in DOMAIN disk
  /\ ~b.spilled => b.loc \in Heap /\ ram[b.loc] \in Area
Shape ==
  /\ fmt \in Formats /\ phase \in {"pass2", "load", "clean", "done"} /\ linkError \in BOOLEAN
  /\ lists \in [Lists -> Seq(Block)] /\ \A l \in Lists : \A k \in DOMAIN lists[l] : BlockOK(lists[l][k])
  /\ table \in [Groups -> Seq(Nat)] /\ \A g \in Groups : Len(table[g]) \in {0, Len(Parts(g))}
  /\ Heap \in SUBSET Nat /\ IsFiniteSet(Heap) /\ disk \in Seq(Area) /\ count \in Nat
  /\ op = NoOp \/ op \in [kind : {"alloc"}, list : Targets, size : 1 .. PageSize, parts : Seq(Nat)]

\* Only the lists of the format get blocks, those of a group with an index table
\* when it is complete; the parts of a table are allocated before anything else.
Placed ==
  /\ \A l \in Lists : lists[l] # << >> => l \in Targets /\ (Paged => table[l[2]] # << >>)
  /\ ~Paged => \A g \in Groups : table[g] = << >>
  /\ op # NoOp /\ ~NeedsTable(op.list) => op.parts = << >>

\* Everything on the heap belongs to one block of one list, or is a part of one
\* table, or of the table that is being allocated.
HeapIn(blocks) == {blocks[k].loc : k \in {k \in DOMAIN blocks : ~blocks[k].spilled}}
HeapOnce(blocks) ==
  \A j, k \in DOMAIN blocks : ~blocks[j].spilled /\ ~blocks[k].spilled /\ blocks[j].loc = blocks[k].loc => j = k
Blocks == UNION {HeapIn(lists[l]) : l \in Lists}
Tables == UNION {Range(table[g]) : g \in Groups}
Pending == IF op = NoOp THEN << >> ELSE op.parts
Owned ==
  /\ \A l \in Lists : HeapOnce(lists[l])
  /\ \A l, m \in Lists : l # m => HeapIn(lists[l]) \cap HeapIn(lists[m]) = {}
  /\ \A l \in Lists : HeapIn(lists[l]) \cap (Tables \cup Range(Pending)) = {}
  /\ \A g \in Groups : Once(table[g])
  /\ \A g, h \in Groups : g # h => Range(table[g]) \cap Range(table[h]) = {}
  /\ Once(Pending) /\ Tables \cap Range(Pending) = {}
  /\ Heap = Blocks \cup Tables \cup Range(Pending)

IInv == Shape /\ Placed /\ Owned /\ FreedOnce

\* Cells put into an area.
LEMMA AtOK ==
  ASSUME NEW cells \in Area, NEW offset \in Nat, NEW c \in Seq(Cell \cup {Unset})
  PROVE  At(cells, offset, c) \in Area
<1>1. DOMAIN cells = 1 .. PageSize /\ \A i \in 1 .. PageSize : cells[i] \in Cell \cup {Unset} BY DEF Area
<1>2. \A i \in 1 .. PageSize : i > offset /\ i <= offset + Len(c) => c[i - offset] \in Cell \cup {Unset}
  <2> SUFFICES ASSUME NEW i \in 1 .. PageSize, i > offset, i <= offset + Len(c) PROVE c[i - offset] \in Cell \cup {Unset}
    OBVIOUS
  <2>1. i - offset \in 1 .. Len(c) /\ Len(c) \in Nat BY Limits
  <2> QED BY <2>1, Elements
<1> HIDE DEF Cell
<1> QED BY <1>1, <1>2 DEF At, Area

LEMMA ClearedOK == Cleared \in Area
BY DEF Cleared, Area

LEMMA CellsOK == ASSUME count \in Nat, NEW n \in Nat PROVE Cells(n) \in Seq(Cell) /\ Cells(n) \in Seq(Cell \cup {Unset}) /\ Len(Cells(n)) = n
<1>1. \A i \in 1 .. n : <<count + 1, i>> \in Cell BY DEF Cell
<1> HIDE DEF Cell
<1> QED BY <1>1 DEF Cells

\* The cells of a block.
LEMMA ContentOK ==
  ASSUME NEW b \in Block, BlockOK(b), disk \in Seq(Area)
  PROVE  Content(b) \in Seq(Cell \cup {Unset}) /\ Len(Content(b)) = Used(b) /\ Used(b) \in 0 .. PageSize
<1> DEFINE a == IF b.spilled THEN disk[b.loc] ELSE ram[b.loc]
<1>1. a \in Area BY Elements DEF BlockOK, Block
<1>2. Used(b) \in 0 .. PageSize BY Limits DEF Used, Block
<1>3. Content(b) = SubSeq(a, 1, Used(b)) BY DEF Content
<1> HIDE DEF a, Cell
<1>4. a \in Seq(Cell \cup {Unset}) /\ Len(a) = PageSize BY <1>1, Limits DEF Area
<1> QED BY <1>2, <1>3, <1>4, Limits

\* There is always an address the heap does not use.
LEMMA NewAddrIsNew == ASSUME Heap \in SUBSET Nat, IsFiniteSet(Heap) PROVE NewAddr \in Nat /\ NewAddr \notin Heap
<1> DEFINE n == Cardinality(Heap)
<1>1. n \in Nat BY FS_CardinalityType
<1> HIDE DEF n
<1>2. \E a \in 1 .. n + 1 : a \notin Heap
  <2> SUFFICES ASSUME 1 .. n + 1 \subseteq Heap PROVE FALSE
    OBVIOUS
  <2>1. Cardinality(1 .. n + 1) <= Cardinality(Heap) BY FS_Subset
  <2>2. Cardinality(1 .. n + 1) = n + 1 BY <1>1, FS_Interval
  <2> QED BY <1>1, <2>1, <2>2 DEF n
<1> QED BY <1>1, <1>2 DEF NewAddr, n

\* Init
LEMMA InitOK == Init => IInv
<1> SUFFICES ASSUME Init PROVE IInv
  OBVIOUS
<1>1. lists = [l \in Lists |-> << >>] /\ table = [g \in Groups |-> << >>] /\ DOMAIN ram = {} /\ op = NoOp /\ phase = "pass2"
  BY DEF Init
<1>2. \A l \in Lists : lists[l] = << >> BY <1>1
<1>3. \A g \in Groups : table[g] = << >> BY <1>1
<1>4. Pending = << >> BY <1>1 DEF Pending
<1>5. Shape
  <2>1. lists \in [Lists -> Seq(Block)] BY <1>1
  <2>2. table \in [Groups -> Seq(Nat)] BY <1>1
  <2>3. \A l \in Lists : \A k \in DOMAIN lists[l] : BlockOK(lists[l][k]) BY <1>2
  <2>4. \A g \in Groups : Len(table[g]) = 0 BY <1>3
  <2>5. Heap = {} /\ IsFiniteSet({}) BY <1>1, FS_EmptySet DEF Heap
  <2>6. disk \in Seq(Area) /\ count \in Nat /\ fmt \in Formats /\ linkError = FALSE BY DEF Init
  <2> QED BY <1>1, <2>1, <2>2, <2>3, <2>4, <2>5, <2>6 DEF Shape
<1>6. Placed BY <1>1, <1>2, <1>3 DEF Placed
<1>7. Owned
  <2>1. \A l \in Lists : HeapIn(lists[l]) = {} /\ HeapOnce(lists[l]) BY <1>2 DEF HeapIn, HeapOnce
  <2>2. \A g \in Groups : Range(table[g]) = {} /\ Once(table[g]) BY <1>3 DEF Range, Once
  <2>3. Range(Pending) = {} /\ Once(Pending) BY <1>4 DEF Range, Once
  <2>4. Tables = {} /\ Blocks = {} BY <2>1, <2>2 DEF Tables, Blocks
  <2>5. Heap = {} BY <1>1 DEF Heap
  <2> QED BY <2>1, <2>2, <2>3, <2>4, <2>5 DEF Owned
<1>8. FreedOnce BY <1>1 DEF FreedOnce
<1> QED BY <1>5, <1>6, <1>7, <1>8 DEF IInv

\* The places in memory of the blocks of a list that only become fuller.
SameBlocks(new, old) ==
  /\ new \in Seq(Block) /\ Len(new) = Len(old)
  /\ \A k \in 1 .. Len(old) : new[k].spilled = old[k].spilled /\ new[k].loc = old[k].loc

LEMMA SameHeap ==
  ASSUME NEW new, NEW old \in Seq(Block), SameBlocks(new, old)
  PROVE  HeapIn(new) = HeapIn(old) /\ (HeapOnce(old) => HeapOnce(new))
BY DEF SameBlocks, HeapIn, HeapOnce

\* One list gets other blocks, and the heap what is theirs instead of what was.
LEMMA ListOwned ==
  ASSUME Owned, NEW l \in Lists, NEW new, lists' = [lists EXCEPT ![l] = new], lists \in [Lists -> Seq(Block)],
         fmt' = fmt, table' = table, Pending' = Pending,
         HeapOnce(new), HeapIn(new) \cap (Heap \ HeapIn(lists[l])) = {},
         Heap' = (Heap \ HeapIn(lists[l])) \cup HeapIn(new)
  PROVE  Owned'
<1>1. Lists' = Lists BY DEF Lists, PageLists, PartLists, Paged
<1>2. lists'[l] = new /\ \A m \in Lists : m # l => lists'[m] = lists[m] OBVIOUS
<1>3. Tables' = Tables /\ Groups' = Groups BY DEF Tables, Groups
<1> DEFINE Rest == UNION {HeapIn(lists[m]) : m \in Lists \ {l}}
           Other == Rest \cup Tables \cup Range(Pending)
<1>4. \A m \in Lists : m # l => HeapIn(lists[m]) \subseteq Rest OBVIOUS
<1>5. Blocks = HeapIn(lists[l]) \cup Rest BY DEF Blocks
<1>6. HeapIn(lists[l]) \cap Rest = {} BY DEF Owned
<1>7. Blocks' = Rest \cup HeapIn(new)
  <2>1. Blocks' = UNION {HeapIn(lists'[m]) : m \in Lists} BY <1>1 DEF Blocks
  <2>2. ASSUME NEW a \in Blocks' PROVE a \in Rest \cup HeapIn(new)
    <3>1. PICK m \in Lists : a \in HeapIn(lists'[m]) BY <2>1
    <3> QED BY <1>2, <3>1
  <2>3. ASSUME NEW a \in Rest PROVE a \in Blocks'
    <3>1. PICK m \in Lists \ {l} : a \in HeapIn(lists[m]) OBVIOUS
    <3>2. a \in HeapIn(lists'[m]) BY <1>2, <3>1
    <3> QED BY <2>1, <3>2
  <2>4. HeapIn(new) \subseteq Blocks'
    <3>1. HeapIn(lists'[l]) = HeapIn(new) BY <1>2
    <3> HIDE DEF Rest, Other
    <3> QED BY <2>1, <3>1
  <2> QED BY <2>2, <2>3, <2>4
<1> HIDE DEF Rest
<1>8. Heap = HeapIn(lists[l]) \cup Other /\ HeapIn(lists[l]) \cap Other = {} BY <1>5, <1>6 DEF Owned
<1>9. Heap \ HeapIn(lists[l]) = Other BY <1>8
<1>10. Heap' = Blocks' \cup Tables \cup Range(Pending) BY <1>7, <1>9
<1>14. Tables \subseteq Other /\ Range(Pending) \subseteq Other /\ Rest \subseteq Other OBVIOUS
<1> HIDE DEF Other
<1>11. \A m \in Lists : HeapOnce(lists'[m]) BY <1>2 DEF Owned
<1>12. \A m, k \in Lists : m # k => HeapIn(lists'[m]) \cap HeapIn(lists'[k]) = {}
  <2>1. \A m \in Lists : m # l => HeapIn(lists'[m]) \cap HeapIn(new) = {} /\ lists'[m] = lists[m] BY <1>2, <1>4, <1>9, <1>14
  <2> QED BY <1>2, <2>1 DEF Owned
<1>13. \A m \in Lists : HeapIn(lists'[m]) \cap (Tables \cup Range(Pending)) = {}
  <2>1. HeapIn(new) \cap (Tables \cup Range(Pending)) = {} BY <1>9, <1>14
  <2> QED BY <1>2, <2>1 DEF Owned
<1> QED BY <1>1, <1>3, <1>10, <1>11, <1>12, <1>13 DEF Owned

LEMMA FmtSame == ASSUME fmt' = fmt PROVE Lists' = Lists /\ Targets' = Targets /\ Paged' = Paged /\ Groups' = Groups
BY DEF Lists, PageLists, PartLists, Targets, Paged, Groups

LEMMA ListStep ==
  ASSUME IInv, NEW l \in Lists, NEW new \in Seq(Block), lists' = [lists EXCEPT ![l] = new],
         l \in Targets, Paged => table[l[2]] # << >>,
         fmt' = fmt, table' = table, Pending' = Pending, op' \in {op, NoOp},
         HeapOnce(new), HeapIn(new) \cap (Heap \ HeapIn(lists[l])) = {},
         Heap' = (Heap \ HeapIn(lists[l])) \cup HeapIn(new),
         NEW a \in Nat, Heap' \subseteq Heap \cup {a},
         \A x \in Heap \ HeapIn(lists[l]) : ram[x] \in Area => ram'[x] \in Area,
         \A k \in DOMAIN new : BlockOK(new[k])',
         disk' \in Seq(Area), Len(disk) <= Len(disk'), count' \in Nat, linkError' \in BOOLEAN,
         phase' \in {"pass2", "load", "clean"}
  PROVE  IInv'
<1>1. Lists' = Lists /\ Targets' = Targets /\ Paged' = Paged /\ Groups' = Groups BY FmtSame
<1>2. lists'[l] = new /\ \A m \in Lists : m # l => lists'[m] = lists[m] BY DEF IInv, Shape
<1>3. lists' \in [Lists -> Seq(Block)] BY DEF IInv, Shape
<1>4. ASSUME NEW m \in Lists, NEW k \in DOMAIN lists'[m] PROVE BlockOK(lists[m][k])'
  <2>1. CASE m = l
    <3>1. lists'[m] = new BY <1>2, <2>1
    <3>2. BlockOK(new[k])' BY <1>4, <3>1
    <3> QED BY <3>1, <3>2 DEF BlockOK
  <2>2. CASE m # l
    <3> DEFINE b == lists[m][k]
    <3>1. lists'[m] = lists[m] /\ k \in DOMAIN lists[m] BY <1>2, <2>2, <1>4
    <3>2. BlockOK(b) BY <3>1 DEF IInv, Shape
    <3>3. ~b.spilled => b.loc \in HeapIn(lists[m]) BY <3>1 DEF HeapIn
    <3>4. HeapIn(lists[m]) \cap HeapIn(lists[l]) = {} BY <2>2 DEF IInv, Owned
    <3> HIDE DEF b
    <3>5. ~b.spilled => b.loc \in Heap \ HeapIn(lists[l]) /\ ram[b.loc] \in Area BY <3>2, <3>3, <3>4 DEF BlockOK
    <3>6. ~b.spilled => b.loc \in Heap' /\ ram'[b.loc] \in Area BY <3>5
    <3>7. DOMAIN disk \subseteq DOMAIN disk' BY DEF IInv, Shape
    <3>8. BlockOK(b)' <=> (b.spilled => b.loc \in DOMAIN disk') /\ (~b.spilled => b.loc \in Heap' /\ ram'[b.loc] \in Area)
      BY <3>1 DEF BlockOK, b
    <3>9. (b.spilled => b.loc \in DOMAIN disk') /\ (~b.spilled => b.loc \in Heap' /\ ram'[b.loc] \in Area)
      BY <3>2, <3>6, <3>7 DEF BlockOK
    <3>10. lists'[m][k] = b BY <3>1 DEF b
    <3> QED BY <3>9, <3>10 DEF BlockOK
  <2> QED BY <2>1, <2>2
<1>5. Heap' \in SUBSET Nat /\ IsFiniteSet(Heap')
  <2>1. IsFiniteSet(Heap \cup {a}) BY FS_AddElement DEF IInv, Shape
  <2>2. IsFiniteSet(Heap') BY <2>1, FS_Subset
  <2> QED BY <2>2 DEF IInv, Shape
<1>6. op' = NoOp \/ op' \in [kind : {"alloc"}, list : Targets, size : 1 .. PageSize, parts : Seq(Nat)]
  BY DEF IInv, Shape
<1>7. \A g \in Groups : Len(table'[g]) \in {0, Len(Parts(g)')}
  <2>1. \A g \in Groups : Parts(g)' = Parts(g) BY DEF Parts
  <2> QED BY <2>1 DEF IInv, Shape
<1>8. Shape'
  <2>1. fmt' \in Formats /\ table' \in [Groups -> Seq(Nat)] BY DEF IInv, Shape
  <2>2. (\A m \in Lists : \A k \in DOMAIN lists[m] : BlockOK(lists[m][k]))' BY <1>1, <1>4
  <2>3. (\A g \in Groups : Len(table[g]) \in {0, Len(Parts(g))})' BY <1>1, <1>7
  <2> QED BY <1>1, <1>3, <1>5, <1>6, <2>1, <2>2, <2>3 DEF Shape
<1>9. Placed'
  <2>1. \A m \in Lists : lists'[m] # << >> => m \in Targets /\ (Paged => table'[m[2]] # << >>)
    BY <1>2 DEF IInv, Placed
  <2>2. ~Paged => \A g \in Groups : table'[g] = << >> BY DEF IInv, Placed
  <2>3. op' # NoOp /\ ~(Paged /\ table'[op'.list[2]] = << >>) => op'.parts = << >>
    BY DEF IInv, Placed, NeedsTable
  <2> QED BY <1>1, <2>1, <2>2, <2>3 DEF Placed, NeedsTable
<1>10. Owned' BY ListOwned DEF IInv, Shape
<1>11. FreedOnce' BY DEF FreedOnce
<1> QED BY <1>8, <1>9, <1>10, <1>11 DEF IInv

\* Store puts a relocation into the head of a list, or reports that it could not.
LEMMA StoreOK ==
  ASSUME NEW l \in Lists, lists \in [Lists -> Seq(Block)], NEW n \in 1 .. PageSize,
         NEW blocks \in Seq(Block), blocks # << >>, n <= blocks[1].left,
         NEW r, NEW d \in Seq(Area), count \in Nat, Store(l, n, blocks, r, d), linkError \in BOOLEAN,
         blocks[1].spilled => blocks[1].loc \in DOMAIN d,
         ~blocks[1].spilled => blocks[1].loc \in DOMAIN r /\ r[blocks[1].loc] \in Area
  PROVE  /\ \E new : SameBlocks(new, blocks) /\ lists' = [lists EXCEPT ![l] = new]
         /\ DOMAIN ram' = DOMAIN r /\ \A x \in DOMAIN r : r[x] \in Area => ram'[x] \in Area
         /\ disk' \in Seq(Area) /\ Len(disk') = Len(d)
         /\ phase' \in {phase, "clean"} /\ linkError' \in BOOLEAN
<1> DEFINE b == blocks[1]
           new == [blocks EXCEPT ![1].left = @ - n]
           stored == [lists EXCEPT ![l] = new]
<1>1. b \in Block /\ 1 \in DOMAIN blocks BY Elements
<1>2. Used(b) \in Nat BY <1>1, Limits DEF Used, Block
<1>3. SameBlocks(new, blocks) /\ SameBlocks(blocks, blocks)
  <2>1. b.left - n \in 0 .. PageSize BY <1>1, Limits DEF Block
  <2>2. [b EXCEPT !.left = @ - n] \in Block /\ [b EXCEPT !.left = @ - n].spilled = b.spilled
        /\ [b EXCEPT !.left = @ - n].loc = b.loc
    BY <1>1, <2>1 DEF Block
  <2>3. new = [blocks EXCEPT ![1] = [b EXCEPT !.left = @ - n]] OBVIOUS
  <2> DEFINE c == [b EXCEPT !.left = @ - n]
  <2> HIDE DEF c
  <2>4. [blocks EXCEPT ![1] = c] \in Seq(Block) /\ Len([blocks EXCEPT ![1] = c]) = Len(blocks)
        /\ \A k \in 1 .. Len(blocks) : [blocks EXCEPT ![1] = c][k] = IF k = 1 THEN c ELSE blocks[k]
    BY <1>1, <2>2 DEF c
  <2>5. c.spilled = b.spilled /\ c.loc = b.loc BY <2>2 DEF c
  <2>6. SameBlocks([blocks EXCEPT ![1] = c], blocks) BY <2>4, <2>5 DEF SameBlocks
  <2>7. SameBlocks(blocks, blocks) BY DEF SameBlocks
  <2> QED BY <2>3, <2>6, <2>7 DEF c
<1>4. Cells(n) \in Seq(Cell \cup {Unset}) BY CellsOK, Limits
<1>5. \A cells \in Area : At(cells, Used(b), Cells(n)) \in Area BY <1>2, <1>4, AtOK
<1>6. Store(l, n, blocks, r, d) =
        (\/ /\ ~b.spilled /\ ram' = [r EXCEPT ![b.loc] = At(@, Used(b), Cells(n))] /\ disk' = d
            /\ lists' = stored /\ UNCHANGED <<phase, linkError>>
         \/ /\ b.spilled /\ disk' = [d EXCEPT ![b.loc] = At(@, Used(b), Cells(n))] /\ ram' = r
            /\ lists' = stored /\ UNCHANGED <<phase, linkError>>
         \/ b.spilled /\ disk' = d /\ ram' = r /\ lists' = stored /\ SpillFails
         \/ b.spilled /\ disk' = d /\ ram' = r /\ lists' = [lists EXCEPT ![l] = blocks] /\ Abandon)
  BY DEF Store
<1> HIDE DEF new, stored, b
<1>7. CASE ~b.spilled /\ ram' = [r EXCEPT ![b.loc] = At(@, Used(b), Cells(n))] /\ disk' = d
           /\ lists' = stored /\ UNCHANGED <<phase, linkError>>
  <2>1. b.loc \in DOMAIN r /\ r[b.loc] \in Area BY <1>7 DEF b
  <2>2. DOMAIN ram' = DOMAIN r /\ \A x \in DOMAIN r : ram'[x] = IF x = b.loc THEN At(r[b.loc], Used(b), Cells(n)) ELSE r[x]
    BY <1>7, <2>1
  <2>3. At(r[b.loc], Used(b), Cells(n)) \in Area BY <1>5, <2>1
  <2> QED BY <1>3, <1>7, <2>2, <2>3 DEF stored
<1>8. CASE b.spilled /\ disk' = [d EXCEPT ![b.loc] = At(@, Used(b), Cells(n))] /\ ram' = r
           /\ lists' = stored /\ UNCHANGED <<phase, linkError>>
  <2>1. b.loc \in DOMAIN d /\ d[b.loc] \in Area
    <3>1. b.loc \in DOMAIN d BY <1>8 DEF b
    <3> QED BY <3>1, Elements
  <2>2. At(d[b.loc], Used(b), Cells(n)) \in Area BY <1>5, <2>1
  <2>3. disk' = [d EXCEPT ![b.loc] = At(d[b.loc], Used(b), Cells(n))] BY <1>8
  <2> HIDE DEF Area
  <2>4. disk' \in Seq(Area) /\ Len(disk') = Len(d) BY <2>1, <2>2, <2>3
  <2> QED BY <1>3, <1>8, <2>4 DEF stored
<1>9. CASE b.spilled /\ disk' = d /\ ram' = r /\ lists' = stored /\ SpillFails
  BY <1>3, <1>9 DEF stored, SpillFails
<1>10. CASE b.spilled /\ disk' = d /\ ram' = r /\ lists' = [lists EXCEPT ![l] = blocks] /\ Abandon
  BY <1>3, <1>10 DEF Abandon
<1> QED BY <1>6, <1>7, <1>8, <1>9, <1>10

-----------------------------------------------------------------------------
(* Steps                                                                    *)

\* A relocation that begins to allocate memory.
FreshOp == [kind : {"alloc"}, list : Targets, size : 1 .. PageSize, parts : {<< >>}]

LEMMA FreshOpIs ==
  ASSUME NEW o \in FreshOp
  PROVE  o \in [kind : {"alloc"}, list : Targets, size : 1 .. PageSize, parts : Seq(Nat)] /\ o.parts = << >> /\ o # NoOp
<1>1. << >> \in Seq(Nat) OBVIOUS
<1>2. o.kind = "alloc" /\ o.parts = << >> BY DEF FreshOp
<1>3. o # NoOp BY <1>2 DEF NoOp
<1>4. o = [kind |-> o.kind, list |-> o.list, size |-> o.size, parts |-> o.parts] /\ o.list \in Targets /\ o.size \in 1 .. PageSize
  BY DEF FreshOp
<1> QED BY <1>1, <1>2, <1>3, <1>4

\* Steps that leave the lists, the tables and the memory alone.
LEMMA IdleStep ==
  ASSUME IInv, UNCHANGED <<fmt, lists, table, mem, count>>,
         \/ op' = op
         \/ op' = NoOp /\ Pending = << >>
         \/ Pending = << >> /\ op' \in FreshOp,
         phase' \in {"pass2", "load", "clean"}, linkError' \in BOOLEAN
  PROVE  IInv'
<1>1. Lists' = Lists /\ Targets' = Targets /\ Paged' = Paged /\ Groups' = Groups BY FmtSame
<1>2. UNCHANGED <<ram, disk>> BY DEF mem
<1>3. Pending' = Pending
  <2>1. CASE op' = op BY <2>1 DEF Pending
  <2>2. CASE op' = NoOp /\ Pending = << >> BY <2>2 DEF Pending
  <2>3. CASE Pending = << >> /\ op' \in FreshOp BY <2>3, FreshOpIs DEF Pending
  <2> QED BY <2>1, <2>2, <2>3
<1>4. op' = NoOp \/ op' \in [kind : {"alloc"}, list : Targets, size : 1 .. PageSize, parts : Seq(Nat)]
  BY FreshOpIs DEF IInv, Shape
<1>5. Shape'
  <2>1. \A g \in Groups : Parts(g)' = Parts(g) BY DEF Parts
  <2>2. Heap' = Heap BY <1>2 DEF Heap
  <2>3. (\A l \in Lists : \A k \in DOMAIN lists[l] : BlockOK(lists[l][k]))'
    <3>1. \A l \in Lists : \A k \in DOMAIN lists[l] : BlockOK(lists[l][k]) BY DEF IInv, Shape
    <3>2. UNCHANGED <<lists, ram, disk>> BY <1>2
    <3> QED BY <1>1, <2>2, <3>1, <3>2 DEF BlockOK
  <2> QED BY <1>1, <1>2, <1>4, <2>1, <2>2, <2>3 DEF IInv, Shape
<1>6. Placed'
  <2>1. op' # NoOp /\ ~(Paged /\ table[op'.list[2]] = << >>) => op'.parts = << >>
    BY FreshOpIs DEF IInv, Placed, NeedsTable
  <2> QED BY <1>1, <2>1 DEF IInv, Placed, NeedsTable
<1>7. Owned'
  <2>1. Tables' = Tables /\ Blocks' = Blocks /\ Heap' = Heap BY <1>1, <1>2 DEF Tables, Blocks, Heap
  <2> QED BY <1>1, <1>3, <2>1 DEF IInv, Owned
<1>8. FreedOnce' BY DEF FreedOnce
<1> QED BY <1>5, <1>6, <1>7, <1>8 DEF IInv

\* The lists SwapOutRelocs looks at exist.
LEMMA SwapOrderIs == ASSUME NEW i \in DOMAIN SwapOrder PROVE SwapOrder[i] \in Lists
<1>1. CASE Paged
  <2>1. SwapOrder = AllTraversed BY <1>1 DEF SwapOrder, AllTraversed, Paged
  <2>2. SwapOrder[i] \in Range(AllTraversed) BY <2>1 DEF Range
  <2> QED BY <1>1, <2>2, AllTraversedAre, ListsAre
<1>2. CASE fmt = "os2"
  <2>1. SwapOrder = GroupLists BY <1>2 DEF SwapOrder, Paged
  <2> QED BY <1>2, <2>1, ListsAre DEF GroupLists, Paged
<1>3. CASE fmt = "qnx"
  <2> DEFINE tail == <<FloatFixups, SectLists[1]>>
  <2>1. SwapOrder = GroupLists \o tail BY <1>3 DEF SwapOrder, Paged
  <2>2. SectLists[1] \in Lists /\ FloatFixups \in Lists /\ \A g \in Groups : <<"group", g>> \in Lists
    BY <1>3, ListsAre, Limits DEF SectLists, Paged
  <2>3. GroupLists \in Seq(Lists)
    <3>1. GroupLists \in [1 .. Len(GroupPages) -> Lists] BY <2>2, Limits DEF GroupLists
    <3> QED BY <3>1, Limits
  <2>4. tail \in Seq(Lists) BY <2>2
  <2> HIDE DEF tail
  <2>5. GroupLists \o tail \in Seq(Lists) BY <2>3, <2>4
  <2> QED BY <2>1, <2>5, Elements
<1>4. CASE fmt \notin {"flat", "pe", "os2", "qnx"}
  <2>1. SwapOrder = SectLists BY <1>4 DEF SwapOrder, Paged
  <2> QED BY <2>1, ListsAre DEF SectLists
<1> QED BY <1>1, <1>2, <1>3, <1>4 DEF Paged

\* Block k of list l becomes a spilled one.
LEMMA SpillOK ==
  ASSUME IInv, NEW l \in Lists, NEW k \in DOMAIN lists[l], ~lists[l][k].spilled,
         lists' = [lists EXCEPT ![l][k] = Moved(lists[l][k])], ram' = Without(lists[l][k].loc),
         disk' \in Seq(Area), Len(disk') = Len(disk) + 1, UNCHANGED <<fmt, table, op, count>>,
         phase' \in {"pass2", "load", "clean"}, linkError' \in BOOLEAN
  PROVE  IInv'
<1>1. PICK old : old = lists[l] OBVIOUS
<1>2. PICK b : b = old[k] OBVIOUS
<1>3. PICK c : c = Moved(b) OBVIOUS
<1>4. PICK new : new = [old EXCEPT ![k] = c] OBVIOUS
<1>5. old \in Seq(Block) /\ b \in Block /\ BlockOK(b) /\ ~b.spilled /\ k \in DOMAIN old
  BY <1>1, <1>2, Elements DEF IInv, Shape
<1>6. disk \in Seq(Area) /\ Len(disk) + 1 \in Nat /\ Len(disk) \in Nat BY DEF IInv, Shape
<1>7. old # << >> BY <1>5
<1>8. l \in Targets /\ (Paged => table[l[2]] # << >>) BY <1>1, <1>7 DEF IInv, Placed
<1>9. HeapOnce(old) /\ HeapIn(old) \subseteq Heap BY <1>1 DEF IInv, Owned, Blocks
<1>10. c \in Block /\ c.spilled /\ c.loc = Len(disk) + 1
  <2>1. b \in [left : 0 .. PageSize, spilled : BOOLEAN, loc : Nat] BY <1>5 DEF Block
  <2> QED BY <1>3, <1>6, <2>1 DEF Moved, Block
<1>11. new \in Seq(Block) /\ DOMAIN new = DOMAIN old /\ \A j \in DOMAIN old : new[j] = IF j = k THEN c ELSE old[j]
  BY <1>4, <1>5, <1>10
<1>12. \A j \in DOMAIN old : ~new[j].spilled <=> j # k /\ ~old[j].spilled BY <1>10, <1>11
<1>13. \A j \in DOMAIN old : j # k => new[j] = old[j] BY <1>11
<1>14. \A j \in DOMAIN old : j # k /\ ~old[j].spilled => old[j].loc # b.loc BY <1>2, <1>5, <1>9 DEF HeapOnce
<1>15. HeapIn(new) = HeapIn(old) \ {b.loc} BY <1>2, <1>5, <1>11, <1>12, <1>13, <1>14 DEF HeapIn
<1>16. HeapOnce(new) BY <1>9, <1>11, <1>12, <1>13 DEF HeapOnce
<1>17. b.loc \in HeapIn(old) BY <1>2, <1>5 DEF HeapIn
<1>18. lists' = [lists EXCEPT ![l] = new] BY <1>1, <1>2, <1>3, <1>4
<1>19. Heap' = Heap \ {b.loc} /\ \A x \in Heap' : ram'[x] = ram[x] BY <1>1, <1>2 DEF Without, Heap
<1>20. Heap' = (Heap \ HeapIn(lists[l])) \cup HeapIn(new) BY <1>1, <1>9, <1>15, <1>17, <1>19
<1>21. HeapIn(new) \cap (Heap \ HeapIn(lists[l])) = {} BY <1>1, <1>15
<1>22. \A x \in Heap \ HeapIn(lists[l]) : ram[x] \in Area => ram'[x] \in Area BY <1>19, <1>20
<1>23. ASSUME NEW j \in DOMAIN new PROVE BlockOK(new[j])'
  <2>1. CASE j = k
    <3>1. new[j] = c BY <1>11, <2>1
    <3>2. Len(disk) + 1 \in DOMAIN disk' BY <1>6
    <3> QED BY <1>10, <3>1, <3>2 DEF BlockOK
  <2>2. CASE j # k
    <3>1. j \in DOMAIN old /\ new[j] = old[j] BY <1>11, <2>2
    <3>2. BlockOK(old[j]) BY <1>1, <3>1 DEF IInv, Shape
    <3>3. ~old[j].spilled => old[j].loc # b.loc BY <1>14, <2>2, <3>1
    <3>4. DOMAIN disk \subseteq DOMAIN disk' BY <1>6
    <3>5. old[j].spilled => old[j].loc \in DOMAIN disk' BY <3>2, <3>4 DEF BlockOK
    <3>6. ~old[j].spilled => old[j].loc \in Heap' /\ ram'[old[j].loc] \in Area BY <1>19, <3>2, <3>3 DEF BlockOK
    <3> QED BY <3>1, <3>5, <3>6 DEF BlockOK
  <2> QED BY <2>1, <2>2
<1>24. Heap' \subseteq Heap \cup {0} BY <1>19
<1>25. count' \in Nat /\ Len(disk) <= Len(disk') /\ Pending' = Pending BY <1>6 DEF IInv, Shape, Pending
<1> QED BY <1>8, <1>11, <1>16, <1>18, <1>20, <1>21, <1>22, <1>23, <1>24, <1>25, ListStep

\* A new area of the spill file that no block has yet.
LEMMA MoreDisk ==
  ASSUME IInv, UNCHANGED <<fmt, lists, table, op, count, ram>>, disk' \in Seq(Area), Len(disk) <= Len(disk'),
         phase' \in {"pass2", "load", "clean"}, linkError' \in BOOLEAN
  PROVE  IInv'
<1>1. Lists' = Lists /\ Targets' = Targets /\ Paged' = Paged /\ Groups' = Groups BY FmtSame
<1>2. Heap' = Heap /\ Pending' = Pending /\ Tables' = Tables /\ Blocks' = Blocks
  BY <1>1 DEF Heap, Pending, Tables, Blocks
<1>3. Shape'
  <2>1. \A g \in Groups : Parts(g)' = Parts(g) BY DEF Parts
  <2>2. (\A l \in Lists : \A k \in DOMAIN lists[l] : BlockOK(lists[l][k]))'
    <3>1. \A l \in Lists : \A k \in DOMAIN lists[l] : BlockOK(lists[l][k]) BY DEF IInv, Shape
    <3>2. DOMAIN disk \subseteq DOMAIN disk' BY DEF IInv, Shape
    <3> QED BY <1>1, <1>2, <3>1, <3>2 DEF BlockOK
  <2> QED BY <1>1, <1>2, <2>1, <2>2 DEF IInv, Shape
<1>4. Placed' BY <1>1 DEF IInv, Placed, NeedsTable
<1>5. Owned' BY <1>1, <1>2 DEF IInv, Owned
<1>6. FreedOnce' BY DEF FreedOnce
<1> QED BY <1>3, <1>4, <1>5, <1>6 DEF IInv

LEMMA SwapOutOK == ASSUME IInv, SwapOutRelocs PROVE IInv'
<1>1. PICK i \in DOMAIN SwapOrder : \E k \in DOMAIN lists[SwapOrder[i]] :
        LET l == SwapOrder[i]
            b == lists[l][k] IN
        /\ FirstIn(l, k)
        /\ \/ /\ disk' = Append(disk, At(Cleared, 0, Content(b))) /\ UNCHANGED <<phase, linkError>>
              /\ lists' = [lists EXCEPT ![l][k] = Moved(b)] /\ ram' = Without(b.loc)
           \/ /\ disk' = Append(disk, Cleared) /\ SpillFails
              /\ lists' = [lists EXCEPT ![l][k] = Moved(b)] /\ ram' = Without(b.loc)
           \/ disk' = Append(disk, Cleared) /\ Abandon /\ UNCHANGED <<lists, ram>>
  BY DEF SwapOutRelocs
<1>2. PICK l : l = SwapOrder[i] OBVIOUS
<1>3. PICK k \in DOMAIN lists[l] :
        LET b == lists[l][k] IN
        /\ FirstIn(l, k)
        /\ \/ /\ disk' = Append(disk, At(Cleared, 0, Content(b))) /\ UNCHANGED <<phase, linkError>>
              /\ lists' = [lists EXCEPT ![l][k] = Moved(b)] /\ ram' = Without(b.loc)
           \/ /\ disk' = Append(disk, Cleared) /\ SpillFails
              /\ lists' = [lists EXCEPT ![l][k] = Moved(b)] /\ ram' = Without(b.loc)
           \/ disk' = Append(disk, Cleared) /\ Abandon /\ UNCHANGED <<lists, ram>>
  BY <1>1, <1>2
<1>4. l \in Lists BY <1>2, SwapOrderIs
<1>5. UNCHANGED <<fmt, table, op, count>> /\ phase \in {"pass2", "load"} /\ linkError \in BOOLEAN
  BY DEF SwapOutRelocs, Running, IInv, Shape
<1>6. PICK b : b = lists[l][k] OBVIOUS
<1>7. b \in Block /\ BlockOK(b) /\ ~b.spilled BY <1>3, <1>4, <1>6, Elements DEF IInv, Shape, FirstIn
<1>8. disk \in Seq(Area) /\ Len(disk) \in Nat BY DEF IInv, Shape
<1>9. /\ Append(disk, Cleared) \in Seq(Area) /\ Len(Append(disk, Cleared)) = Len(disk) + 1
      /\ Append(disk, At(Cleared, 0, Content(b))) \in Seq(Area)
      /\ Len(Append(disk, At(Cleared, 0, Content(b)))) = Len(disk) + 1
  <2>1. At(Cleared, 0, Content(b)) \in Area BY <1>7, <1>8, ClearedOK, AtOK, ContentOK
  <2>2. Cleared \in Area BY ClearedOK
  <2> HIDE DEF Area
  <2> QED BY <1>8, <2>1, <2>2
<1>10. CASE lists' = [lists EXCEPT ![l][k] = Moved(b)] /\ ram' = Without(b.loc) /\ disk' \in Seq(Area) /\ Len(disk') = Len(disk) + 1
            /\ phase' = phase /\ linkError' \in BOOLEAN
  BY <1>4, <1>5, <1>6, <1>7, <1>10, SpillOK
<1>11. CASE disk' = Append(disk, Cleared) /\ Abandon /\ UNCHANGED <<lists, ram>>
  <2>1. disk' \in Seq(Area) /\ Len(disk) <= Len(disk') BY <1>8, <1>9, <1>11
  <2> QED BY <1>5, <1>11, <2>1, MoreDisk DEF Abandon
<1> QED BY <1>3, <1>5, <1>6, <1>9, <1>10, <1>11 DEF SpillFails

\* A list whose blocks lie as given by blocks, r and d, and its head gets a relocation.
LEMMA StoreStep ==
  ASSUME IInv, NEW l \in Targets, Paged => table[l[2]] # << >>, NEW n \in 1 .. PageSize,
         NEW blocks \in Seq(Block), blocks # << >>, n <= blocks[1].left, NEW r, NEW d \in Seq(Area),
         HeapOnce(blocks), HeapIn(blocks) \cap (Heap \ HeapIn(lists[l])) = {},
         DOMAIN r = (Heap \ HeapIn(lists[l])) \cup HeapIn(blocks), NEW a \in Nat, DOMAIN r \subseteq Heap \cup {a},
         \A x \in Heap \ HeapIn(lists[l]) : r[x] = ram[x], Len(disk) <= Len(d),
         \A k \in DOMAIN blocks : /\ blocks[k].spilled => blocks[k].loc \in DOMAIN d
                                  /\ ~blocks[k].spilled => blocks[k].loc \in DOMAIN r /\ r[blocks[k].loc] \in Area,
         Store(l, n, blocks, r, d), Counts(l), Running, Pending = << >>, UNCHANGED <<fmt, table>>
  PROVE  IInv'
<1>1. l \in Lists BY TargetIs
<1>2. count \in Nat /\ linkError \in BOOLEAN /\ lists \in [Lists -> Seq(Block)] /\ phase \in {"pass2", "load"}
  BY DEF IInv, Shape, Running
<1>3. 1 \in DOMAIN blocks OBVIOUS
<1>4. /\ \E new : SameBlocks(new, blocks) /\ lists' = [lists EXCEPT ![l] = new]
      /\ DOMAIN ram' = DOMAIN r /\ \A x \in DOMAIN r : r[x] \in Area => ram'[x] \in Area
      /\ disk' \in Seq(Area) /\ Len(disk') = Len(d)
      /\ phase' \in {phase, "clean"} /\ linkError' \in BOOLEAN
  BY <1>1, <1>2, <1>3, StoreOK
<1>5. PICK new : SameBlocks(new, blocks) /\ lists' = [lists EXCEPT ![l] = new] BY <1>4
<1>6. new \in Seq(Block) /\ HeapIn(new) = HeapIn(blocks) /\ HeapOnce(new) BY <1>5, SameHeap DEF SameBlocks
<1>7. op' \in {op, NoOp} /\ count' \in Nat BY <1>2 DEF Counts
<1>8. Pending' = Pending BY <1>7 DEF Pending
<1>9. Heap' = DOMAIN r BY <1>4 DEF Heap
<1>10. Len(disk) <= Len(disk') /\ DOMAIN d = DOMAIN disk' BY <1>4
<1>11. ASSUME NEW k \in DOMAIN new PROVE BlockOK(new[k])'
  <2>1. k \in DOMAIN blocks /\ new[k].spilled = blocks[k].spilled /\ new[k].loc = blocks[k].loc BY <1>5 DEF SameBlocks
  <2>2. new[k].spilled => new[k].loc \in DOMAIN disk' BY <1>10, <2>1
  <2>3. ~new[k].spilled => new[k].loc \in Heap' /\ ram'[new[k].loc] \in Area BY <1>4, <1>9, <2>1
  <2> QED BY <2>2, <2>3 DEF BlockOK
<1>12. \A x \in Heap \ HeapIn(lists[l]) : ram[x] \in Area => ram'[x] \in Area BY <1>4
<1>13. phase' \in {"pass2", "load", "clean"} BY <1>2, <1>4
<1>14. /\ HeapIn(new) \cap (Heap \ HeapIn(lists[l])) = {} /\ Heap' = (Heap \ HeapIn(lists[l])) \cup HeapIn(new)
       /\ Heap' \subseteq Heap \cup {a}
  BY <1>6, <1>9
<1> QED BY <1>1, <1>4, <1>5, <1>6, <1>7, <1>8, <1>10, <1>11, <1>12, <1>13, <1>14, ListStep

LEMMA WriteRelocOK == ASSUME IInv, NEW l \in Targets, NEW n \in FmtSizes(fmt), WriteReloc(l, n) PROVE IInv'
<1>1. n \in 1 .. PageSize BY RelocAssumption DEF IInv, Shape
<1>2. op = NoOp /\ Pending = << >> /\ Running /\ phase = "pass2" BY DEF WriteReloc, Pending
<1>3. CASE NeedsTable(l) \/ NeedsBlock(l, n)
  <2>1. op' = [kind |-> "alloc", list |-> l, size |-> n, parts |-> << >>] BY <1>3 DEF WriteReloc
  <2>2. op' \in FreshOp BY <1>1, <2>1 DEF FreshOp
  <2>3. UNCHANGED <<fmt, lists, table, mem, count, phase, linkError>> BY <1>3 DEF WriteReloc, mem
  <2>4. phase' \in {"pass2", "load", "clean"} /\ linkError' \in BOOLEAN BY <1>2, <2>3 DEF IInv, Shape
  <2> QED BY <1>2, <2>2, <2>3, <2>4, IdleStep
<1>4. CASE ~NeedsTable(l) /\ ~NeedsBlock(l, n)
  <2>1. PICK old : old = lists[l] OBVIOUS
  <2>2. Store(l, n, old, ram, disk) /\ Counts(l) /\ UNCHANGED <<fmt, table>> BY <1>4, <2>1 DEF WriteReloc
  <2>3. l \in Lists BY TargetIs
  <2>4. old \in Seq(Block) /\ old # << >> /\ ~(old[1].left < n) BY <1>4, <2>1, <2>3 DEF NeedsBlock, IInv, Shape
  <2>5. old[1] \in Block BY <2>4, Elements
  <2>6. n <= old[1].left BY <1>1, <2>4, <2>5, Limits DEF Block
  <2>7. HeapOnce(old) /\ HeapIn(old) \subseteq Heap BY <2>1, <2>3 DEF IInv, Owned, Blocks
  <2>8. \A k \in DOMAIN old : BlockOK(old[k]) BY <2>1, <2>3 DEF IInv, Shape
  <2>9. HeapIn(old) \cap (Heap \ HeapIn(lists[l])) = {} /\ DOMAIN ram = (Heap \ HeapIn(lists[l])) \cup HeapIn(old)
    BY <2>1, <2>7 DEF Heap
  <2>10. DOMAIN ram \subseteq Heap \cup {0} BY DEF Heap
  <2>11. disk \in Seq(Area) /\ Len(disk) <= Len(disk) BY DEF IInv, Shape
  <2>12. Paged => table[l[2]] # << >> BY <1>4 DEF NeedsTable
  <2>13. \A k \in DOMAIN old : /\ old[k].spilled => old[k].loc \in DOMAIN disk
                               /\ ~old[k].spilled => old[k].loc \in DOMAIN ram /\ ram[old[k].loc] \in Area
    BY <2>8 DEF BlockOK, Heap
  <2> QED BY <1>1, <1>2, <2>2, <2>4, <2>6, <2>7, <2>9, <2>10, <2>11, <2>12, <2>13, StoreStep
<1> QED BY <1>3, <1>4

\* A block in front of a list.
LEMMA OneMoreBlock ==
  ASSUME NEW old \in Seq(Block), NEW b \in Block
  PROVE  /\ <<b>> \o old \in Seq(Block) /\ <<b>> \o old # << >> /\ (<<b>> \o old)[1] = b
         /\ DOMAIN (<<b>> \o old) = 1 .. Len(old) + 1
         /\ \A k \in DOMAIN old : k + 1 \in DOMAIN (<<b>> \o old) /\ (<<b>> \o old)[k + 1] = old[k]
         /\ \A k \in DOMAIN (<<b>> \o old) : k # 1 => k - 1 \in DOMAIN old /\ (<<b>> \o old)[k] = old[k - 1]
<1> HIDE DEF Block
<1> QED OBVIOUS

LEMMA NewBlockHeap ==
  ASSUME NEW old \in Seq(Block), NEW b \in Block, HeapOnce(old), b.loc \notin HeapIn(old)
  PROVE  /\ HeapOnce(<<b>> \o old)
         /\ HeapIn(<<b>> \o old) = HeapIn(old) \cup (IF b.spilled THEN {} ELSE {b.loc})
<1>1. PICK new : new = <<b>> \o old OBVIOUS
<1>2. /\ new[1] = b /\ 1 \in DOMAIN new
      /\ \A k \in DOMAIN old : k + 1 \in DOMAIN new /\ new[k + 1] = old[k]
      /\ \A k \in DOMAIN new : k # 1 => k - 1 \in DOMAIN old /\ new[k] = old[k - 1]
      /\ \A k \in DOMAIN new : k \in Nat
  BY <1>1, OneMoreBlock
<1>3. HeapOnce(new)
  <2> SUFFICES ASSUME NEW j \in DOMAIN new, NEW k \in DOMAIN new, ~new[j].spilled, ~new[k].spilled, new[j].loc = new[k].loc
               PROVE  j = k
    BY DEF HeapOnce
  <2>1. \A i \in DOMAIN new : i # 1 /\ ~new[i].spilled => new[i].loc \in HeapIn(old) BY <1>2 DEF HeapIn
  <2>2. CASE j = 1 \/ k = 1 BY <1>2, <2>1, <2>2
  <2>3. CASE j # 1 /\ k # 1
    <3>1. j - 1 \in DOMAIN old /\ k - 1 \in DOMAIN old /\ new[j] = old[j - 1] /\ new[k] = old[k - 1] BY <1>2, <2>3
    <3>2. j - 1 = k - 1 BY <3>1 DEF HeapOnce
    <3> QED BY <1>2, <3>2
  <2> QED BY <2>2, <2>3
<1>4. HeapIn(new) = HeapIn(old) \cup (IF b.spilled THEN {} ELSE {b.loc})
  <2>1. ASSUME NEW a \in HeapIn(new) PROVE a \in HeapIn(old) \cup (IF b.spilled THEN {} ELSE {b.loc})
    <3>1. PICK k \in DOMAIN new : ~new[k].spilled /\ a = new[k].loc BY DEF HeapIn
    <3>2. CASE k = 1 BY <1>2, <3>1, <3>2
    <3>3. CASE k # 1 BY <1>2, <3>1, <3>3 DEF HeapIn
    <3> QED BY <3>2, <3>3
  <2>2. HeapIn(old) \subseteq HeapIn(new) BY <1>2 DEF HeapIn
  <2>3. ~b.spilled => b.loc \in HeapIn(new) BY <1>2 DEF HeapIn
  <2> QED BY <2>1, <2>2, <2>3
<1> QED BY <1>1, <1>3, <1>4

LEMMA AllocRelocInfoOK == ASSUME IInv, AllocRelocInfo PROVE IInv'
<1>1. PICK l : l = op.list OBVIOUS
<1>2. PICK old : old = lists[l] OBVIOUS
<1>3. PICK n : n = op.size OBVIOUS
<1>4. op # NoOp /\ Running /\ ~NeedsTable(l) BY <1>1 DEF AllocRelocInfo, Allocating
<1>5. op \in [kind : {"alloc"}, list : Targets, size : 1 .. PageSize, parts : Seq(Nat)] BY <1>4 DEF IInv, Shape
<1>6. l \in Targets /\ n \in 1 .. PageSize BY <1>1, <1>3, <1>5
<1>7. Pending = << >> BY <1>1, <1>4 DEF IInv, Placed, Pending
<1>8. Paged => table[l[2]] # << >> BY <1>4 DEF NeedsTable
<1>9. l \in Lists BY <1>6, TargetIs
<1>10. old \in Seq(Block) /\ HeapOnce(old) /\ HeapIn(old) \subseteq Heap /\ \A k \in DOMAIN old : BlockOK(old[k])
  BY <1>2, <1>9 DEF IInv, Shape, Owned, Blocks
<1>11. disk \in Seq(Area) /\ Len(disk) \in Nat BY DEF IInv, Shape
<1>12. NewAddr \in Nat /\ NewAddr \notin Heap BY NewAddrIsNew DEF IInv, Shape
<1>13. Counts(l) /\ UNCHANGED <<fmt, table>> BY <1>1 DEF AllocRelocInfo
<1>14. CASE Store(l, n, <<[left |-> PageSize, spilled |-> FALSE, loc |-> NewAddr]>> \o old, With(NewAddr, Cleared), disk)
  <2>1. PICK a : a = NewAddr OBVIOUS
  <2>2. PICK b : b = [left |-> PageSize, spilled |-> FALSE, loc |-> a] OBVIOUS
  <2>3. PICK new : new = <<b>> \o old OBVIOUS
  <2>4. PICK r : r = With(a, Cleared) OBVIOUS
  <2>5. a \in Nat /\ a \notin Heap BY <1>12, <2>1
  <2>6. b \in Block /\ b.left = PageSize /\ ~b.spilled /\ b.loc = a BY <2>2, <2>5, Limits DEF Block
  <2>7. /\ new \in Seq(Block) /\ new # << >> /\ new[1] = b
        /\ \A k \in DOMAIN new : k # 1 => k - 1 \in DOMAIN old /\ new[k] = old[k - 1]
    BY <1>10, <2>3, <2>6, OneMoreBlock
  <2>8. HeapOnce(new) /\ HeapIn(new) = HeapIn(old) \cup {a} BY <1>10, <2>3, <2>5, <2>6, NewBlockHeap
  <2>9. /\ DOMAIN r = Heap \cup {a} /\ r[a] = Cleared /\ \A x \in Heap : r[x] = ram[x]
    BY <2>4, <2>5 DEF With
  <2>10. n <= new[1].left BY <1>6, <2>6, <2>7, Limits
  <2>11. HeapIn(new) \cap (Heap \ HeapIn(lists[l])) = {} /\ DOMAIN r = (Heap \ HeapIn(lists[l])) \cup HeapIn(new)
    BY <1>2, <1>10, <2>5, <2>8, <2>9
  <2>12. \A x \in Heap \ HeapIn(lists[l]) : r[x] = ram[x] BY <2>9
  <2>13. ASSUME NEW k \in DOMAIN new
         PROVE  /\ new[k].spilled => new[k].loc \in DOMAIN disk
                /\ ~new[k].spilled => new[k].loc \in DOMAIN r /\ r[new[k].loc] \in Area
    <3>1. CASE k = 1 BY <2>6, <2>7, <2>9, <3>1, ClearedOK
    <3>2. CASE k # 1
      <4>1. k - 1 \in DOMAIN old /\ new[k] = old[k - 1] BY <2>7, <3>2
      <4>2. BlockOK(new[k]) BY <1>10, <4>1
      <4> QED BY <2>9, <4>2 DEF BlockOK
    <3> QED BY <3>1, <3>2
  <2>14. Store(l, n, new, r, disk) BY <1>14, <2>1, <2>2, <2>3, <2>4
  <2>15. Len(disk) <= Len(disk) /\ DOMAIN r \subseteq Heap \cup {a} BY <1>11, <2>9
  <2> QED BY <1>4, <1>6, <1>7, <1>8, <1>11, <1>13, <2>5, <2>7, <2>8, <2>10, <2>11, <2>12, <2>13, <2>14, <2>15, StoreStep
<1>15. CASE Store(l, n, <<[left |-> PageSize, spilled |-> TRUE, loc |-> Len(disk) + 1]>> \o old, ram, Append(disk, Cleared))
  <2>1. PICK b : b = [left |-> PageSize, spilled |-> TRUE, loc |-> Len(disk) + 1] OBVIOUS
  <2>2. PICK new : new = <<b>> \o old OBVIOUS
  <2>3. PICK d : d = Append(disk, Cleared) OBVIOUS
  <2>4. b \in Block /\ b.left = PageSize /\ b.spilled /\ b.loc = Len(disk) + 1 BY <1>11, <2>1, Limits DEF Block
  <2>5. /\ new \in Seq(Block) /\ new # << >> /\ new[1] = b /\ DOMAIN new = 1 .. Len(old) + 1
        /\ \A k \in DOMAIN old : k + 1 \in DOMAIN new /\ new[k + 1] = old[k]
        /\ \A k \in DOMAIN new : k # 1 => k - 1 \in DOMAIN old /\ new[k] = old[k - 1]
    BY <1>10, <2>2, <2>4, OneMoreBlock
  <2>6. HeapOnce(new) /\ HeapIn(new) = HeapIn(old)
    <3>1. \A k \in DOMAIN new : ~new[k].spilled => k # 1 BY <2>4, <2>5
    <3>2. \A k \in DOMAIN new : k \in Nat BY <1>10, <2>5
    <3>3. HeapOnce(new)
      <4> SUFFICES ASSUME NEW j \in DOMAIN new, NEW k \in DOMAIN new, ~new[j].spilled, ~new[k].spilled, new[j].loc = new[k].loc
                   PROVE  j = k
        BY DEF HeapOnce
      <4>1. j - 1 \in DOMAIN old /\ k - 1 \in DOMAIN old /\ new[j] = old[j - 1] /\ new[k] = old[k - 1] BY <2>5, <3>1
      <4>2. j - 1 = k - 1 BY <1>10, <4>1 DEF HeapOnce
      <4> QED BY <3>2, <4>2
    <3>4. HeapIn(new) \subseteq HeapIn(old) BY <2>5, <3>1 DEF HeapIn
    <3>5. HeapIn(old) \subseteq HeapIn(new) BY <2>5 DEF HeapIn
    <3> QED BY <3>3, <3>4, <3>5
  <2>7. d \in Seq(Area) /\ Len(d) = Len(disk) + 1
    <3>1. Cleared \in Area BY ClearedOK
    <3> HIDE DEF Area
    <3> QED BY <1>11, <2>3, <3>1
  <2>8. n <= new[1].left BY <1>6, <2>4, <2>5, Limits
  <2>9. /\ HeapIn(new) \cap (Heap \ HeapIn(lists[l])) = {} /\ DOMAIN ram = (Heap \ HeapIn(lists[l])) \cup HeapIn(new)
        /\ DOMAIN ram \subseteq Heap \cup {0}
    BY <1>2, <1>10, <2>6 DEF Heap
  <2>10. ASSUME NEW k \in DOMAIN new
         PROVE  /\ new[k].spilled => new[k].loc \in DOMAIN d
                /\ ~new[k].spilled => new[k].loc \in DOMAIN ram /\ ram[new[k].loc] \in Area
    <3>1. CASE k = 1 BY <1>11, <2>4, <2>5, <2>7, <3>1
    <3>2. CASE k # 1
      <4>1. k - 1 \in DOMAIN old /\ new[k] = old[k - 1] BY <2>5, <3>2
      <4>2. BlockOK(new[k]) BY <1>10, <4>1
      <4>3. DOMAIN disk \subseteq DOMAIN d BY <1>11, <2>7
      <4> QED BY <4>2, <4>3 DEF BlockOK, Heap
    <3> QED BY <3>1, <3>2
  <2>11. Store(l, n, new, ram, d) /\ Len(disk) <= Len(d) BY <1>11, <1>15, <2>1, <2>2, <2>3, <2>7
  <2> QED BY <1>4, <1>6, <1>7, <1>8, <1>13, <2>5, <2>6, <2>7, <2>8, <2>9, <2>10, <2>11, StoreStep
<1> QED BY <1>1, <1>2, <1>3, <1>14, <1>15 DEF AllocRelocInfo

\* A sequence with one element more.
LEMMA OneMoreElement ==
  ASSUME NEW T, NEW s \in Seq(T), NEW a \in T, Once(s), a \notin Range(s)
  PROVE  /\ Append(s, a) \in Seq(T) /\ Append(s, a) # << >> /\ Once(Append(s, a))
         /\ Range(Append(s, a)) = Range(s) \cup {a}
<1>1. PICK r : r = Append(s, a) OBVIOUS
<1>2. /\ r \in Seq(T) /\ r # << >> /\ DOMAIN r = DOMAIN s \cup {Len(s) + 1} /\ Len(s) + 1 \notin DOMAIN s
      /\ \A i \in DOMAIN s : r[i] = s[i]
      /\ r[Len(s) + 1] = a
  BY <1>1
<1>3. Once(r) BY <1>2 DEF Once, Range
<1>4. Range(r) = Range(s) \cup {a} BY <1>2 DEF Range
<1> QED BY <1>1, <1>2, <1>3, <1>4

LEMMA OS2PagedRelocInitOK == ASSUME IInv, OS2PagedRelocInit PROVE IInv'
<1>1. PICK g : g = op.list[2] OBVIOUS
<1>2. PICK a : a = NewAddr OBVIOUS
<1>3. PICK parts : parts = Append(op.parts, a) OBVIOUS
<1>4. /\ op # NoOp /\ Running /\ Paged /\ table[g] = << >>
      /\ ram' = With(a, << >>) /\ UNCHANGED <<fmt, lists, disk, count, phase, linkError>>
      /\ \/ Len(parts) = Len(Parts(g)) /\ table' = [table EXCEPT ![g] = parts] /\ op' = [op EXCEPT !.parts = << >>]
         \/ op' = [op EXCEPT !.parts = parts] /\ UNCHANGED table
  BY <1>1, <1>2, <1>3 DEF OS2PagedRelocInit, Allocating, NeedsTable
<1>5. op \in [kind : {"alloc"}, list : Targets, size : 1 .. PageSize, parts : Seq(Nat)] BY <1>4 DEF IInv, Shape
<1>6. g \in Groups BY <1>1, <1>4, <1>5, TargetIs
<1>7. a \in Nat /\ a \notin Heap BY <1>2, NewAddrIsNew DEF IInv, Shape
<1>8. Pending = op.parts BY <1>4 DEF Pending
<1>9. Heap = Blocks \cup (Tables \cup Range(Pending)) BY DEF IInv, Owned
<1>10. /\ parts \in Seq(Nat) /\ parts # << >> /\ Once(parts) /\ Range(parts) = Range(Pending) \cup {a}
  <2>1. op.parts \in Seq(Nat) BY <1>5
  <2>2. a \notin Range(op.parts) /\ Once(op.parts) BY <1>7, <1>8, <1>9 DEF IInv, Owned
  <2> QED BY <1>3, <1>7, <1>8, <2>1, <2>2, OneMoreElement
<1>11. Lists' = Lists /\ Targets' = Targets /\ Paged' = Paged /\ Groups' = Groups BY <1>4, FmtSame
<1>12. Heap' = Heap \cup {a} /\ \A x \in Heap : ram'[x] = ram[x] BY <1>4, <1>7 DEF With, Heap
<1>13. Blocks' = Blocks BY <1>4, <1>11 DEF Blocks
<1>14. /\ op' \in [kind : {"alloc"}, list : Targets, size : 1 .. PageSize, parts : Seq(Nat)] /\ op' # NoOp
       /\ op'.list = op.list /\ table' \in [Groups -> Seq(Nat)]
       /\ \/ Len(parts) = Len(Parts(g)) /\ table' = [table EXCEPT ![g] = parts] /\ op'.parts = << >>
          \/ op'.parts = parts /\ table' = table
  <2>1. << >> \in Seq(Nat) OBVIOUS
  <2>2. table \in [Groups -> Seq(Nat)] BY DEF IInv, Shape
  <2>3. table' \in [Groups -> Seq(Nat)]
    <3>1. [table EXCEPT ![g] = parts] \in [Groups -> Seq(Nat)] BY <1>10, <2>2
    <3> QED BY <1>4, <2>2, <3>1
  <2> DEFINE Q == Seq(Nat)
  <2> HIDE DEF Q
  <2>4. op \in [kind : {"alloc"}, list : Targets, size : 1 .. PageSize, parts : Q] /\ parts \in Q /\ << >> \in Q
    BY <1>5, <1>10, <2>1 DEF Q
  <2>5. \A q \in Q : /\ [op EXCEPT !.parts = q] \in [kind : {"alloc"}, list : Targets, size : 1 .. PageSize, parts : Q]
                     /\ [op EXCEPT !.parts = q].list = op.list /\ [op EXCEPT !.parts = q].parts = q
                     /\ [op EXCEPT !.parts = q].kind = "alloc"
    BY <2>4
  <2>6. \A o : o.kind = "alloc" => o # NoOp BY DEF NoOp
  <2>7. op' = [op EXCEPT !.parts = << >>] \/ op' = [op EXCEPT !.parts = parts] BY <1>4
  <2>8. op' \in [kind : {"alloc"}, list : Targets, size : 1 .. PageSize, parts : Q] /\ op'.list = op.list /\ op' # NoOp
    BY <2>4, <2>5, <2>6, <2>7
  <2> QED BY <1>4, <2>3, <2>4, <2>5, <2>8 DEF Q
<1>15. Pending' = op'.parts BY <1>14 DEF Pending
<1>16. \A h \in Groups : h # g => table'[h] = table[h] BY <1>14 DEF IInv, Shape
<1>17. \/ table'[g] = << >> /\ Pending' = parts
       \/ table'[g] = parts /\ Len(parts) = Len(Parts(g)) /\ Pending' = << >>
  BY <1>4, <1>6, <1>14, <1>15 DEF IInv, Shape
<1>18. Range(<< >>) = {} /\ Once(<< >>) BY DEF Range, Once
<1>19. Shape'
  <2>1. \A h \in Groups : Parts(h)' = Parts(h) BY DEF Parts
  <2>2. (\A l \in Lists : \A k \in DOMAIN lists[l] : BlockOK(lists[l][k]))'
    <3>1. \A l \in Lists : \A k \in DOMAIN lists[l] : BlockOK(lists[l][k]) BY DEF IInv, Shape
    <3>2. \A b : BlockOK(b) => BlockOK(b)' BY <1>4, <1>12 DEF BlockOK
    <3> QED BY <1>4, <1>11, <3>1, <1>12 DEF BlockOK
  <2>3. (\A h \in Groups : Len(table[h]) \in {0, Len(Parts(h))})'
    <3>1. \A h \in Groups : Len(table'[h]) \in {0, Len(Parts(h))} BY <1>16, <1>17 DEF IInv, Shape
    <3> QED BY <1>11, <2>1, <3>1
  <2>4. Heap' \in SUBSET Nat /\ IsFiniteSet(Heap') BY <1>7, <1>12, FS_AddElement DEF IInv, Shape
  <2> QED BY <1>4, <1>11, <1>14, <2>2, <2>3, <2>4 DEF IInv, Shape
<1>20. Placed'
  <2>1. \A m \in Lists : lists[m] # << >> => m \in Targets /\ table'[m[2]] # << >>
    <3> SUFFICES ASSUME NEW m \in Lists, lists[m] # << >> PROVE m \in Targets /\ table'[m[2]] # << >>
      OBVIOUS
    <3>1. m \in Targets /\ table[m[2]] # << >> BY <1>4 DEF IInv, Placed
    <3>2. m[2] \in Groups /\ m[2] # g BY <1>4, <3>1, TargetIs
    <3> QED BY <1>16, <3>1, <3>2
  <2>2. table'[op'.list[2]] # << >> => op'.parts = << >> BY <1>1, <1>10, <1>14, <1>15, <1>17
  <2> QED BY <1>4, <1>11, <2>1, <2>2 DEF Placed, NeedsTable
<1>21. Tables' \cup Range(Pending') = Tables \cup Range(Pending) \cup {a}
  <2>1. Tables' = UNION {Range(table'[h]) : h \in Groups} BY <1>11 DEF Tables
  <2> DEFINE Rest == UNION {Range(table[h]) : h \in Groups \ {g}}
  <2>2. Tables = Rest
    <3>1. Range(table[g]) = {} BY <1>4, <1>18
    <3> QED BY <1>6, <3>1 DEF Tables
  <2>3. Tables' = Rest \cup Range(table'[g])
    <3>1. ASSUME NEW x \in Tables' PROVE x \in Rest \cup Range(table'[g])
      <4>1. PICK h \in Groups : x \in Range(table'[h]) BY <2>1
      <4>2. CASE h = g BY <4>1, <4>2
      <4>3. CASE h # g BY <1>16, <4>1, <4>3
      <4> QED BY <4>2, <4>3
    <3>2. ASSUME NEW x \in Rest PROVE x \in Tables'
      <4>1. PICK h \in Groups \ {g} : x \in Range(table[h]) OBVIOUS
      <4>2. table'[h] = table[h] BY <1>16
      <4> QED BY <2>1, <4>1, <4>2
    <3>3. Range(table'[g]) \subseteq Tables' BY <1>6, <2>1
    <3> QED BY <3>1, <3>2, <3>3
  <2> HIDE DEF Rest
  <2> QED BY <1>10, <1>17, <1>18, <2>2, <2>3
<1>22. Owned'
  <2>1. \A l \in Lists : HeapOnce(lists[l]) /\ HeapIn(lists[l]) \subseteq Heap BY DEF IInv, Owned, Blocks
  <2>2. \A l \in Lists : HeapIn(lists[l]) \cap (Tables' \cup Range(Pending')) = {} BY <1>7, <1>21, <2>1 DEF IInv, Owned
  <2>3. \A h \in Groups : Once(table'[h]) BY <1>10, <1>16, <1>17, <1>18 DEF IInv, Owned
  <2>4. \A h \in Groups : Range(table[h]) \subseteq Tables BY DEF Tables
  <2>5. Tables \cap Range(parts) = {} BY <1>7, <1>9, <1>10 DEF IInv, Owned
  <2>6. \A h, i \in Groups : h # i => Range(table'[h]) \cap Range(table'[i]) = {}
    <3>1. \A h \in Groups : h # g => Range(table'[h]) \cap Range(table'[g]) = {} BY <1>16, <1>17, <1>18, <2>4, <2>5
    <3> QED BY <1>16, <3>1 DEF IInv, Owned
  <2>7. Once(Pending') BY <1>10, <1>17, <1>18
  <2>8. Tables' \cap Range(Pending') = {}
    <3>1. CASE Pending' = << >> BY <1>18, <3>1
    <3>2. CASE table'[g] = << >> /\ Pending' = parts
      <4>1. table' = table BY <1>4, <1>10, <1>14, <1>15, <3>2
      <4>2. Tables' = Tables BY <1>11, <4>1 DEF Tables
      <4> QED BY <2>5, <3>2, <4>2
    <3> QED BY <1>17, <3>1, <3>2
  <2>9. Heap' = Blocks' \cup Tables' \cup Range(Pending') BY <1>9, <1>12, <1>13, <1>21
  <2> QED BY <1>4, <1>11, <2>1, <2>2, <2>3, <2>6, <2>7, <2>8, <2>9 DEF Owned, IInv
<1>23. FreedOnce' BY <1>4 DEF FreedOnce, Running
<1> QED BY <1>19, <1>20, <1>22, <1>23 DEF IInv

-----------------------------------------------------------------------------
(* FreeRelocInfo                                                            *)

\* What FreeRelocList frees of a list.
LEMMA InHeapIs ==
  ASSUME IInv, NEW l \in Lists
  PROVE  InHeap(l) \in Seq(Nat) /\ Once(InHeap(l)) /\ Range(InHeap(l)) = HeapIn(lists[l])
<1>1. PICK bl : bl = lists[l] OBVIOUS
<1>2. bl \in Seq(Block) /\ HeapOnce(bl) BY <1>1 DEF IInv, Shape, Owned
<1> DEFINE ss == [i \in DOMAIN bl |-> IF bl[i].spilled THEN << >> ELSE <<bl[i].loc>>]
<1>3. InHeap(l) = FlattenSeq(ss) BY <1>1 DEF InHeap
<1>4. \A i \in DOMAIN bl : bl[i].loc \in Nat
  <2>1. \A i \in DOMAIN bl : bl[i] \in Block BY <1>2, Elements
  <2>2. \A b \in Block : b.loc \in Nat BY DEF Block
  <2> QED BY <2>1, <2>2
<1>5. \A i \in DOMAIN bl : ss[i] = IF bl[i].spilled THEN << >> ELSE <<bl[i].loc>> OBVIOUS
<1>6. \A i \in DOMAIN bl : /\ ss[i] \in Seq(Nat) /\ Once(ss[i])
                           /\ Range(ss[i]) = IF bl[i].spilled THEN {} ELSE {bl[i].loc}
  <2>1. \A x \in Nat : <<x>> \in Seq(Nat) /\ Once(<<x>>) /\ Range(<<x>>) = {x} BY DEF Once, Range
  <2>2. << >> \in Seq(Nat) /\ Once(<< >>) /\ Range(<< >>) = {} BY DEF Once, Range
  <2> HIDE DEF ss
  <2> QED BY <1>4, <1>5, <2>1, <2>2
<1>7. ss \in Seq(Seq(Nat)) /\ DOMAIN ss = DOMAIN bl
  <2>1. DOMAIN bl = 1 .. Len(bl) /\ Len(bl) \in Nat BY <1>2, Elements
  <2>2. ss = [i \in 1 .. Len(bl) |-> ss[i]] BY <2>1
  <2>3. DOMAIN ss = DOMAIN bl OBVIOUS
  <2> HIDE DEF ss
  <2> QED BY <1>6, <2>1, <2>2, <2>3
<1> HIDE DEF ss
<1>8. ASSUME NEW i \in DOMAIN ss, NEW j \in DOMAIN ss, i # j PROVE Range(ss[i]) \cap Range(ss[j]) = {}
  <2>1. i \in DOMAIN bl /\ j \in DOMAIN bl BY <1>7
  <2>2. ~bl[i].spilled /\ ~bl[j].spilled => bl[i].loc # bl[j].loc BY <1>2, <1>8, <2>1 DEF HeapOnce
  <2> QED BY <1>6, <2>1, <2>2
<1>9. FlattenSeq(ss) \in Seq(Nat) /\ Once(FlattenSeq(ss)) BY <1>6, <1>7, <1>8, FlattenHas, FlattenOnce
<1>10. ASSUME NEW x \in Range(FlattenSeq(ss)) PROVE x \in HeapIn(bl)
  <2>1. PICK i \in DOMAIN ss : x \in Range(ss[i]) BY <1>7, FlattenHas
  <2>2. ~bl[i].spilled /\ x = bl[i].loc BY <1>6, <1>7, <2>1
  <2> QED BY <1>7, <2>1, <2>2 DEF HeapIn
<1>11. ASSUME NEW x \in HeapIn(bl) PROVE x \in Range(FlattenSeq(ss))
  <2>1. PICK i \in DOMAIN bl : ~bl[i].spilled /\ x = bl[i].loc BY DEF HeapIn
  <2>2. x \in Range(ss[i]) /\ i \in DOMAIN ss BY <1>6, <1>7, <2>1
  <2> QED BY <1>7, <2>2, FlattenHas
<1> QED BY <1>1, <1>3, <1>9, <1>10, <1>11

\* The heap blocks of some lists.
Own(S) == UNION {HeapIn(lists[l]) : l \in S}

\* What FreeRelocList frees of lists one after the other.
LEMMA FreeListsIs ==
  ASSUME IInv, NEW s \in Seq(Lists), Once(s), NEW ss, ss = [i \in DOMAIN s |-> InHeap(s[i])]
  PROVE  /\ FlattenSeq(ss) \in Seq(Nat) /\ Once(FlattenSeq(ss)) /\ Range(FlattenSeq(ss)) = Own(Range(s))
<1>1. DOMAIN s = 1 .. Len(s) /\ Len(s) \in Nat /\ \A i \in DOMAIN s : s[i] \in Lists BY Elements
<1>2. DOMAIN ss = DOMAIN s /\ \A i \in DOMAIN s : ss[i] = InHeap(s[i]) OBVIOUS
<1>3. \A i \in DOMAIN s : ss[i] \in Seq(Nat) /\ Once(ss[i]) /\ Range(ss[i]) = HeapIn(lists[s[i]])
  BY <1>1, <1>2, InHeapIs
<1>4. ss \in Seq(Seq(Nat))
  <2>1. ss = [i \in 1 .. Len(s) |-> ss[i]] BY <1>1
  <2> QED BY <1>1, <1>3, <2>1
<1>5. ASSUME NEW i \in DOMAIN ss, NEW j \in DOMAIN ss, i # j PROVE Range(ss[i]) \cap Range(ss[j]) = {}
  <2>1. i \in DOMAIN s /\ j \in DOMAIN s /\ s[i] # s[j] BY <1>2, <1>5 DEF Once
  <2>2. HeapIn(lists[s[i]]) \cap HeapIn(lists[s[j]]) = {} BY <1>1, <2>1 DEF IInv, Owned
  <2> QED BY <1>3, <2>1, <2>2
<1>6. FlattenSeq(ss) \in Seq(Nat) /\ Once(FlattenSeq(ss)) BY <1>2, <1>3, <1>4, <1>5, FlattenHas, FlattenOnce
<1>7. ASSUME NEW x \in Range(FlattenSeq(ss)) PROVE x \in Own(Range(s))
  <2>1. PICK i \in DOMAIN ss : x \in Range(ss[i]) BY <1>4, FlattenHas
  <2>2. x \in HeapIn(lists[s[i]]) /\ s[i] \in Range(s) BY <1>2, <1>3, <2>1 DEF Range
  <2> QED BY <2>2 DEF Own
<1>8. ASSUME NEW x \in Own(Range(s)) PROVE x \in Range(FlattenSeq(ss))
  <2>1. PICK l \in Range(s) : x \in HeapIn(lists[l]) BY DEF Own
  <2>2. PICK i \in DOMAIN s : l = s[i] BY <2>1 DEF Range
  <2>3. x \in Range(ss[i]) /\ i \in DOMAIN ss BY <1>2, <1>3, <2>1, <2>2
  <2> QED BY <1>4, <2>3, FlattenHas
<1> QED BY <1>6, <1>7, <1>8

LEMMA FreePagedIs ==
  ASSUME IInv, Paged, NEW ff, ff = FlattenSeq([g \in Groups |-> FreeGroupRelocs(g)])
  PROVE  ff \in Seq(Nat) /\ Once(ff) /\ Range(ff) = Blocks \cup Tables
<1> DEFINE F == [g \in Groups |-> FreeGroupRelocs(g)]
           All(g) == TraverseOS2RelocList(g)
<1>1. ASSUME NEW g \in Groups
      PROVE  /\ All(g) \in Seq(Lists) /\ Once(All(g)) /\ \A l \in Range(All(g)) : l[2] = g
             /\ FreeGroupRelocs(g) \in Seq(Nat) /\ Once(FreeGroupRelocs(g))
             /\ Range(FreeGroupRelocs(g)) = Own(Range(All(g))) \cup Range(table[g])
  <2>1. PICK s : s = All(g) OBVIOUS
  <2>2. s \in Seq(PageHeads) /\ Once(s) /\ Range(s) = IF table[g] = << >> THEN {} ELSE FirstHeads(g, GroupPages[g].total)
    BY <2>1, TraverseAre
  <2>3. \A l \in Range(s) : l \in Lists /\ l[2] = g BY <2>2, ListsAre, HeadOf, Limits
  <2>4. s \in Seq(Lists)
    <3>1. \A i \in DOMAIN s : s[i] \in Lists BY <2>3 DEF Range
    <3>2. DOMAIN s = 1 .. Len(s) /\ Len(s) \in Nat /\ s = [i \in 1 .. Len(s) |-> s[i]] BY <2>2
    <3> QED BY <3>1, <3>2
  <2>5. PICK t : t = FlattenSeq([i \in DOMAIN s |-> InHeap(s[i])]) OBVIOUS
  <2>6. t \in Seq(Nat) /\ Once(t) /\ Range(t) = Own(Range(s)) BY <2>2, <2>4, <2>5, FreeListsIs
  <2>7. FreeGroupRelocs(g) = t \o table[g] BY <2>1, <2>5 DEF FreeGroupRelocs
  <2>8. table[g] \in Seq(Nat) /\ Once(table[g]) BY DEF IInv, Shape, Owned
  <2>9. Range(t) \cap Range(table[g]) = {}
    <3>1. Range(table[g]) \subseteq Tables BY DEF Tables
    <3> QED BY <2>3, <2>6, <3>1 DEF Own, IInv, Owned
  <2> QED BY <2>1, <2>2, <2>3, <2>4, <2>6, <2>7, <2>8, <2>9, JoinHas
<1> HIDE DEF All
<1>2. F \in Seq(Seq(Nat)) /\ DOMAIN F = Groups /\ \A g \in Groups : F[g] = FreeGroupRelocs(g)
  <2>1. F \in [1 .. Len(GroupPages) -> Seq(Nat)] BY <1>1, Limits
  <2> QED BY <2>1, Limits
<1>3. ff = FlattenSeq(F) OBVIOUS
<1> HIDE DEF F
<1>4. ASSUME NEW g \in DOMAIN F, NEW h \in DOMAIN F, g # h PROVE Range(F[g]) \cap Range(F[h]) = {}
  <2>1. g \in Groups /\ h \in Groups BY <1>2
  <2>2. \A l \in Range(All(g)), m \in Range(All(h)) : l # m BY <1>1, <2>1, <1>4
  <2>3. \A i \in Groups : \A l \in Range(All(i)) : l \in Lists BY <1>1, Elements DEF Range
  <2>4. Own(Range(All(g))) \cap Own(Range(All(h))) = {} BY <2>1, <2>2, <2>3 DEF Own, IInv, Owned
  <2>5. \A i, j \in Groups : Own(Range(All(i))) \cap Range(table[j]) = {}
    <3>1. \A j \in Groups : Range(table[j]) \subseteq Tables BY DEF Tables
    <3> QED BY <2>3, <3>1 DEF Own, IInv, Owned
  <2>6. Range(table[g]) \cap Range(table[h]) = {} BY <2>1, <1>4 DEF IInv, Owned
  <2>7. Range(F[g]) = Own(Range(All(g))) \cup Range(table[g]) /\ Range(F[h]) = Own(Range(All(h))) \cup Range(table[h])
    BY <1>1, <1>2, <2>1
  <2> QED BY <2>1, <2>4, <2>5, <2>6, <2>7
<1>5. FlattenSeq(F) \in Seq(Nat) /\ Once(FlattenSeq(F)) BY <1>1, <1>2, <1>4, FlattenHas, FlattenOnce
<1>6. ASSUME NEW x \in Range(FlattenSeq(F)) PROVE x \in Blocks \cup Tables
  <2>1. PICK g \in Groups : x \in Range(F[g]) BY <1>2, FlattenHas
  <2>2. CASE x \in Range(table[g]) BY <2>2 DEF Tables
  <2>3. CASE x \in Own(Range(All(g)))
    <3>1. \A l \in Range(All(g)) : l \in Lists BY <1>1, Elements DEF Range
    <3> QED BY <2>3, <3>1 DEF Own, Blocks
  <2> QED BY <1>1, <1>2, <2>1, <2>2, <2>3
<1>7. ASSUME NEW x \in Tables PROVE x \in Range(FlattenSeq(F))
  <2>1. PICK g \in Groups : x \in Range(table[g]) BY DEF Tables
  <2>2. x \in Range(F[g]) BY <1>1, <1>2, <2>1
  <2> QED BY <1>2, <2>2, FlattenHas
<1>8. ASSUME NEW x \in Blocks PROVE x \in Range(FlattenSeq(F))
  <2>1. PICK l \in Lists : x \in HeapIn(lists[l]) BY DEF Blocks
  <2>2. lists[l] # << >> BY <2>1 DEF HeapIn
  <2>3. l \in Targets /\ table[l[2]] # << >> BY <2>2 DEF IInv, Placed
  <2>4. PICK g \in Groups : l[2] = g /\ l \in FirstHeads(g, GroupPages[g].size) BY <2>3, TargetIs
  <2>5. l \in FirstHeads(g, GroupPages[g].total) BY <2>4, MoreHeads, Limits
  <2>6. l \in Range(All(g)) BY <2>3, <2>4, <2>5, TraverseAre DEF All
  <2>7. x \in Range(F[g]) BY <1>1, <1>2, <2>1, <2>4, <2>6 DEF Own
  <2> QED BY <1>2, <2>4, <2>7, FlattenHas
<1> QED BY <1>3, <1>5, <1>6, <1>7, <1>8

\* The lists of groups and of sections.
LEMMA PlainLists ==
  /\ ~Paged => GroupLists \in Seq(Lists)
  /\ Once(GroupLists) /\ Range(GroupLists) = {<<"group", g>> : g \in Groups} /\ DOMAIN GroupLists = Groups
  /\ SectLists \in Seq(Lists) /\ Once(SectLists) /\ Range(SectLists) = {<<"sect", s>> : s \in 1 .. NumSects}
  /\ DOMAIN SectLists = 1 .. NumSects
<1>1. ~Paged => GroupLists \in Seq(Lists)
  <2> SUFFICES ASSUME ~Paged PROVE GroupLists \in Seq(Lists)
    OBVIOUS
  <2>1. GroupLists \in [1 .. Len(GroupPages) -> Lists] BY ListsAre, Limits DEF GroupLists
  <2> QED BY <2>1, Limits
<1>2. SectLists \in Seq(Lists)
  <2>1. SectLists \in [1 .. NumSects -> Lists] BY ListsAre DEF SectLists
  <2> QED BY <2>1, Limits
<1> QED BY <1>1, <1>2 DEF GroupLists, SectLists, Once, Range

LEMMA FreeRelocInfoOK == ASSUME IInv, FreeRelocInfo PROVE IInv'
<1>1. UNCHANGED <<fmt, lists, table, mem, op, count, linkError>> /\ phase' = "done" BY DEF FreeRelocInfo
<1>2. freed' \in Seq(Nat) /\ Once(freed') /\ Range(freed') = Blocks \cup Tables
  <2> DEFINE ff == FlattenSeq([g \in Groups |-> FreeGroupRelocs(g)])
             fs == FlattenSeq([s \in 1 .. NumSects |-> InHeap(SectLists[s])])
  <2>0. \A s \in Seq(Nat) : s \o << >> = s OBVIOUS
  <2>1. CASE Paged
    <3>1. ff \in Seq(Nat) /\ Once(ff) /\ Range(ff) = Blocks \cup Tables BY <2>1, FreePagedIs
    <3>2. freed' = ff \o << >> BY <2>1 DEF FreeRelocInfo, Paged
    <3> QED BY <2>0, <3>1, <3>2
  <2>2. ~Paged => Tables = {}
    <3>1. Range(<< >>) = {} BY DEF Range
    <3> QED BY <3>1 DEF Tables, IInv, Placed
  <2>3. \A l \in Lists : HeapIn(lists[l]) # {} => l \in Targets
    <3>1. \A l \in Lists : HeapIn(lists[l]) # {} => lists[l] # << >> BY DEF HeapIn
    <3> QED BY <3>1 DEF IInv, Placed
  <2>4. \A S : S \subseteq Lists /\ Targets \subseteq S => Own(S) = Blocks BY <2>3 DEF Own, Blocks
  <2>5. ~Paged => ff \in Seq(Nat) /\ Once(ff) /\ Range(ff) = Own(Range(GroupLists))
    <3> SUFFICES ASSUME ~Paged PROVE ff \in Seq(Nat) /\ Once(ff) /\ Range(ff) = Own(Range(GroupLists))
      OBVIOUS
    <3>1. [g \in Groups |-> FreeGroupRelocs(g)] = [g \in DOMAIN GroupLists |-> InHeap(GroupLists[g])]
      BY PlainLists DEF FreeGroupRelocs, GroupLists
    <3> QED BY <3>1, PlainLists, FreeListsIs
  <2>6. fs \in Seq(Nat) /\ Once(fs) /\ Range(fs) = Own(Range(SectLists))
    <3>1. [s \in 1 .. NumSects |-> InHeap(SectLists[s])] = [s \in DOMAIN SectLists |-> InHeap(SectLists[s])]
      BY PlainLists
    <3> QED BY <3>1, PlainLists, FreeListsIs
  <2>7. CASE fmt \in {"elf", "os2"}
    <3>1. freed' = ff \o << >> /\ ~Paged BY <2>7 DEF FreeRelocInfo, Paged
    <3>2. Targets = Range(GroupLists) BY <2>7 DEF Targets
    <3>3. Range(GroupLists) \subseteq Lists BY <3>1, ListsAre, PlainLists
    <3> HIDE DEF ff
    <3> QED BY <2>0, <2>2, <2>4, <2>5, <3>1, <3>2, <3>3
  <2>8. CASE fmt = "qnx"
    <3>1. PICK ft : ft = InHeap(FloatFixups) OBVIOUS
    <3>2. PICK st : st = InHeap(SectLists[1]) OBVIOUS
    <3>3. freed' = ff \o (ft \o st) /\ ~Paged BY <2>8, <3>1, <3>2 DEF FreeRelocInfo, Paged
    <3>4. Targets = Range(GroupLists) \cup {FloatFixups, SectLists[1]} BY <2>8 DEF Targets
    <3>5. FloatFixups \in Lists /\ SectLists[1] \in Lists /\ FloatFixups # SectLists[1]
          /\ FloatFixups \notin Range(GroupLists) /\ SectLists[1] \notin Range(GroupLists)
      <4>1. SectLists[1] = <<"sect", 1>> BY Limits DEF SectLists
      <4> QED BY <4>1, ListsAre, PlainLists, Limits DEF FloatFixups
    <3>6. ft \in Seq(Nat) /\ Once(ft) /\ Range(ft) = HeapIn(lists[FloatFixups])
          /\ st \in Seq(Nat) /\ Once(st) /\ Range(st) = HeapIn(lists[SectLists[1]])
      BY <3>1, <3>2, <3>5, InHeapIs
    <3>7. Range(ft) \cap Range(st) = {} BY <3>5, <3>6 DEF IInv, Owned
    <3>8. ft \o st \in Seq(Nat) /\ Once(ft \o st) /\ Range(ft \o st) = Range(ft) \cup Range(st) BY <3>6, <3>7, JoinHas
    <3>9. Range(GroupLists) \subseteq Lists BY <3>3, ListsAre, PlainLists
    <3> HIDE DEF ff
    <3>10. Range(ff) \cap Range(ft \o st) = {}
      <4> SUFFICES ASSUME NEW x, x \in Range(ff), x \in Range(ft) \cup Range(st) PROVE FALSE
        BY <3>8
      <4>1. PICK l \in Range(GroupLists) : x \in HeapIn(lists[l]) BY <2>5, <3>3 DEF Own
      <4>2. PICK m \in {FloatFixups, SectLists[1]} : x \in HeapIn(lists[m]) BY <3>6
      <4>3. l \in Lists /\ m \in Lists /\ l # m BY <3>5, <3>9
      <4> QED BY <4>1, <4>2, <4>3 DEF IInv, Owned
    <3>11. freed' \in Seq(Nat) /\ Once(freed') /\ Range(freed') = Range(ff) \cup Range(ft \o st)
      <4>1. PICK t : t = ft \o st OBVIOUS
      <4>2. ff \in Seq(Nat) /\ t \in Seq(Nat) /\ Once(ff) /\ Once(t) /\ Range(ff) \cap Range(t) = {}
        BY <2>5, <3>3, <3>8, <3>10, <4>1
      <4>3. ff \o t \in Seq(Nat) /\ Once(ff \o t) /\ Range(ff \o t) = Range(ff) \cup Range(t) BY <4>2, JoinHas
      <4> QED BY <3>3, <4>1, <4>3
    <3>12. Own(Targets) = Own(Range(GroupLists)) \cup HeapIn(lists[FloatFixups]) \cup HeapIn(lists[SectLists[1]])
      BY <3>4 DEF Own
    <3>13. Targets \subseteq Lists BY <3>4, <3>5, <3>9
    <3>14. Own(Targets) = Range(ff) \cup Range(ft \o st) BY <2>5, <3>3, <3>6, <3>8, <3>12
    <3>15. Own(Targets) = Blocks BY <2>4, <3>13
    <3>16. Tables = {} BY <2>2, <3>3
    <3> QED BY <3>11, <3>14, <3>15, <3>16
  <2>9. CASE fmt \notin {"flat", "pe", "os2", "elf", "qnx"}
    <3>1. freed' = fs \o << >> /\ ~Paged BY <2>9 DEF FreeRelocInfo, Paged
    <3>2. Targets = Range(SectLists) BY <2>9 DEF Targets
    <3>3. Range(SectLists) \subseteq Lists BY ListsAre, PlainLists
    <3> HIDE DEF fs
    <3> QED BY <2>0, <2>2, <2>4, <2>6, <3>1, <3>2, <3>3
  <2> QED BY <2>1, <2>7, <2>8, <2>9 DEF Paged
<1>3. Lists' = Lists /\ Targets' = Targets /\ Paged' = Paged /\ Groups' = Groups BY <1>1, FmtSame
<1>4. Heap' = Heap /\ Pending' = Pending /\ Tables' = Tables /\ Blocks' = Blocks
  BY <1>1, <1>3 DEF Heap, Pending, Tables, Blocks, mem
<1>5. Shape'
  <2>1. \A g \in Groups : Parts(g)' = Parts(g) BY DEF Parts
  <2>2. (\A l \in Lists : \A k \in DOMAIN lists[l] : BlockOK(lists[l][k]))'
    <3>1. \A l \in Lists : \A k \in DOMAIN lists[l] : BlockOK(lists[l][k]) BY DEF IInv, Shape
    <3> QED BY <1>1, <1>3, <1>4, <3>1 DEF BlockOK, mem
  <2> QED BY <1>1, <1>3, <1>4, <2>1, <2>2 DEF IInv, Shape, mem
<1>6. Placed' BY <1>1, <1>3 DEF IInv, Placed, NeedsTable
<1>7. Owned' BY <1>1, <1>3, <1>4 DEF IInv, Owned
<1>8. FreedOnce'
  <2>1. \A i, j \in DOMAIN freed' : freed'[i] = freed'[j] => i = j BY <1>2 DEF Once
  <2>2. Heap' = Blocks \cup Tables \cup Range(Pending) /\ Tables \cap Range(Pending) = {} BY <1>4 DEF IInv, Owned
  <2>3. Blocks \cap Range(Pending) = {} BY DEF Blocks, IInv, Owned
  <2>4. Range(Pending) = IF op' = NoOp THEN {} ELSE Range(op'.parts)
    <3>1. Range(<< >>) = {} BY DEF Range
    <3> QED BY <1>1, <3>1 DEF Pending
  <2>5. Heap' \ Range(freed') = (IF op' = NoOp THEN {} ELSE Range(op'.parts)) BY <1>2, <2>2, <2>3, <2>4
  <2>6. Range(freed') \subseteq Heap' BY <1>2, <2>2
  <2> QED BY <2>1, <2>5, <2>6 DEF FreedOnce
<1> QED BY <1>5, <1>6, <1>7, <1>8 DEF IInv

-----------------------------------------------------------------------------
(* Sizes                                                                    *)

\* The running totals Total computes.
Running0(f, blocks) ==
  /\ f[0] = 0
  /\ \A i \in 1 .. Len(blocks) : f[i] = f[i - 1] + Used(blocks[i])

LEMMA UsedIs == ASSUME NEW b \in Block PROVE Used(b) \in 0 .. PageSize /\ Used(b) \in Nat
BY Limits DEF Used, Block

LEMMA TotalSteps ==
  ASSUME NEW blocks \in Seq(Block)
  PROVE  \E f : Running0(f, blocks) /\ Total(blocks) = f[Len(blocks)]
<1> DEFINE N == Len(blocks)
           Rec(f, n) == f = [i \in 0 .. n |-> IF i = 0 THEN 0 ELSE f[i - 1] + Used(blocks[i])]
           Has(n) == \E f : Rec(f, n)
           Bad == {n \in Nat : n <= N /\ ~Has(n)}
<1>1. N \in Nat OBVIOUS
<1>2. Has(0)
  <2> DEFINE g == [i \in 0 .. 0 |-> 0]
  <2>1. g = [i \in 0 .. 0 |-> IF i = 0 THEN 0 ELSE g[i - 1] + Used(blocks[i])] OBVIOUS
  <2> HIDE DEF g
  <2> QED BY <2>1
<1>3. ASSUME NEW n \in Nat \ {0}, n <= N, Has(n - 1) PROVE Has(n)
  <2>1. PICK f : Rec(f, n - 1) BY <1>3
  <2>2. \A i \in 0 .. n - 1 : f[i] = IF i = 0 THEN 0 ELSE f[i - 1] + Used(blocks[i]) BY <2>1
  <2> HIDE DEF Rec
  <2> DEFINE g == [i \in 0 .. n |-> IF i < n THEN f[i] ELSE f[i - 1] + Used(blocks[i])]
  <2>3. ASSUME NEW i \in 0 .. n PROVE g[i] = IF i = 0 THEN 0 ELSE g[i - 1] + Used(blocks[i])
    <3>1. CASE i = n
      <4>1. g[n] = f[n - 1] + Used(blocks[n]) /\ g[n - 1] = f[n - 1] OBVIOUS
      <4> QED BY <3>1, <4>1
    <3>2. CASE i < n
      <4>1. g[i] = f[i] /\ (i # 0 => g[i - 1] = f[i - 1]) BY <3>2
      <4> HIDE DEF g
      <4>2. i \in 0 .. n - 1 BY <3>2
      <4>3. f[i] = IF i = 0 THEN 0 ELSE f[i - 1] + Used(blocks[i]) BY <2>2, <4>2
      <4> QED BY <4>1, <4>3
    <3> QED BY <3>1, <3>2
  <2>4. g = [i \in 0 .. n |-> g[i]] OBVIOUS
  <2>5. Rec(g, n)
    <3> HIDE DEF g
    <3> QED BY <2>3, <2>4 DEF Rec
  <2> HIDE DEF g
  <2> QED BY <2>5
<1>4. Has(N)
  <2> HIDE DEF Has
  <2> SUFFICES ASSUME ~Has(N) PROVE FALSE
    OBVIOUS
  <2>1. N \in Bad /\ Bad \in SUBSET Nat BY <1>1
  <2>2. PICK n \in Bad : \A m \in Bad : n <= m
    <3> HIDE DEF Bad
    <3> QED BY <2>1, Least
  <2>3. n \in Nat \ {0} /\ n <= N /\ ~Has(n) BY <1>2
  <2>4. n - 1 \notin Bad BY <2>2, <2>3
  <2> QED BY <1>3, <2>3, <2>4
<1> DEFINE f == CHOOSE f : Rec(f, N)
<1>5. Rec(f, N)
  <2> HIDE DEF Rec
  <2> QED BY <1>4
<1>6. Total(blocks) = f[N] BY Zenon DEF Total
<1> HIDE DEF f
<1>7. \A i \in 0 .. N : f[i] = IF i = 0 THEN 0 ELSE f[i - 1] + Used(blocks[i]) BY <1>5
<1> HIDE DEF Rec, N
<1>8. f[0] = 0 BY <1>1, <1>7
<1>9. ASSUME NEW i \in 1 .. N PROVE f[i] = f[i - 1] + Used(blocks[i])
  <2>1. i \in 0 .. N /\ i # 0 BY <1>1
  <2>2. f[i] = IF i = 0 THEN 0 ELSE f[i - 1] + Used(blocks[i]) BY <1>7, <2>1
  <2> QED BY <2>1, <2>2
<1> QED BY <1>6, <1>8, <1>9 DEF N, Running0

\* Two running totals that begin and go on alike are alike.
LEMMA TotalIs ==
  ASSUME NEW blocks \in Seq(Block), NEW f, Running0(f, blocks)
  PROVE  Total(blocks) = f[Len(blocks)] /\ \A i \in 0 .. Len(blocks) : f[i] \in Nat
<1>1. PICK g : Running0(g, blocks) /\ Total(blocks) = g[Len(blocks)] BY TotalSteps
<1>2. PICK N : N = Len(blocks) OBVIOUS
<1> DEFINE Bad == {n \in Nat : n <= N /\ ~(f[n] = g[n] /\ f[n] \in Nat)}
<1>3. Bad = {}
  <2> SUFFICES ASSUME Bad # {} PROVE FALSE
    OBVIOUS
  <2>1. PICK n \in Bad : \A m \in Bad : n <= m
    <3>1. Bad \in SUBSET Nat OBVIOUS
    <3> HIDE DEF Bad
    <3> QED BY <3>1, Least
  <2>2. n \in Nat /\ n <= N /\ ~(f[n] = g[n] /\ f[n] \in Nat) OBVIOUS
  <2>3. n # 0 BY <1>1, <2>2 DEF Running0
  <2>4. f[n - 1] = g[n - 1] /\ f[n - 1] \in Nat
    <3>1. n - 1 \in Nat /\ n - 1 <= N /\ ~(n <= n - 1) BY <1>2, <2>2, <2>3
    <3>2. n - 1 \notin Bad BY <2>1, <3>1
    <3> QED BY <3>1, <3>2
  <2>5. n \in 1 .. Len(blocks) BY <1>2, <2>2, <2>3
  <2>6. Used(blocks[n]) \in Nat BY <2>5, UsedIs, Elements
  <2> QED BY <1>1, <2>2, <2>4, <2>5, <2>6 DEF Running0
<1>4. N \in Nat BY <1>2
<1>5. \A i \in 0 .. N : f[i] = g[i] /\ f[i] \in Nat BY <1>3
<1>6. N \in 0 .. N BY <1>4
<1> QED BY <1>1, <1>2, <1>5, <1>6

LEMMA TotalOne == ASSUME NEW blocks \in Seq(Block) 
                  PROVE  Total(blocks) \in Nat /\ (Len(blocks) = 1 => Total(blocks) = Used(blocks[1])) /\ (Len(blocks) = 0 => Total(blocks) = 0)
<1>1. PICK f : Running0(f, blocks) /\ Total(blocks) = f[Len(blocks)] BY TotalSteps
<1>2. \A i \in 0 .. Len(blocks) : f[i] \in Nat BY <1>1, TotalIs
<1>3. Len(blocks) \in Nat /\ Len(blocks) \in 0 .. Len(blocks) OBVIOUS
<1>4. f[0] = 0 BY <1>1 DEF Running0
<1>5. ASSUME Len(blocks) = 1 PROVE Total(blocks) = Used(blocks[1])
  <2>1. f[1] = f[1 - 1] + Used(blocks[1]) /\ 1 - 1 = 0 BY <1>1, <1>5 DEF Running0
  <2>2. Used(blocks[1]) \in Nat BY <1>5, Elements, UsedIs
  <2> QED BY <1>1, <1>4, <1>5, <2>1, <2>2
<1> QED BY <1>1, <1>2, <1>3, <1>4, <1>5

\* A block in front, and more in the first block.
LEMMA TotalFront ==
  ASSUME NEW old \in Seq(Block), NEW b \in Block
  PROVE  Total(<<b>> \o old) = Used(b) + Total(old)
<1>1. PICK f : Running0(f, old) /\ Total(old) = f[Len(old)] BY TotalSteps
<1>2. \A i \in 0 .. Len(old) : f[i] \in Nat BY <1>1, TotalIs
<1>3. PICK new : new = <<b>> \o old OBVIOUS
<1>4. new \in Seq(Block) /\ Len(new) = Len(old) + 1 /\ new[1] = b /\ \A i \in 2 .. Len(new) : new[i] = old[i - 1]
  <2> HIDE DEF Block
  <2> QED BY <1>3
<1>5. Len(old) \in Nat /\ Used(b) \in Nat BY UsedIs
<1> DEFINE g == [i \in 0 .. Len(old) + 1 |-> IF i = 0 THEN 0 ELSE Used(b) + f[i - 1]]
<1>6. g[0] = 0 /\ \A i \in 1 .. Len(new) : g[i] = Used(b) + f[i - 1] BY <1>4, <1>5
<1> HIDE DEF g
<1>7. ASSUME NEW i \in 1 .. Len(new) PROVE g[i] = g[i - 1] + Used(new[i])
  <2>1. CASE i = 1
    <3>1. g[1] = Used(b) + f[1 - 1] /\ 1 - 1 = 0 BY <1>4, <1>5, <1>6
    <3>2. f[0] = 0 BY <1>1 DEF Running0
    <3> QED BY <1>4, <1>5, <1>6, <2>1, <3>1, <3>2
  <2>2. CASE i # 1
    <3>1. i \in 2 .. Len(new) /\ i - 1 \in 1 .. Len(old) /\ i - 1 \in 1 .. Len(new) /\ (i - 1) - 1 \in 0 .. Len(old) BY <1>4, <1>5, <2>2
    <3>2. g[i] = Used(b) + f[i - 1] /\ g[i - 1] = Used(b) + f[(i - 1) - 1] BY <1>6, <3>1
    <3>3. f[i - 1] = f[(i - 1) - 1] + Used(old[i - 1]) BY <1>1, <3>1 DEF Running0
    <3>4. new[i] = old[i - 1] BY <1>4, <3>1
    <3>5. Used(old[i - 1]) \in Nat BY <3>1, Elements, UsedIs
    <3>6. f[(i - 1) - 1] \in Nat BY <1>2, <3>1
    <3> QED BY <1>5, <3>2, <3>3, <3>4, <3>5, <3>6
  <2> QED BY <2>1, <2>2
<1>8. Total(new) = g[Len(new)] BY <1>4, <1>6, <1>7, TotalIs DEF Running0
<1>9. g[Len(new)] = Used(b) + f[Len(old)]
  <2>1. Len(new) \in 1 .. Len(new) /\ Len(new) - 1 = Len(old) BY <1>4, <1>5
  <2> QED BY <1>6, <2>1
<1> QED BY <1>1, <1>3, <1>8, <1>9

LEMMA TotalMore ==
  ASSUME NEW old \in Seq(Block), NEW new \in Seq(Block), Len(new) = Len(old), old # << >>, NEW n \in Nat,
         Used(new[1]) = Used(old[1]) + n, \A i \in 2 .. Len(old) : Used(new[i]) = Used(old[i])
  PROVE  Total(new) = Total(old) + n
<1>1. PICK f : Running0(f, old) /\ Total(old) = f[Len(old)] BY TotalSteps
<1>2. \A i \in 0 .. Len(old) : f[i] \in Nat BY <1>1, TotalIs
<1>3. Len(old) \in Nat /\ Len(old) >= 1 OBVIOUS
<1> DEFINE g == [i \in 0 .. Len(old) |-> IF i = 0 THEN 0 ELSE f[i] + n]
<1>4. g[0] = 0 /\ \A i \in 1 .. Len(old) : g[i] = f[i] + n BY <1>3
<1> HIDE DEF g
<1>5. ASSUME NEW i \in 1 .. Len(new) PROVE g[i] = g[i - 1] + Used(new[i])
  <2>1. f[i] = f[i - 1] + Used(old[i]) BY <1>1 DEF Running0
  <2>2. Used(old[i]) \in Nat /\ Used(new[i]) \in Nat BY Elements, UsedIs
  <2>3. i \in Nat /\ i - 1 \in 0 .. Len(old) BY <1>3
  <2>4. f[i - 1] \in Nat BY <1>2, <2>3
  <2>5. CASE i = 1
    <3>1. f[1 - 1] = 0 /\ g[1 - 1] = 0 BY <1>1, <1>4 DEF Running0
    <3> QED BY <1>3, <1>4, <2>1, <2>2, <2>5, <3>1
  <2>6. CASE i # 1
    <3>1. i - 1 \in 1 .. Len(old) /\ i \in 2 .. Len(old) BY <1>3, <2>3, <2>6
    <3>2. g[i - 1] = f[i - 1] + n /\ g[i] = f[i] + n /\ Used(new[i]) = Used(old[i]) BY <1>4, <3>1
    <3> QED BY <2>1, <2>2, <2>4, <3>2
  <2> QED BY <2>5, <2>6
<1>6. Total(new) = g[Len(new)] BY <1>4, <1>5, TotalIs DEF Running0
<1>7. g[Len(new)] = f[Len(old)] + n BY <1>3, <1>4
<1> QED BY <1>1, <1>6, <1>7

\* The cells of some blocks, one block after the other.
LEMMA FlattenLength ==
  ASSUME NEW T, NEW blocks \in Seq(Block), NEW cs \in Seq(Seq(T)), Len(cs) = Len(blocks), cs # << >>,
         \A j \in 1 .. Len(blocks) : Len(cs[j]) = Used(blocks[j])
  PROVE  Len(FlattenSeq(cs)) = Total(blocks)
<1>1. PICK f : /\ f[1] = cs[1]
               /\ \A i \in 2 .. Len(cs) : f[i] = f[i - 1] \o cs[i]
               /\ FlattenSeq(cs) = f[Len(cs)]
  BY FlattenSteps
<1>2. PICK N : N = Len(cs) OBVIOUS
<1>3. N \in Nat \ {0} BY <1>2
<1>4. \A i \in 1 .. N : cs[i] \in Seq(T) BY <1>2
<1> DEFINE Bad == {n \in Nat : 1 <= n /\ n <= N /\ f[n] \notin Seq(T)}
<1>5. Bad = {}
  <2> SUFFICES ASSUME Bad # {} PROVE FALSE
    OBVIOUS
  <2>1. PICK n \in Bad : \A m \in Bad : n <= m
    <3>1. Bad \in SUBSET Nat OBVIOUS
    <3> HIDE DEF Bad
    <3> QED BY <3>1, Least
  <2>2. n \in Nat /\ 1 <= n /\ n <= N /\ f[n] \notin Seq(T) OBVIOUS
  <2>3. n # 1 BY <1>1, <1>3, <1>4, <2>2
  <2>4. n - 1 \in Nat /\ 1 <= n - 1 /\ n - 1 <= N /\ ~(n <= n - 1) BY <1>3, <2>2, <2>3
  <2>5. n - 1 \notin Bad BY <2>1, <2>4
  <2>6. f[n - 1] \in Seq(T) BY <2>4, <2>5
  <2>7. n \in 2 .. Len(cs) /\ n \in 1 .. N BY <1>2, <1>3, <2>2, <2>3
  <2>8. f[n] = f[n - 1] \o cs[n] BY <1>1, <2>7
  <2>9. f[n - 1] \o cs[n] \in Seq(T) BY <1>4, <2>6, <2>7
  <2> QED BY <2>2, <2>8, <2>9
<1>6. \A i \in 1 .. N : f[i] \in Seq(T) BY <1>5
<1> HIDE DEF Bad
<1> DEFINE g == [i \in 0 .. N |-> IF i = 0 THEN 0 ELSE Len(f[i])]
<1>7. g[0] = 0 /\ \A i \in 1 .. N : g[i] = Len(f[i]) BY <1>3
<1> HIDE DEF g
<1>8. ASSUME NEW i \in 1 .. N PROVE g[i] = g[i - 1] + Used(blocks[i])
  <2>1. Len(cs[i]) = Used(blocks[i]) /\ Len(cs[i]) \in Nat BY <1>2, <1>4
  <2>2. CASE i = 1 BY <1>1, <1>3, <1>7, <2>1, <2>2
  <2>3. CASE i # 1
    <3>1. i - 1 \in 1 .. N /\ i \in 2 .. Len(cs) BY <1>2, <1>3, <2>3
    <3>2. f[i] = f[i - 1] \o cs[i] /\ f[i - 1] \in Seq(T) /\ cs[i] \in Seq(T) BY <1>1, <1>4, <1>6, <3>1
    <3>3. Len(f[i]) = Len(f[i - 1]) + Len(cs[i]) BY <3>2
    <3> QED BY <1>7, <2>1, <3>1, <3>3
  <2> QED BY <2>2, <2>3
<1>9. Running0(g, blocks) BY <1>2, <1>7, <1>8 DEF Running0
<1>10. Total(blocks) = g[N] BY <1>2, <1>9, TotalIs
<1> QED BY <1>1, <1>2, <1>3, <1>7, <1>10

\* DumpMaxRelocList takes the first blocks: all if there is no limit, and
\* otherwise so many that they stay below it, or just one.
LEMMA DumpIs ==
  ASSUME NEW rest \in Seq(Block), rest # << >>, NEW max \in Nat
  PROVE  \E m \in 1 .. Len(rest) : /\ DumpMaxRelocList(rest, max) = SubSeq(rest, 1, m)
                                   /\ max = 0 => m = Len(rest)
                                   /\ max # 0 /\ m # 1 => Total(SubSeq(rest, 1, m)) < max
<1>1. PICK N : N = Len(rest) OBVIOUS
<1>2. N \in Nat \ {0} BY <1>1
<1>3. PICK T : T = [j \in 0 .. N |-> Total(SubSeq(rest, 1, j))] OBVIOUS
<1>4. \A j \in 0 .. N : T[j] = Total(SubSeq(rest, 1, j)) /\ T[j] \in Nat
  <2> SUFFICES ASSUME NEW j \in 0 .. N PROVE Total(SubSeq(rest, 1, j)) \in Nat
    BY <1>3
  <2>1. SubSeq(rest, 1, j) \in Seq(Block)
    <3> HIDE DEF Block
    <3> QED BY <1>1, <1>2
  <2> QED BY <2>1, TotalOne
<1>5. \A m \in 0 .. N : Len(SubSeq(rest, 1, m)) = m /\ \A j \in 0 .. m : SubSeq(SubSeq(rest, 1, m), 1, j) = SubSeq(rest, 1, j)
  <2> HIDE DEF Block
  <2> SUFFICES ASSUME NEW m \in 0 .. N
               PROVE  Len(SubSeq(rest, 1, m)) = m /\ \A j \in 0 .. m : SubSeq(SubSeq(rest, 1, m), 1, j) = SubSeq(rest, 1, j)
    OBVIOUS
  <2>1. Len(SubSeq(rest, 1, m)) = m BY <1>1, <1>2
  <2>2. ASSUME NEW j \in 0 .. m PROVE SubSeq(SubSeq(rest, 1, m), 1, j) = SubSeq(rest, 1, j) BY <1>1, <1>2, <2>1
  <2> QED BY <2>1, <2>2
<1>6. \A m \in 0 .. N : SubSeq(rest, 1, m) = rest <=> m = N BY <1>1, <1>2, <1>5
<1>7. \A m \in 0 .. N : SubSeq(rest, 1, m) # << >> <=> m # 0 BY <1>2, <1>5
<1> DEFINE Good(s) == /\ s = rest \/ (max # 0 /\ Total(SubSeq(rest, 1, Len(s) + 1)) >= max)
                      /\ \A j \in 2 .. Len(s) : max = 0 \/ Total(SubSeq(s, 1, j)) < max
<1>8. \A m \in 1 .. N : Good(SubSeq(rest, 1, m)) <=>
        /\ m = N \/ (max # 0 /\ T[m + 1] >= max)
        /\ \A j \in 2 .. m : max = 0 \/ T[j] < max
  <2> SUFFICES ASSUME NEW m \in 1 .. N
               PROVE  Good(SubSeq(rest, 1, m)) <=>
                        /\ m = N \/ (max # 0 /\ T[m + 1] >= max)
                        /\ \A j \in 2 .. m : max = 0 \/ T[j] < max
    OBVIOUS
  <2>1. PICK s : s = SubSeq(rest, 1, m) OBVIOUS
  <2>2. Len(s) = m /\ (s = rest <=> m = N) /\ \A j \in 2 .. m : SubSeq(s, 1, j) = SubSeq(rest, 1, j) BY <1>2, <1>5, <1>6, <2>1
  <2>3. ASSUME NEW j \in 2 .. m PROVE Total(SubSeq(s, 1, j)) = T[j]
    <3>1. j \in 0 .. N BY <1>2
    <3>2. SubSeq(s, 1, j) = SubSeq(rest, 1, j) BY <2>2
    <3> QED BY <1>4, <3>1, <3>2
  <2>4. m # N => T[m + 1] = Total(SubSeq(rest, 1, m + 1)) BY <1>2, <1>4
  <2> QED BY <2>1, <2>2, <2>3, <2>4
<1>9. DumpMaxRelocList(rest, max) = CHOOSE s \in Prefixes(rest) \ {<< >>} : Good(s) BY DEF DumpMaxRelocList
<1> HIDE DEF Good
<1>10. \E m \in 1 .. N : Good(SubSeq(rest, 1, m))
  <2>1. CASE max = 0
    <3>1. N \in 1 .. N BY <1>2
    <3> QED BY <1>8, <2>1, <3>1
  <2>2. CASE max # 0
    <3> DEFINE Enough == {m \in 1 .. N : m = N \/ T[m + 1] >= max}
    <3>1. Enough \in SUBSET Nat /\ N \in Enough BY <1>2
    <3>2. PICK m \in Enough : \A k \in Enough : m <= k
      <4> HIDE DEF Enough
      <4> QED BY <3>1, Least
    <3>3. m \in 1 .. N /\ (m = N \/ T[m + 1] >= max) OBVIOUS
    <3>4. ASSUME NEW j \in 2 .. m PROVE T[j] < max
      <4>1. j - 1 \in 1 .. N /\ j - 1 # N /\ (j - 1) + 1 = j /\ ~(m <= j - 1) BY <1>2, <3>3
      <4>2. ~(T[(j - 1) + 1] >= max) BY <3>2, <4>1
      <4>3. j \in 0 .. N BY <1>2, <3>3
      <4> QED BY <1>4, <4>1, <4>2, <4>3
    <3> QED BY <1>8, <2>2, <3>3, <3>4
  <2> QED BY <2>1, <2>2
<1>11. \A m \in 1 .. N : SubSeq(rest, 1, m) \in Prefixes(rest) \ {<< >>}
  <2>1. \A m \in 1 .. N : m \in 0 .. N /\ m # 0 BY <1>2
  <2> QED BY <1>1, <1>7, <2>1 DEF Prefixes
<1>12. PICK s : s = DumpMaxRelocList(rest, max) OBVIOUS
<1>13. s \in Prefixes(rest) \ {<< >>} /\ Good(s) BY <1>9, <1>10, <1>11, <1>12
<1>14. PICK m \in 0 .. N : s = SubSeq(rest, 1, m) BY <1>1, <1>13 DEF Prefixes
<1>15. m \in 1 .. N BY <1>2, <1>7, <1>13, <1>14
<1>16. /\ m = N \/ (max # 0 /\ T[m + 1] >= max)
       /\ \A j \in 2 .. m : max = 0 \/ T[j] < max
  BY <1>8, <1>13, <1>14, <1>15
<1>17. m # 1 => m \in 2 .. m BY <1>15
<1>18. T[m] = Total(SubSeq(rest, 1, m)) BY <1>4
<1> QED BY <1>1, <1>12, <1>14, <1>15, <1>16, <1>17, <1>18

-----------------------------------------------------------------------------
(* Cells                                                                    *)

\* What a block holds if r and d are memory and spill file.
FirstCells(a, n) == SubSeq(a, 1, n)
Cont(b, r, d) == FirstCells(IF b.spilled THEN d[b.loc] ELSE r[b.loc], Used(b))

LEMMA ContentIs == \A b : Content(b) = Cont(b, ram, disk)
BY DEF Content, Cont, FirstCells

LEMMA JoinAt ==
  ASSUME NEW S, NEW s \in Seq(S), NEW t \in Seq(S)
  PROVE  /\ s \o t \in Seq(S) /\ Len(s \o t) = Len(s) + Len(t)
         /\ \A p \in 1 .. Len(s) : (s \o t)[p] = s[p]
         /\ \A p \in Len(s) + 1 .. Len(s) + Len(t) : p - Len(s) \in 1 .. Len(t) /\ (s \o t)[p] = t[p - Len(s)]
OBVIOUS

LEMMA PutCells ==
  ASSUME NEW a \in Area, NEW u \in Nat, NEW c \in Seq(Cell \cup {Unset}), u + Len(c) <= PageSize
  PROVE  FirstCells(At(a, u, c), u + Len(c)) = FirstCells(a, u) \o c
<1> DEFINE P == PageSize
           S == Cell \cup {Unset}
<1>0. P \in Nat /\ a \in [1 .. P -> S] /\ c \in Seq(S) /\ u + Len(c) <= P BY Limits DEF Area
<1> HIDE DEF P, S
<1>1. PICK n : n = Len(c) OBVIOUS
<1>2. n \in Nat /\ DOMAIN a = 1 .. P BY <1>0, <1>1
<1>3. PICK e : e = At(a, u, c) OBVIOUS
<1>4. DOMAIN e = 1 .. P /\ \A i \in 1 .. P : e[i] = IF i > u /\ i <= u + n THEN c[i - u] ELSE a[i]
  BY <1>1, <1>2, <1>3 DEF At
<1>5. \A i \in 1 .. P : a[i] \in S BY <1>0
<1>6. \A i \in 1 .. n : c[i] \in S BY <1>0, <1>1
<1>7. \A i \in 1 .. P : e[i] \in S
  <2> SUFFICES ASSUME NEW i \in 1 .. P PROVE e[i] \in S
    OBVIOUS
  <2>1. CASE i > u /\ i <= u + n
    <3>1. i - u \in 1 .. n BY <1>2, <2>1
    <3> QED BY <1>4, <1>6, <2>1, <3>1
  <2>2. CASE ~(i > u /\ i <= u + n) BY <1>4, <1>5, <2>2
  <2> QED BY <2>1, <2>2
<1>8. e \in Seq(S) /\ Len(e) = P
  <2>1. e = [i \in 1 .. P |-> e[i]] BY <1>3, <1>4, <1>2 DEF At
  <2> QED BY <1>0, <1>7, <2>1
<1>9. a \in Seq(S) /\ Len(a) = P BY <1>0
<1>10. PICK x : x = SubSeq(e, 1, u + n) OBVIOUS
<1>11. PICK y : y = SubSeq(a, 1, u) OBVIOUS
<1>12. x \in Seq(S) /\ Len(x) = u + n /\ \A i \in 1 .. u + n : x[i] = e[i] BY <1>0, <1>1, <1>2, <1>8, <1>10
<1>13. y \in Seq(S) /\ Len(y) = u /\ \A i \in 1 .. u : y[i] = a[i] BY <1>0, <1>1, <1>2, <1>9, <1>11
<1>14. PICK z : z = y \o c OBVIOUS
<1>15. z \in Seq(S) /\ Len(z) = u + n /\ (\A i \in 1 .. u : z[i] = y[i]) /\ \A i \in u + 1 .. u + n : z[i] = c[i - u]
  <2>1. /\ z \in Seq(S) /\ Len(z) = Len(y) + Len(c) /\ \A i \in 1 .. Len(y) : z[i] = y[i]
        /\ \A i \in Len(y) + 1 .. Len(y) + Len(c) : z[i] = c[i - Len(y)]
    BY <1>0, <1>13, <1>14, JoinAt
  <2> QED BY <1>1, <1>13, <2>1
<1>16. ASSUME NEW i \in 1 .. u + n PROVE x[i] = z[i]
  <2>1. i \in 1 .. P BY <1>0, <1>1, <1>2
  <2>2. CASE i <= u BY <1>4, <1>12, <1>13, <1>15, <2>1, <2>2
  <2>3. CASE i > u BY <1>4, <1>12, <1>15, <2>1, <2>3
  <2> QED BY <2>2, <2>3
<1>17. x = z BY <1>2, <1>12, <1>15, <1>16
<1> QED BY <1>1, <1>3, <1>10, <1>11, <1>14, <1>17 DEF FirstCells

\* What Store does to the cells, if it reports no error.
LEMMA StoreCells ==
  ASSUME NEW l \in Lists, lists \in [Lists -> Seq(Block)], NEW n \in 1 .. PageSize,
         NEW blocks \in Seq(Block), blocks # << >>, n <= blocks[1].left,
         NEW r, NEW d \in Seq(Area), count \in Nat, Store(l, n, blocks, r, d), Running, Running',
         blocks[1].spilled => blocks[1].loc \in DOMAIN d,
         ~blocks[1].spilled => blocks[1].loc \in DOMAIN r /\ r[blocks[1].loc] \in Area
  PROVE  \E c \in Block :
         /\ c.spilled = blocks[1].spilled /\ c.loc = blocks[1].loc /\ Used(c) = Used(blocks[1]) + n
         /\ lists' = [lists EXCEPT ![l] = [blocks EXCEPT ![1] = c]]
         /\ Cont(c, ram', disk') = Cont(blocks[1], r, d) \o Cells(n)
         /\ \A b \in Block : /\ b.spilled => b.loc \in DOMAIN d
                             /\ ~b.spilled => b.loc \in DOMAIN r
                             /\ b.spilled # c.spilled \/ b.loc # c.loc
                             => Cont(b, ram', disk') = Cont(b, r, d)
         /\ UNCHANGED <<phase, linkError>>
<1>1. PICK h : h = blocks[1] OBVIOUS
<1>2. h \in Block BY <1>1, Elements
<1>3. PICK c : c = [h EXCEPT !.left = @ - n] OBVIOUS
<1>4. h.left \in 0 .. PageSize /\ n <= h.left /\ h.spilled \in BOOLEAN BY <1>1, <1>2 DEF Block
<1>5. c \in Block /\ c.spilled = h.spilled /\ c.loc = h.loc /\ c.left = h.left - n
  <2>1. h.left - n \in 0 .. PageSize BY <1>4, Limits
  <2> QED BY <1>2, <1>3, <2>1 DEF Block
<1>6. Used(h) \in Nat /\ Used(c) = Used(h) + n /\ Used(c) <= PageSize
  <2>1. Used(h) = PageSize - h.left /\ Used(c) = PageSize - c.left BY DEF Used
  <2> QED BY <1>4, <1>5, <2>1, Limits
<1>7. [blocks EXCEPT ![1].left = @ - n] = [blocks EXCEPT ![1] = c] BY <1>1, <1>3
<1>8. PICK s : s = Cells(n) OBVIOUS
<1>9. s \in Seq(Cell \cup {Unset}) /\ Len(s) = n
  <2>1. n \in Nat BY Limits
  <2> QED BY <1>8, <2>1, CellsOK
<1>10. ASSUME NEW a \in Area PROVE FirstCells(At(a, Used(h), s), Used(c)) = FirstCells(a, Used(h)) \o s
  <2>1. Used(h) + Len(s) = Used(c) /\ Used(h) + Len(s) <= PageSize BY <1>6, <1>9
  <2>2. FirstCells(At(a, Used(h), s), Used(h) + Len(s)) = FirstCells(a, Used(h)) \o s BY <1>6, <1>9, <2>1, PutCells
  <2> QED BY <2>1, <2>2
<1>11. \/ /\ ~h.spilled /\ ram' = [r EXCEPT ![h.loc] = At(@, Used(h), s)] /\ disk' = d
          /\ lists' = [lists EXCEPT ![l] = [blocks EXCEPT ![1] = c]] /\ UNCHANGED <<phase, linkError>>
       \/ /\ h.spilled /\ disk' = [d EXCEPT ![h.loc] = At(@, Used(h), s)] /\ ram' = r
          /\ lists' = [lists EXCEPT ![l] = [blocks EXCEPT ![1] = c]] /\ UNCHANGED <<phase, linkError>>
  <2>1. ~linkError' /\ phase' # "clean" BY DEF Running
  <2> QED BY <1>1, <1>7, <1>8, <2>1 DEF Store, SpillFails, Abandon
<1>12. CASE ~h.spilled /\ ram' = [r EXCEPT ![h.loc] = At(@, Used(h), s)] /\ disk' = d
  <2>1. h.loc \in DOMAIN r /\ r[h.loc] \in Area BY <1>1, <1>12
  <2>2. ram'[h.loc] = At(r[h.loc], Used(h), s) /\ \A x \in DOMAIN r : x # h.loc => ram'[x] = r[x] BY <1>12, <2>1
  <2>3. Cont(c, ram', disk') = Cont(h, r, d) \o s BY <1>5, <1>10, <1>12, <2>1, <2>2 DEF Cont
  <2>4. ASSUME NEW b \in Block, ~b.spilled => b.loc \in DOMAIN r, b.spilled # c.spilled \/ b.loc # c.loc
        PROVE  Cont(b, ram', disk') = Cont(b, r, d)
    <3>1. b.spilled \in BOOLEAN /\ c.spilled = FALSE BY <1>4, <1>5, <1>12 DEF Block
    <3> QED BY <1>5, <1>12, <2>2, <2>4, <3>1 DEF Cont
  <2> QED BY <1>1, <1>5, <1>6, <1>8, <1>11, <2>3, <2>4
<1>13. CASE h.spilled /\ disk' = [d EXCEPT ![h.loc] = At(@, Used(h), s)] /\ ram' = r
  <2>1. h.loc \in DOMAIN d /\ d[h.loc] \in Area
    <3>1. h.loc \in DOMAIN d BY <1>1, <1>13
    <3> QED BY <3>1, Elements
  <2>2. disk'[h.loc] = At(d[h.loc], Used(h), s) /\ \A x \in DOMAIN d : x # h.loc => disk'[x] = d[x] BY <1>13, <2>1
  <2>3. Cont(c, ram', disk') = Cont(h, r, d) \o s BY <1>5, <1>10, <1>13, <2>1, <2>2 DEF Cont
  <2>4. ASSUME NEW b \in Block, b.spilled => b.loc \in DOMAIN d, b.spilled # c.spilled \/ b.loc # c.loc
        PROVE  Cont(b, ram', disk') = Cont(b, r, d)
    <3>1. b.spilled \in BOOLEAN /\ c.spilled = TRUE BY <1>4, <1>5, <1>13 DEF Block
    <3> QED BY <1>5, <1>13, <2>2, <2>4, <3>1 DEF Cont
  <2> QED BY <1>1, <1>5, <1>6, <1>8, <1>11, <2>3, <2>4
<1> QED BY <1>11, <1>12, <1>13

-----------------------------------------------------------------------------
(* What the lists hold, until the link is abandoned                         *)

\* The relocations of a block: some, each whole, none of them after the last written.
Ids(s) == {s[i][1] : i \in DOMAIN s}
PieceOK(s, last) == s \in Seq(Cell) /\ s # << >> /\ StoreOf!Whole(s) /\ Ids(s) \subseteq 1 .. last

\* What the blocks of the lists hold: cells per list and block.
Held == [l \in Lists |-> [k \in DOMAIN lists[l] |-> Content(lists[l][k])]]
Pieces(h, last) == \A l \in DOMAIN h : h[l] \in Seq(Seq(Cell)) /\ \A k \in DOMAIN h[l] : PieceOK(h[l][k], last)
FrontCells(s, n) == UNION {Range(s[k]) : k \in {k \in DOMAIN s : k <= n}}

\* No relocation is in two blocks, and no two blocks share an area of the spill file.
IdsApart(h) ==
  \A l, m \in DOMAIN h : \A j \in DOMAIN h[l], k \in DOMAIN h[m] :
    (l # m \/ j # k) => Ids(h[l][j]) \cap Ids(h[m][k]) = {}
DiskApart ==
  \A l, m \in Lists : \A j \in DOMAIN lists[l], k \in DOMAIN lists[m] :
    lists[l][j].spilled /\ lists[m][k].spilled /\ lists[l][j].loc = lists[m][k].loc => l = m /\ j = k

\* section->relocs counts what is on the list of the section.
RelocsRight ==
  /\ relocs \in [1 .. NumSects -> Nat]
  /\ fmt \notin {"flat", "pe", "os2", "elf", "qnx"} =>
       \A s \in 1 .. NumSects, n \in FmtSizes(fmt) : relocs[s] * n = Total(lists[<<"sect", s>>])

\* While the load file is written: the blocks in front of the cursor are in it.
BlocksDone(l) ==
  IF \E i \in 1 .. cursor.list : DumpOrder[i] = l THEN Len(lists[l])
  ELSE IF cursor.list < Len(DumpOrder) /\ DumpOrder[cursor.list + 1] = l THEN cursor.block ELSE 0
CursorOK ==
  /\ cursor \in [list : 0 .. Len(DumpOrder), block : Nat]
  /\ cursor.list < Len(DumpOrder) =>
       LET n == Len(lists[DumpOrder[cursor.list + 1]])
       IN  cursor.block <= n /\ (Limit(fmt) = 0 /\ cursor.block # 0 => cursor.block = n)
Record0 == [list : Lists, size : Nat, cells : Seq(Cell)]
WrittenOK ==
  /\ written \in Seq(Record0)
  /\ op # NoOp => op.size \in FmtSizes(fmt) /\ phase = "pass2"
  /\ phase = "pass2" => written = << >> /\ cursor = [list |-> 0, block |-> 0]
  /\ phase = "load" => CursorOK /\ \A l \in Lists : StoreOf!Done(l) = FrontCells(Held[l], BlocksDone(l))

Kept == Running => /\ Pieces(Held, count) /\ IdsApart(Held) /\ DiskApart
                   /\ RelocsRight /\ WrittenOK

\* No two blocks share a block of the heap.
LEMMA HeapApart ==
  ASSUME IInv, NEW l \in Lists, NEW m \in Lists, NEW j \in DOMAIN lists[l], NEW k \in DOMAIN lists[m],
         ~lists[l][j].spilled, ~lists[m][k].spilled, lists[l][j].loc = lists[m][k].loc
  PROVE  l = m /\ j = k
<1>1. lists[l][j].loc \in HeapIn(lists[l]) /\ lists[m][k].loc \in HeapIn(lists[m]) BY DEF HeapIn
<1>2. l = m BY <1>1 DEF IInv, Owned
<1>3. HeapOnce(lists[l]) BY DEF IInv, Owned
<1> QED BY <1>2, <1>3 DEF HeapOnce

\* A relocation of n cells joins list l, in its first block; h says if that is a new one.
PutIn(l, n, new, h) ==
  /\ lists' = [lists EXCEPT ![l] = new] /\ new \in Seq(Block) /\ h \in {0, 1}
  /\ Len(new) = Len(lists[l]) + h /\ new # << >>
  /\ \A k \in 2 .. Len(new) : k - h \in DOMAIN lists[l] /\ new[k] = lists[l][k - h]
  /\ \A m \in Lists : \A k \in DOMAIN lists[m] :
       m # l \/ h = 1 \/ k # 1 => Cont(lists[m][k], ram', disk') = Content(lists[m][k])
  /\ Cont(new[1], ram', disk') = (IF h = 1 THEN << >> ELSE Content(lists[l][1])) \o Cells(n)
  /\ h = 0 => new[1].spilled = lists[l][1].spilled /\ new[1].loc = lists[l][1].loc
  /\ h = 1 /\ new[1].spilled => new[1].loc = Len(disk) + 1
  /\ Total(new) = Total(lists[l]) + n
  /\ UNCHANGED <<phase, linkError>>

LEMMA PutInHead ==
  ASSUME IInv, DiskApart, NEW l \in Lists, NEW n \in 1 .. PageSize, lists[l] # << >>, n <= lists[l][1].left,
         Store(l, n, lists[l], ram, disk), Running, Running'
  PROVE  \E new : PutIn(l, n, new, 0)
<1>1. PICK old : old = lists[l] OBVIOUS
<1>2. lists \in [Lists -> Seq(Block)] /\ old \in Seq(Block) /\ disk \in Seq(Area) /\ count \in Nat
      /\ \A m \in Lists : \A k \in DOMAIN lists[m] : BlockOK(lists[m][k])
  BY <1>1 DEF IInv, Shape
<1>3. 1 \in DOMAIN old /\ Len(old) \in Nat /\ Len(old) >= 1 /\ DOMAIN old = 1 .. Len(old) BY <1>1, <1>2
<1>4. /\ old[1].spilled => old[1].loc \in DOMAIN disk
      /\ ~old[1].spilled => old[1].loc \in DOMAIN ram /\ ram[old[1].loc] \in Area
  BY <1>1, <1>2, <1>3 DEF BlockOK, Heap
<1>5. PICK c \in Block :
         /\ c.spilled = old[1].spilled /\ c.loc = old[1].loc /\ Used(c) = Used(old[1]) + n
         /\ lists' = [lists EXCEPT ![l] = [old EXCEPT ![1] = c]]
         /\ Cont(c, ram', disk') = Cont(old[1], ram, disk) \o Cells(n)
         /\ \A b \in Block : /\ b.spilled => b.loc \in DOMAIN disk
                             /\ ~b.spilled => b.loc \in DOMAIN ram
                             /\ b.spilled # c.spilled \/ b.loc # c.loc
                             => Cont(b, ram', disk') = Cont(b, ram, disk)
         /\ UNCHANGED <<phase, linkError>>
  <2>1. old # << >> /\ n <= old[1].left /\ Store(l, n, old, ram, disk) BY <1>1
  <2> QED BY <1>2, <1>4, <2>1, StoreCells
<1>6. PICK new : new = [old EXCEPT ![1] = c] OBVIOUS
<1>7. new \in Seq(Block) /\ Len(new) = Len(old) /\ new[1] = c /\ \A k \in 2 .. Len(old) : new[k] = old[k]
  <2> HIDE DEF Block
  <2> QED BY <1>2, <1>3, <1>6
<1>8. new # << >> BY <1>3, <1>7
<1>9. \A k \in 2 .. Len(new) : k - 0 \in DOMAIN old /\ new[k] = old[k - 0] BY <1>3, <1>7
<1>10. ASSUME NEW m \in Lists, NEW k \in DOMAIN lists[m], m # l \/ k # 1
       PROVE  Cont(lists[m][k], ram', disk') = Content(lists[m][k])
  <2>1. PICK b : b = lists[m][k] OBVIOUS
  <2>2. b \in Block /\ BlockOK(b) BY <1>2, <2>1, Elements
  <2>3. b.spilled \in BOOLEAN /\ c.spilled \in BOOLEAN BY <2>2 DEF Block
  <2>4. b.spilled # c.spilled \/ b.loc # c.loc
    <3> SUFFICES ASSUME b.spilled = c.spilled, b.loc = c.loc PROVE FALSE
      OBVIOUS
    <3>1. b.spilled = old[1].spilled /\ b.loc = old[1].loc BY <1>5
    <3>2. lists[l][1] = old[1] /\ 1 \in DOMAIN lists[l] BY <1>1, <1>3
    <3>3. lists[l][1].spilled = lists[m][k].spilled /\ lists[l][1].loc = lists[m][k].loc BY <2>1, <3>1, <3>2
    <3>4. CASE b.spilled
      <4>1. lists[l][1].spilled /\ lists[m][k].spilled BY <2>1, <3>3, <3>4
      <4>2. l = m /\ 1 = k BY <3>2, <3>3, <4>1 DEF DiskApart
      <4> QED BY <1>10, <4>2
    <3>5. CASE ~b.spilled
      <4>1. ~lists[l][1].spilled /\ ~lists[m][k].spilled BY <2>1, <3>3, <3>5
      <4>2. l = m /\ 1 = k BY <3>2, <3>3, <4>1, HeapApart
      <4> QED BY <1>10, <4>2
    <3> QED BY <3>4, <3>5
  <2>5. Cont(b, ram', disk') = Cont(b, ram, disk) BY <1>5, <2>2, <2>4 DEF BlockOK, Heap
  <2> QED BY <2>1, <2>5, ContentIs
<1>11. Cont(new[1], ram', disk') = Content(old[1]) \o Cells(n) BY <1>5, <1>7, ContentIs
<1>12. Total(new) = Total(old) + n
  <2>1. old # << >> /\ n \in Nat BY <1>3, Limits
  <2>2. Used(new[1]) = Used(old[1]) + n /\ \A i \in 2 .. Len(old) : Used(new[i]) = Used(old[i]) BY <1>5, <1>7
  <2> QED BY <1>2, <1>7, <2>1, <2>2, TotalMore
<1>13. PutIn(l, n, new, 0)
  <2>1. Len(new) = Len(old) + 0 BY <1>3, <1>7
  <2> QED BY <1>1, <1>5, <1>6, <1>7, <1>8, <1>9, <1>10, <1>11, <1>12, <2>1 DEF PutIn
<1> QED BY <1>13

\* The same with a block that was just allocated, in memory or in the spill file.
LEMMA PutInNew ==
  ASSUME IInv, NEW l \in Lists, NEW n \in 1 .. PageSize, NEW b \in Block, b.left = PageSize, NEW r, NEW d \in Seq(Area),
         Store(l, n, <<b>> \o lists[l], r, d), Running, Running',
         Heap \subseteq DOMAIN r, DOMAIN disk \subseteq DOMAIN d,
         \A x \in Heap : r[x] = ram[x], \A x \in DOMAIN disk : d[x] = disk[x],
         b.spilled => b.loc \in DOMAIN d /\ b.loc = Len(disk) + 1,
         ~b.spilled => b.loc \in DOMAIN r /\ b.loc \notin Heap /\ r[b.loc] \in Area
  PROVE  \E new : PutIn(l, n, new, 1)
<1>1. PICK old : old = lists[l] OBVIOUS
<1>2. lists \in [Lists -> Seq(Block)] /\ old \in Seq(Block) /\ disk \in Seq(Area) /\ count \in Nat
      /\ \A m \in Lists : \A k \in DOMAIN lists[m] : BlockOK(lists[m][k])
  BY <1>1 DEF IInv, Shape
<1>3. PICK bl : bl = <<b>> \o old OBVIOUS
<1>4. /\ bl \in Seq(Block) /\ bl # << >> /\ bl[1] = b /\ DOMAIN bl = 1 .. Len(old) + 1
      /\ \A k \in DOMAIN bl : k # 1 => k - 1 \in DOMAIN old /\ bl[k] = old[k - 1]
  BY <1>2, <1>3, OneMoreBlock
<1>5. Len(old) \in Nat /\ Len(bl) = Len(old) + 1 BY <1>2, <1>4
<1>6. n \in Nat /\ n <= PageSize /\ PageSize \in Nat BY Limits
<1>7. PICK c \in Block :
         /\ c.spilled = b.spilled /\ c.loc = b.loc /\ Used(c) = Used(b) + n
         /\ lists' = [lists EXCEPT ![l] = [bl EXCEPT ![1] = c]]
         /\ Cont(c, ram', disk') = Cont(b, r, d) \o Cells(n)
         /\ \A x \in Block : /\ x.spilled => x.loc \in DOMAIN d
                             /\ ~x.spilled => x.loc \in DOMAIN r
                             /\ x.spilled # c.spilled \/ x.loc # c.loc
                             => Cont(x, ram', disk') = Cont(x, r, d)
         /\ UNCHANGED <<phase, linkError>>
  <2>1. n <= bl[1].left /\ Store(l, n, bl, r, d) BY <1>1, <1>3, <1>4, <1>6
  <2>2. /\ bl[1].spilled => bl[1].loc \in DOMAIN d
        /\ ~bl[1].spilled => bl[1].loc \in DOMAIN r /\ r[bl[1].loc] \in Area
    BY <1>4
  <2>3. lists \in [Lists -> Seq(Block)] /\ count \in Nat /\ bl \in Seq(Block) /\ bl # << >> BY <1>2, <1>4
  <2>4. PICK c \in Block :
         /\ c.spilled = bl[1].spilled /\ c.loc = bl[1].loc /\ Used(c) = Used(bl[1]) + n
         /\ lists' = [lists EXCEPT ![l] = [bl EXCEPT ![1] = c]]
         /\ Cont(c, ram', disk') = Cont(bl[1], r, d) \o Cells(n)
         /\ \A x \in Block : /\ x.spilled => x.loc \in DOMAIN d
                             /\ ~x.spilled => x.loc \in DOMAIN r
                             /\ x.spilled # c.spilled \/ x.loc # c.loc
                             => Cont(x, ram', disk') = Cont(x, r, d)
         /\ UNCHANGED <<phase, linkError>>
    BY <2>1, <2>2, <2>3, StoreCells
  <2> QED BY <1>4, <2>4
<1>8. PICK new : new = [bl EXCEPT ![1] = c] OBVIOUS
<1>9. new \in Seq(Block) /\ Len(new) = Len(old) + 1 /\ new[1] = c /\ new # << >>
      /\ \A k \in 2 .. Len(new) : k - 1 \in DOMAIN old /\ new[k] = old[k - 1] /\ new[k] = bl[k]
  <2>1. new \in Seq(Block) /\ Len(new) = Len(bl) /\ new[1] = c /\ \A k \in 2 .. Len(bl) : new[k] = bl[k]
    <3> HIDE DEF Block
    <3> QED BY <1>4, <1>5, <1>8
  <2>2. Len(new) = Len(old) + 1 BY <1>5, <2>1
  <2>3. new # << >> BY <1>5, <2>2
  <2>4. ASSUME NEW k \in 2 .. Len(new) PROVE k - 1 \in DOMAIN old /\ new[k] = old[k - 1] /\ new[k] = bl[k]
    <3>1. k \in DOMAIN bl /\ k # 1 /\ k \in 2 .. Len(bl) BY <1>4, <1>5, <2>2
    <3> QED BY <1>4, <2>1, <3>1
  <2> QED BY <2>1, <2>2, <2>3, <2>4
<1>10. ASSUME NEW m \in Lists, NEW k \in DOMAIN lists[m]
       PROVE  Cont(lists[m][k], ram', disk') = Content(lists[m][k])
  <2>1. PICK x : x = lists[m][k] OBVIOUS
  <2>2. x \in Block /\ BlockOK(x) BY <1>2, <2>1, Elements
  <2>3. x.spilled \in BOOLEAN /\ b.spilled \in BOOLEAN BY <2>2 DEF Block
  <2>4. x.spilled # c.spilled \/ x.loc # c.loc
    <3>1. Len(disk) + 1 \notin DOMAIN disk BY <1>2
    <3> QED BY <1>7, <2>2, <2>3, <3>1 DEF BlockOK
  <2>5. Cont(x, ram', disk') = Cont(x, r, d) BY <1>7, <2>2, <2>4 DEF BlockOK
  <2>6. Cont(x, r, d) = Cont(x, ram, disk) BY <2>2 DEF Cont, BlockOK
  <2> QED BY <2>1, <2>5, <2>6, ContentIs
<1>11. Used(b) = 0 /\ Cont(b, r, d) = << >>
  <2>1. Used(b) = 0 BY <1>6 DEF Used
  <2>2. PICK a \in Area : a = IF b.spilled THEN d[b.loc] ELSE r[b.loc]
    <3>1. b.spilled => d[b.loc] \in Area BY Elements
    <3> QED BY <3>1
  <2>3. a \in Seq(Cell \cup {Unset})
    <3> HIDE DEF Cell
    <3> QED BY <1>6 DEF Area
  <2>4. SubSeq(a, 1, 0) = << >>
    <3> HIDE DEF Cell
    <3> QED BY <2>3
  <2> QED BY <2>1, <2>2, <2>4 DEF Cont, FirstCells
<1>12. Total(new) = Total(old) + n
  <2>1. Total(bl) = 0 + Total(old) BY <1>2, <1>3, <1>11, TotalFront
  <2>2. Used(new[1]) = Used(bl[1]) + n /\ \A i \in 2 .. Len(bl) : Used(new[i]) = Used(bl[i]) BY <1>4, <1>5, <1>7, <1>9
  <2>3. Total(new) = Total(bl) + n BY <1>4, <1>5, <1>6, <1>9, <2>2, TotalMore
  <2>4. Total(old) \in Nat BY <1>2, TotalOne
  <2> QED BY <2>1, <2>3, <2>4
<1>13. PutIn(l, n, new, 1)
  <2>1. Cont(new[1], ram', disk') = << >> \o Cells(n) BY <1>7, <1>9, <1>11
  <2>2. new[1].spilled => new[1].loc = Len(disk) + 1 BY <1>7, <1>9
  <2> QED BY <1>1, <1>7, <1>8, <1>9, <1>10, <1>12, <2>1, <2>2 DEF PutIn
<1> QED BY <1>13

-----------------------------------------------------------------------------
(* What the lists hold, when a relocation joins one                         *)

NewCells(id, n) == [i \in 1 .. n |-> <<id, i>>]
NewSet(id, n) == {<<id, i>> : i \in 1 .. n}
AllCells(s) == UNION {Range(s[k]) : k \in DOMAIN s}

LEMMA WholeIs ==
  ASSUME NEW s
  PROVE  StoreOf!Whole(s) <=> /\ Once(s)
                              /\ \A i \in DOMAIN s : s[i][2] > 1 => i > 1 /\ s[i - 1] = <<s[i][1], s[i][2] - 1>>
BY DEF StoreOf!Whole, Once

LEMMA HeadWhole ==
  ASSUME NEW last \in Nat, NEW s \in Seq(Cell), s = << >> \/ PieceOK(s, last),
         NEW n \in Nat \ {0}
  PROVE  /\ PieceOK(s \o NewCells(last + 1, n), last + 1)
         /\ Range(s \o NewCells(last + 1, n)) = Range(s) \cup NewSet(last + 1, n)
         /\ Ids(s \o NewCells(last + 1, n)) = Ids(s) \cup {last + 1}
<1>0. PICK t : t = s \o NewCells(last + 1, n) OBVIOUS
<1>1. PICK c : c = NewCells(last + 1, n) OBVIOUS
<1>2. Len(c) = n /\ c \in Seq(Cell) /\ DOMAIN c = 1 .. n /\ \A i \in 1 .. n : c[i] = <<last + 1, i>>
  <2>1. \A i \in 1 .. n : <<last + 1, i>> \in Cell BY DEF Cell
  <2> HIDE DEF Cell
  <2> QED BY <1>1, <2>1 DEF NewCells
<1>3. PICK u : u = Len(s) OBVIOUS
<1>4. u \in Nat /\ DOMAIN s = 1 .. u /\ (\A i \in 1 .. u : s[i] \in Cell) BY <1>3, Elements
<1>5. /\ t \in Seq(Cell) /\ Len(t) = u + n /\ DOMAIN t = 1 .. u + n
      /\ \A i \in 1 .. u : t[i] = s[i]
      /\ \A i \in u + 1 .. u + n : i - u \in 1 .. n /\ t[i] = c[i - u]
  <2>1. /\ t \in Seq(Cell) /\ Len(t) = Len(s) + Len(c)
        /\ \A p \in 1 .. Len(s) : t[p] = s[p]
        /\ \A p \in Len(s) + 1 .. Len(s) + Len(c) : p - Len(s) \in 1 .. Len(c) /\ t[p] = c[p - Len(s)]
    BY <1>0, <1>1, <1>2, JoinAt
  <2>2. DOMAIN t = 1 .. Len(t) BY <2>1, Elements
  <2> QED BY <1>2, <1>3, <2>1, <2>2
<1>6. ASSUME NEW i \in 1 .. u PROVE s[i][1] \in 1 .. last
  <2>1. s # << >> BY <1>3, <1>4
  <2>2. Ids(s) \subseteq 1 .. last BY <2>1 DEF PieceOK
  <2>3. s[i][1] \in Ids(s) BY <1>4 DEF Ids
  <2> QED BY <2>2, <2>3
<1>7. ASSUME NEW i \in u + 1 .. u + n PROVE t[i] = <<last + 1, i - u>> /\ t[i][1] = last + 1 /\ t[i][2] = i - u /\ i \in Nat
  <2>1. i - u \in 1 .. n /\ t[i] = c[i - u] BY <1>5
  <2>2. t[i] = <<last + 1, i - u>> BY <1>2, <2>1
  <2>3. i \in Nat BY <1>4
  <2>4. \A a, b : <<a, b>>[1] = a /\ <<a, b>>[2] = b OBVIOUS
  <2> HIDE DEF Cell
  <2> QED BY <2>2, <2>3, <2>4
<1>8. \A i \in 1 .. u + n : i \in 1 .. u \/ i \in u + 1 .. u + n BY <1>4
<1>9. \A i \in 1 .. u : i \in 1 .. u + n BY <1>4
<1>10. \A k \in 1 .. n : k + u \in u + 1 .. u + n /\ k + u \in 1 .. u + n /\ (k + u) - u = k BY <1>4
<1>11. u # 0 => StoreOf!Whole(s) BY <1>3 DEF PieceOK
<1>12. Once(t)
  <2> SUFFICES ASSUME NEW i \in 1 .. u + n, NEW j \in 1 .. u + n, t[i] = t[j] PROVE i = j
    BY <1>5 DEF Once
  <2>1. CASE i \in 1 .. u /\ j \in 1 .. u
    <3>1. s[i] = s[j] /\ u # 0 BY <1>5, <2>1
    <3> QED BY <1>4, <1>11, <2>1, <3>1, WholeIs DEF Once
  <2>2. CASE i \in u + 1 .. u + n /\ j \in u + 1 .. u + n
    <3>1. t[i][2] = i - u /\ t[j][2] = j - u /\ i \in Nat /\ j \in Nat BY <1>7, <2>2
    <3> QED BY <1>4, <3>1
  <2>3. \A x \in 1 .. u, y \in u + 1 .. u + n : t[x] # t[y]
    <3> SUFFICES ASSUME NEW x \in 1 .. u, NEW y \in u + 1 .. u + n, t[x] = t[y] PROVE FALSE
      OBVIOUS
    <3>1. t[x][1] \in 1 .. last BY <1>5, <1>6
    <3>2. t[y][1] = last + 1 BY <1>7
    <3> QED BY <3>1, <3>2
  <2>4. (i \in 1 .. u \/ i \in u + 1 .. u + n) /\ (j \in 1 .. u \/ j \in u + 1 .. u + n) BY <1>8
  <2> QED BY <2>1, <2>2, <2>3, <2>4
<1>13. ASSUME NEW i \in DOMAIN t, t[i][2] > 1 PROVE i > 1 /\ t[i - 1] = <<t[i][1], t[i][2] - 1>>
  <2>1. CASE i \in 1 .. u
    <3>1. t[i] = s[i] /\ u # 0 BY <1>5, <2>1
    <3>2. i > 1 /\ s[i - 1] = <<s[i][1], s[i][2] - 1>> BY <1>4, <1>11, <1>13, <2>1, <3>1, WholeIs
    <3>3. i - 1 \in 1 .. u BY <1>4, <2>1, <3>2
    <3> QED BY <1>5, <3>1, <3>2, <3>3
  <2>2. CASE i \in u + 1 .. u + n
    <3>1. t[i][1] = last + 1 /\ t[i][2] = i - u BY <1>7, <2>2
    <3>2. i - u > 1 BY <1>13, <3>1
    <3>3. i - 1 \in u + 1 .. u + n /\ i > 1 /\ (i - 1) - u = (i - u) - 1 BY <1>4, <2>2, <3>2
    <3>4. t[i - 1] = <<last + 1, (i - 1) - u>> BY <1>7, <3>3
    <3> QED BY <3>1, <3>3, <3>4
  <2> QED BY <1>5, <1>8, <2>1, <2>2
<1>14. t # << >> BY <1>4, <1>5
<1>15. Range(t) = Range(s) \cup NewSet(last + 1, n)
  <2>1. ASSUME NEW x \in Range(t) PROVE x \in Range(s) \cup NewSet(last + 1, n)
    <3>1. PICK i \in 1 .. u + n : x = t[i] BY <1>5 DEF Range
    <3>2. CASE i \in 1 .. u BY <1>4, <1>5, <3>1, <3>2 DEF Range
    <3>3. CASE i \in u + 1 .. u + n BY <1>5, <1>7, <3>1, <3>3 DEF NewSet
    <3> QED BY <1>8, <3>2, <3>3
  <2>2. ASSUME NEW x \in Range(s) PROVE x \in Range(t)
    <3>1. PICK i \in 1 .. u : x = s[i] BY <1>4 DEF Range
    <3> QED BY <1>5, <1>9, <3>1 DEF Range
  <2>3. ASSUME NEW x \in NewSet(last + 1, n) PROVE x \in Range(t)
    <3>1. PICK k \in 1 .. n : x = <<last + 1, k>> BY DEF NewSet
    <3>2. t[k + u] = x /\ k + u \in DOMAIN t BY <1>5, <1>7, <1>10, <3>1
    <3> QED BY <3>2 DEF Range
  <2> QED BY <2>1, <2>2, <2>3
<1>16. Ids(t) = Ids(s) \cup {last + 1}
  <2>1. ASSUME NEW x \in Ids(t) PROVE x \in Ids(s) \cup {last + 1}
    <3>1. PICK i \in 1 .. u + n : x = t[i][1] BY <1>5 DEF Ids
    <3>2. CASE i \in 1 .. u BY <1>4, <1>5, <3>1, <3>2 DEF Ids
    <3>3. CASE i \in u + 1 .. u + n BY <1>7, <3>1, <3>3
    <3> QED BY <1>8, <3>2, <3>3
  <2>2. ASSUME NEW x \in Ids(s) PROVE x \in Ids(t)
    <3>1. PICK i \in 1 .. u : x = s[i][1] BY <1>4 DEF Ids
    <3> QED BY <1>5, <1>9, <3>1 DEF Ids
  <2>3. last + 1 \in Ids(t)
    <3>1. 1 \in 1 .. n OBVIOUS
    <3>2. 1 + u \in DOMAIN t /\ t[1 + u][1] = last + 1 BY <1>5, <1>7, <1>10, <3>1
    <3> QED BY <3>2 DEF Ids
  <2> QED BY <2>1, <2>2, <2>3
<1>17. Ids(t) \subseteq 1 .. last + 1
  <2>1. Ids(s) \subseteq 1 .. last BY <1>4, <1>6 DEF Ids
  <2> QED BY <1>16, <2>1
<1>18. StoreOf!Whole(t) BY <1>12, <1>13, WholeIs
<1> QED BY <1>0, <1>5, <1>14, <1>15, <1>16, <1>17, <1>18 DEF PieceOK

\* Relocation last + 1, of n cells, joins list l; e says if in a block of its own.
Joins(h, new, l, e, last, n) ==
  /\ DOMAIN new = DOMAIN h /\ l \in DOMAIN h /\ e \in {0, 1} /\ \A m \in DOMAIN h \ {l} : new[m] = h[m]
  /\ new[l] \in Seq(Seq(Cell)) /\ Len(new[l]) = Len(h[l]) + e /\ new[l] # << >>
  /\ \A k \in 2 .. Len(new[l]) : k - e \in DOMAIN h[l] /\ new[l][k] = h[l][k - e]
  /\ new[l][1] = (IF e = 1 THEN << >> ELSE h[l][1]) \o NewCells(last + 1, n)

LEMMA JoinedHead ==
  ASSUME NEW h, NEW new, NEW l, NEW e, NEW last \in Nat, NEW n \in Nat \ {0}, Joins(h, new, l, e, last, n), Pieces(h, last)
  PROVE  /\ PieceOK(new[l][1], last + 1)
         /\ Range(new[l][1]) = (IF e = 1 THEN {} ELSE Range(h[l][1])) \cup NewSet(last + 1, n)
         /\ Ids(new[l][1]) = (IF e = 1 THEN {} ELSE Ids(h[l][1])) \cup {last + 1}
         /\ e = 0 => 1 \in DOMAIN h[l]
<1>1. h[l] \in Seq(Seq(Cell)) /\ l \in DOMAIN h /\ new[l] \in Seq(Seq(Cell)) BY DEF Joins, Pieces
<1>2. e = 0 => 1 \in DOMAIN h[l]
  <2>1. Len(new[l]) \in Nat /\ Len(new[l]) # 0 /\ Len(h[l]) \in Nat /\ DOMAIN h[l] = 1 .. Len(h[l]) BY <1>1 DEF Joins
  <2> QED BY <2>1 DEF Joins
<1>3. PICK s : s = IF e = 1 THEN << >> ELSE h[l][1] OBVIOUS
<1>4. s \in Seq(Cell) /\ (s = << >> \/ PieceOK(s, last))
  <2>1. CASE e = 1
    <3>1. << >> \in Seq(Cell) OBVIOUS
    <3> QED BY <1>3, <2>1, <3>1
  <2>2. CASE e = 0 BY <1>1, <1>2, <1>3, <2>2 DEF Pieces, PieceOK
  <2> QED BY <2>1, <2>2 DEF Joins
<1>5. new[l][1] = s \o NewCells(last + 1, n) BY <1>3 DEF Joins
<1>6. /\ PieceOK(new[l][1], last + 1) /\ Range(new[l][1]) = Range(s) \cup NewSet(last + 1, n)
      /\ Ids(new[l][1]) = Ids(s) \cup {last + 1}
  <2>1. PICK t : t = s \o NewCells(last + 1, n) /\ t = new[l][1] BY <1>5
  <2>2. PieceOK(t, last + 1) /\ Range(t) = Range(s) \cup NewSet(last + 1, n) /\ Ids(t) = Ids(s) \cup {last + 1}
    BY <1>4, <1>5, <2>1, HeadWhole
  <2> QED BY <2>1, <2>2
<1>7. Range(<< >>) = {} /\ Ids(<< >>) = {} BY DEF Range, Ids
<1> QED BY <1>2, <1>3, <1>6, <1>7

LEMMA JoinedPieces ==
  ASSUME NEW h, NEW new, NEW l, NEW e, NEW last \in Nat, NEW n \in Nat \ {0}, Joins(h, new, l, e, last, n), Pieces(h, last)
  PROVE  Pieces(new, last + 1)
<1>1. ASSUME NEW s, PieceOK(s, last) PROVE PieceOK(s, last + 1) BY <1>1 DEF PieceOK
<1>2. ASSUME NEW k \in DOMAIN new[l] PROVE PieceOK(new[l][k], last + 1)
  <2>1. new[l] \in Seq(Seq(Cell)) BY DEF Joins
  <2>2. k = 1 \/ k \in 2 .. Len(new[l]) BY <2>1
  <2>3. CASE k = 1 BY <2>3, JoinedHead
  <2>4. CASE k \in 2 .. Len(new[l]) BY <1>1, <2>4 DEF Joins, Pieces
  <2> QED BY <2>2, <2>3, <2>4
<1> QED BY <1>1, <1>2 DEF Joins, Pieces

LEMMA JoinedApart ==
  ASSUME NEW h, NEW new, NEW l, NEW e, NEW last \in Nat, NEW n \in Nat \ {0}, Joins(h, new, l, e, last, n),
         Pieces(h, last), IdsApart(h)
  PROVE  IdsApart(new)
<1> DEFINE From(m, k) == IF m = l THEN k - e ELSE k      \* where the block was
           Fresh(m, k) == m = l /\ k = 1
           Is(m, k) == From(m, k) \in DOMAIN h[m]
<1>0. /\ Ids(new[l][1]) = (IF e = 1 THEN {} ELSE Ids(h[l][1])) \cup {last + 1}
      /\ e = 0 => 1 \in DOMAIN h[l]
  <2> HIDE DEF From, Fresh, Is
  <2>1. /\ PieceOK(new[l][1], last + 1)
        /\ Range(new[l][1]) = (IF e = 1 THEN {} ELSE Range(h[l][1])) \cup NewSet(last + 1, n)
        /\ Ids(new[l][1]) = (IF e = 1 THEN {} ELSE Ids(h[l][1])) \cup {last + 1}
        /\ e = 0 => 1 \in DOMAIN h[l]
    BY JoinedHead
  <2> QED BY <2>1
<1>1. h[l] \in Seq(Seq(Cell)) /\ new[l] \in Seq(Seq(Cell)) /\ l \in DOMAIN h /\ e \in {0, 1} BY DEF Joins, Pieces
<1>2. ASSUME NEW m \in DOMAIN h, NEW k \in DOMAIN new[m], NEW x \in Ids(new[m][k])
      PROVE  \/ Fresh(m, k) /\ x = last + 1
             \/ Is(m, k) /\ x \in Ids(h[m][From(m, k)]) /\ x \in 1 .. last
  <2>1. \A i \in DOMAIN h[m] : Ids(h[m][i]) \subseteq 1 .. last BY DEF Pieces, PieceOK
  <2>2. CASE m # l
    <3>1. new[m] = h[m] BY <2>2 DEF Joins
    <3> QED BY <2>1, <2>2, <3>1
  <2>3. CASE m = l
    <3>1. k = 1 \/ k \in 2 .. Len(new[l]) BY <1>1, <2>3
    <3>2. CASE k = 1
      <4>1. x = last + 1 \/ (e = 0 /\ x \in Ids(h[l][1]) /\ 1 \in DOMAIN h[l])
        <5>1. x \in Ids(new[l][1]) BY <2>3, <3>2
        <5> QED BY <1>0, <1>1, <5>1
      <4>2. CASE e = 0 /\ x \in Ids(h[l][1]) /\ 1 \in DOMAIN h[l]
        <5>1. From(m, k) = 1 BY <2>3, <3>2, <4>2
        <5> QED BY <2>1, <2>3, <4>2, <5>1
      <4> QED BY <2>3, <3>2, <4>1, <4>2
    <3>3. CASE k \in 2 .. Len(new[l])
      <4>1. k - e \in DOMAIN h[l] /\ new[l][k] = h[l][k - e] /\ From(m, k) = k - e BY <2>3, <3>3 DEF Joins
      <4> QED BY <2>1, <2>3, <4>1
    <3> QED BY <3>1, <3>2, <3>3
  <2> QED BY <2>2, <2>3
<1>3. ASSUME NEW i \in DOMAIN h, NEW m \in DOMAIN h, NEW j \in DOMAIN new[i], NEW k \in DOMAIN new[m], i # m \/ j # k,
             NEW x \in Ids(new[i][j]), x \in Ids(new[m][k])
      PROVE  FALSE
  <2>1. last + 1 \notin 1 .. last OBVIOUS
  <2>2. \/ Fresh(i, j) /\ x = last + 1
        \/ Is(i, j) /\ x \in Ids(h[i][From(i, j)]) /\ x \in 1 .. last
    BY <1>2
  <2>3. \/ Fresh(m, k) /\ x = last + 1
        \/ Is(m, k) /\ x \in Ids(h[m][From(m, k)]) /\ x \in 1 .. last
    BY <1>2, <1>3
  <2>4. ~(Fresh(i, j) /\ Fresh(m, k)) BY <1>3
  <2>5. i # m \/ From(i, j) # From(m, k)
    <3>1. i = l => j \in Nat BY <1>1
    <3>2. m = l => k \in Nat BY <1>1
    <3> QED BY <1>1, <1>3, <3>1, <3>2
  <2> HIDE DEF From, Fresh
  <2> QED BY <2>1, <2>2, <2>3, <2>4, <2>5 DEF IdsApart
<1> HIDE DEF From, Fresh, Is
<1>4. DOMAIN new = DOMAIN h BY DEF Joins
<1> QED BY <1>3, <1>4 DEF IdsApart

LEMMA JoinedCells ==
  ASSUME NEW h, NEW new, NEW l, NEW e, NEW last \in Nat, NEW n \in Nat \ {0}, Joins(h, new, l, e, last, n), Pieces(h, last)
  PROVE  AllCells(new[l]) = AllCells(h[l]) \cup NewSet(last + 1, n)
<1>1. h[l] \in Seq(Seq(Cell)) /\ new[l] \in Seq(Seq(Cell)) /\ l \in DOMAIN h /\ e \in {0, 1} BY DEF Joins, Pieces
<1>2. /\ Range(new[l][1]) = (IF e = 1 THEN {} ELSE Range(h[l][1])) \cup NewSet(last + 1, n)
      /\ e = 0 => 1 \in DOMAIN h[l]
  <2>1. /\ PieceOK(new[l][1], last + 1)
        /\ Range(new[l][1]) = (IF e = 1 THEN {} ELSE Range(h[l][1])) \cup NewSet(last + 1, n)
        /\ Ids(new[l][1]) = (IF e = 1 THEN {} ELSE Ids(h[l][1])) \cup {last + 1}
        /\ e = 0 => 1 \in DOMAIN h[l]
    BY JoinedHead
  <2> QED BY <2>1
<1>3. /\ DOMAIN h[l] = 1 .. Len(h[l]) /\ DOMAIN new[l] = 1 .. Len(new[l]) /\ Len(h[l]) \in Nat
      /\ Len(new[l]) = Len(h[l]) + e /\ 1 \in DOMAIN new[l]
  BY <1>1 DEF Joins
<1>4. ASSUME NEW x \in AllCells(new[l]) PROVE x \in AllCells(h[l]) \cup NewSet(last + 1, n)
  <2>1. PICK k \in DOMAIN new[l] : x \in Range(new[l][k]) BY DEF AllCells
  <2>2. CASE k = 1 BY <1>1, <1>2, <2>1, <2>2 DEF AllCells
  <2>3. CASE k # 1
    <3>1. k \in 2 .. Len(new[l]) BY <1>3, <2>3
    <3>2. k - e \in DOMAIN h[l] /\ new[l][k] = h[l][k - e] BY <3>1 DEF Joins
    <3> QED BY <2>1, <3>2 DEF AllCells
  <2> QED BY <2>2, <2>3
<1>5. ASSUME NEW x \in AllCells(h[l]) PROVE x \in AllCells(new[l])
  <2>1. PICK k \in DOMAIN h[l] : x \in Range(h[l][k]) BY DEF AllCells
  <2>2. CASE k = 1 /\ e = 0
    <3>1. x \in Range(new[l][1]) BY <1>2, <2>1, <2>2
    <3> QED BY <1>3, <3>1 DEF AllCells
  <2>3. CASE ~(k = 1 /\ e = 0)
    <3>1. k + e \in 2 .. Len(new[l]) /\ (k + e) - e = k /\ k + e \in DOMAIN new[l] BY <1>1, <1>3, <2>3
    <3>2. new[l][k + e] = h[l][(k + e) - e] BY <3>1 DEF Joins
    <3>3. x \in Range(new[l][k + e]) BY <2>1, <3>1, <3>2
    <3> QED BY <3>1, <3>3 DEF AllCells
  <2> QED BY <2>2, <2>3
<1>6. NewSet(last + 1, n) \subseteq AllCells(new[l]) BY <1>2, <1>3 DEF AllCells
<1> QED BY <1>4, <1>5, <1>6

\* What a record of some blocks of a list has: relocations that are in no other
\* block, each whole and once.
RecordOK(s, h, l, b, m) ==
  /\ s \in Seq(Cell) /\ s # << >> /\ StoreOf!Whole(s)
  /\ Range(s) \subseteq AllCells(h[l]) \ FrontCells(h[l], b)
  /\ \A c \in Range(s), d \in AllCells(h[l]) : d[1] = c[1] => d \in Range(s)
  /\ FrontCells(h[l], b + m) = FrontCells(h[l], b) \cup Range(s)

LEMMA RecordCells ==
  ASSUME NEW h, NEW last \in Nat, Pieces(h, last), IdsApart(h), NEW l \in DOMAIN h, NEW b \in Nat, NEW m \in Nat \ {0},
         b + m <= Len(h[l]), NEW cs \in Seq(Seq(Cell)), Len(cs) = m, \A j \in 1 .. m : cs[j] = h[l][b + j],
         NEW s \in {FlattenSeq(cs)}
  PROVE  RecordOK(s, h, l, b, m)
<1>1. PICK t : t = h[l] OBVIOUS
<1>2. t \in Seq(Seq(Cell)) /\ Len(t) \in Nat /\ DOMAIN t = 1 .. Len(t) BY <1>1 DEF Pieces
<1>3. \A k \in DOMAIN t : PieceOK(t[k], last) BY <1>1 DEF Pieces
<1>4. \A k \in DOMAIN t : t[k] \in Seq(Cell) /\ t[k] # << >> /\ StoreOf!Whole(t[k]) BY <1>3 DEF PieceOK
<1>5. \A j, k \in DOMAIN t : \A x \in Range(t[j]), y \in Range(t[k]) : x[1] = y[1] => j = k
  <2> SUFFICES ASSUME NEW j \in DOMAIN t, NEW k \in DOMAIN t, NEW x \in Range(t[j]), NEW y \in Range(t[k]), x[1] = y[1], j # k
               PROVE  FALSE
    OBVIOUS
  <2>1. x[1] \in Ids(t[j]) /\ y[1] \in Ids(t[k]) BY DEF Ids, Range
  <2>2. Ids(h[l][j]) \cap Ids(h[l][k]) = {} BY <1>1 DEF IdsApart
  <2> QED BY <1>1, <2>1, <2>2
<1>6. DOMAIN cs = 1 .. m /\ \A j \in 1 .. m : cs[j] = t[b + j] /\ b + j \in DOMAIN t
  <2>1. DOMAIN cs = 1 .. m OBVIOUS
  <2>2. \A j \in 1 .. m : b + j \in 1 .. Len(t) BY <1>1, <1>2
  <2> QED BY <1>1, <1>2, <2>1, <2>2
<1>7. PICK pl : IsPlaces(pl, s, cs, m) BY FlattenPlaces
<1>8. s \in Seq(Cell) /\ (\A x \in Range(s) : \E j \in 1 .. m : x \in Range(cs[j])) /\ \A j \in 1 .. m : Range(cs[j]) \subseteq Range(s)
  BY <1>6, FlattenHas
<1>9. Once(s)
  <2>1. \A j \in DOMAIN cs : Once(cs[j]) BY <1>4, <1>6, WholeIs
  <2>2. \A j, k \in DOMAIN cs : j # k => Range(cs[j]) \cap Range(cs[k]) = {}
    <3> SUFFICES ASSUME NEW j \in 1 .. m, NEW k \in 1 .. m, NEW x, x \in Range(cs[j]), x \in Range(cs[k]) PROVE j = k
      BY <1>6
    <3>1. b + j = b + k BY <1>5, <1>6
    <3> QED BY <3>1
  <2> QED BY <2>1, <2>2, FlattenOnce
<1>10. ASSUME NEW p \in DOMAIN s, s[p][2] > 1 PROVE p > 1 /\ s[p - 1] = <<s[p][1], s[p][2] - 1>>
  <2>1. PICK j, k : j = pl[p][1] /\ k = pl[p][2] OBVIOUS
  <2>2. j \in 1 .. m /\ k \in DOMAIN cs[j] /\ s[p] = cs[j][k] BY <1>7, <2>1 DEF IsPlaces
  <2>3. PICK u : u = cs[j] OBVIOUS
  <2>4. u \in Seq(Cell) /\ StoreOf!Whole(u) BY <1>4, <1>6, <2>2, <2>3
  <2>5. u[k][2] > 1 /\ k \in DOMAIN u BY <1>10, <2>2, <2>3
  <2>6. k > 1 /\ u[k - 1] = <<u[k][1], u[k][2] - 1>> BY <2>4, <2>5, WholeIs
  <2>7. p > 1 /\ pl[p - 1] = <<j, k - 1>> BY <1>7, <2>1, <2>6 DEF IsPlaces
  <2>8. p - 1 \in DOMAIN s BY <1>8, <2>7
  <2>9. s[p - 1] = cs[pl[p - 1][1]][pl[p - 1][2]] BY <1>7, <2>8 DEF IsPlaces
  <2>10. s[p - 1] = u[k - 1] BY <2>3, <2>7, <2>9
  <2> QED BY <2>2, <2>3, <2>6, <2>7, <2>10
<1>11. s # << >>
  <2>1. 1 \in 1 .. m OBVIOUS
  <2>2. cs[1] # << >> /\ cs[1] \in Seq(Cell) BY <1>4, <1>6, <2>1
  <2>3. 1 \in DOMAIN cs[1] BY <2>2
  <2>4. cs[1][1] \in Range(s) BY <1>8, <2>1, <2>3 DEF Range
  <2> QED BY <2>4 DEF Range
<1>12. \A k \in DOMAIN t : k \in Nat /\ (k <= b + m <=> k <= b \/ \E j \in 1 .. m : k = b + j)
  <2> SUFFICES ASSUME NEW k \in 1 .. Len(t) PROVE k \in Nat /\ (k <= b + m <=> k <= b \/ \E j \in 1 .. m : k = b + j)
    BY <1>2
  <2>1. k \in Nat BY <1>2
  <2>2. b < k /\ k <= b + m => k - b \in 1 .. m /\ k = b + (k - b) BY <2>1
  <2> QED BY <2>1, <2>2
<1>13. ASSUME NEW x \in Range(s) PROVE \E j \in 1 .. m : b + j \in DOMAIN t /\ x \in Range(t[b + j]) BY <1>6, <1>8
<1>14. Range(s) \subseteq AllCells(t) BY <1>13 DEF AllCells
<1>15. ASSUME NEW x \in Range(s), x \in FrontCells(t, b) PROVE FALSE
  <2>1. PICK j \in 1 .. m : b + j \in DOMAIN t /\ x \in Range(t[b + j]) BY <1>13
  <2>2. PICK k \in DOMAIN t : k <= b /\ x \in Range(t[k]) BY <1>15 DEF FrontCells
  <2>3. b + j = k BY <1>5, <2>1, <2>2
  <2> QED BY <2>2, <2>3
<1>16. ASSUME NEW c \in Range(s), NEW d \in AllCells(t), d[1] = c[1] PROVE d \in Range(s)
  <2>1. PICK j \in 1 .. m : b + j \in DOMAIN t /\ c \in Range(t[b + j]) BY <1>13
  <2>2. PICK k \in DOMAIN t : d \in Range(t[k]) BY DEF AllCells
  <2>3. b + j = k BY <1>5, <1>16, <2>1, <2>2
  <2> QED BY <1>6, <1>8, <2>2, <2>3
<1>17. FrontCells(t, b + m) = FrontCells(t, b) \cup Range(s)
  <2>1. ASSUME NEW x \in FrontCells(t, b + m) PROVE x \in FrontCells(t, b) \cup Range(s)
    <3>1. PICK k \in DOMAIN t : k <= b + m /\ x \in Range(t[k]) BY DEF FrontCells
    <3>2. CASE k <= b BY <3>1, <3>2 DEF FrontCells
    <3>3. CASE \E j \in 1 .. m : k = b + j BY <1>6, <1>8, <3>1, <3>3
    <3> QED BY <1>12, <3>1, <3>2, <3>3
  <2>2. ASSUME NEW x \in FrontCells(t, b) PROVE x \in FrontCells(t, b + m)
    <3>1. PICK k \in DOMAIN t : k <= b /\ x \in Range(t[k]) BY DEF FrontCells
    <3> QED BY <1>12, <3>1 DEF FrontCells
  <2>3. ASSUME NEW x \in Range(s) PROVE x \in FrontCells(t, b + m)
    <3>1. PICK j \in 1 .. m : b + j \in DOMAIN t /\ x \in Range(t[b + j]) BY <1>13
    <3> QED BY <1>12, <3>1 DEF FrontCells
  <2> QED BY <2>1, <2>2, <2>3
<1>18. StoreOf!Whole(s) BY <1>9, <1>10, WholeIs
<1> QED BY <1>1, <1>8, <1>11, <1>14, <1>15, <1>16, <1>17, <1>18 DEF RecordOK

\* The cells of no blocks, and of all.
LEMMA FrontIs ==
  ASSUME NEW s \in Seq(Seq(Cell))
  PROVE  FrontCells(s, 0) = {} /\ FrontCells(s, Len(s)) = AllCells(s)
<1>1. \A k \in DOMAIN s : k \in Nat /\ 1 <= k /\ k <= Len(s)
  <2> HIDE DEF Cell
  <2> QED OBVIOUS
<1> QED BY <1>1 DEF FrontCells, AllCells

\* What the lists hold after a step, given where memory and spill file are then.
LEMMA HeldIs ==
  /\ DOMAIN Held = Lists
  /\ \A l \in Lists : DOMAIN Held[l] = DOMAIN lists[l] /\ \A k \in DOMAIN lists[l] : Held[l][k] = Content(lists[l][k])
BY DEF Held

LEMMA HeldNext ==
  ASSUME fmt' = fmt
  PROVE  /\ DOMAIN Held' = Lists
         /\ \A l \in Lists : DOMAIN Held'[l] = DOMAIN lists'[l] /\ \A k \in DOMAIN lists'[l] : Held'[l][k] = Cont(lists'[l][k], ram', disk')
<1>1. Lists' = Lists BY FmtSame
<1>2. \A b : Content(b)' = Cont(b, ram', disk') BY DEF Content, Cont, FirstCells
<1>3. Held' = [l \in Lists |-> [k \in DOMAIN lists'[l] |-> Cont(lists'[l][k], ram', disk')]]
  BY <1>1 DEF Held, Content, Cont, FirstCells, Used
<1> QED BY <1>3

LEMMA SameHeld ==
  ASSUME fmt' = fmt, IInv, IInv',
         \A l \in Lists : Len(lists'[l]) = Len(lists[l])
                          /\ \A k \in DOMAIN lists[l] : Cont(lists'[l][k], ram', disk') = Content(lists[l][k])
  PROVE  Held' = Held
<1>1. Lists' = Lists BY FmtSame
<1>2. \A l \in Lists : lists[l] \in Seq(Block) /\ lists'[l] \in Seq(Block) BY <1>1 DEF IInv, Shape
<1>3. \A l \in Lists : DOMAIN lists'[l] = DOMAIN lists[l] BY <1>2, Elements
<1>4. Held' = [l \in Lists |-> [k \in DOMAIN lists'[l] |-> Cont(lists'[l][k], ram', disk')]]
  BY <1>1 DEF Held, Content, Cont, FirstCells, Used
<1>5. Held = [l \in Lists |-> [k \in DOMAIN lists[l] |-> Content(lists[l][k])]] BY DEF Held
<1> QED BY <1>3, <1>4, <1>5

LEMMA PutHeld ==
  ASSUME fmt' = fmt, IInv, IInv', Pieces(Held, count), NEW l \in Lists, NEW n \in Nat \ {0}, NEW new, NEW e, PutIn(l, n, new, e)
  PROVE  Joins(Held, Held', l, e, count, n)
<1>1. Lists' = Lists /\ lists \in [Lists -> Seq(Block)] /\ count \in Nat BY FmtSame DEF IInv, Shape
<1>2. PICK h, g : h = Held /\ g = Held' OBVIOUS
<1>3. PICK old : old = lists[l] OBVIOUS
<1>4. /\ DOMAIN h = Lists
      /\ \A m \in Lists : DOMAIN h[m] = DOMAIN lists[m] /\ \A k \in DOMAIN lists[m] : h[m][k] = Content(lists[m][k])
  BY <1>2, HeldIs
<1>5. /\ DOMAIN g = Lists
      /\ \A m \in Lists : DOMAIN g[m] = DOMAIN lists'[m] /\ \A k \in DOMAIN lists'[m] : g[m][k] = Cont(lists'[m][k], ram', disk')
  BY <1>2, HeldNext
<1>6. lists' = [lists EXCEPT ![l] = new] /\ e \in {0, 1} /\ new \in Seq(Block) /\ Len(new) = Len(old) + e /\ new # << >>
  BY <1>3 DEF PutIn
<1>7. lists'[l] = new /\ \A m \in Lists \ {l} : lists'[m] = lists[m] BY <1>1, <1>6
<1>8. old \in Seq(Block) /\ DOMAIN old = 1 .. Len(old) /\ Len(old) \in Nat /\ DOMAIN new = 1 .. Len(new)
  BY <1>1, <1>3, <1>6, Elements
<1>9. h \in [Lists -> Seq(Seq(Cell))] /\ \A m \in Lists : \A k \in DOMAIN h[m] : PieceOK(h[m][k], count)
  <2>1. Held = [m \in Lists |-> Held[m]] BY DEF Held
  <2> QED BY <1>2, <1>4, <2>1 DEF Pieces
<1>10. ASSUME NEW m \in Lists \ {l} PROVE g[m] = h[m]
  <2>1. DOMAIN g[m] = DOMAIN h[m] BY <1>4, <1>5, <1>7
  <2>2. \A k \in DOMAIN h[m] : g[m][k] = h[m][k] BY <1>4, <1>5, <1>7 DEF PutIn
  <2>3. g[m] = [k \in DOMAIN g[m] |-> g[m][k]] /\ h[m] = [k \in DOMAIN h[m] |-> h[m][k]]
    <3>1. Held' = [x \in Lists |-> [k \in DOMAIN lists'[x] |-> Cont(lists'[x][k], ram', disk')]]
      BY <1>1 DEF Held, Content, Cont, FirstCells, Used
    <3>2. Held = [x \in Lists |-> [k \in DOMAIN lists[x] |-> Content(lists[x][k])]] BY DEF Held
    <3> QED BY <1>2, <3>1, <3>2
  <2> QED BY <2>1, <2>2, <2>3
<1>11. ASSUME NEW k \in 2 .. Len(new) PROVE k - e \in DOMAIN h[l] /\ g[l][k] = h[l][k - e]
  <2>1. k - e \in DOMAIN old /\ new[k] = old[k - e] BY <1>3 DEF PutIn
  <2>2. k \in DOMAIN new BY <1>8
  <2>3. g[l][k] = Cont(new[k], ram', disk') BY <1>5, <1>7, <2>2
  <2>4. l # l \/ e = 1 \/ k - e # 1 BY <1>6
  <2>5. Cont(old[k - e], ram', disk') = Content(old[k - e]) BY <1>3, <2>1, <2>4 DEF PutIn
  <2> QED BY <1>3, <1>4, <2>1, <2>3, <2>5
<1>12. 1 \in DOMAIN new /\ (e = 0 => 1 \in DOMAIN old) BY <1>6, <1>8
<1>13. Cells(n) = NewCells(count + 1, n) BY DEF Cells, NewCells
<1>14. g[l][1] = (IF e = 1 THEN << >> ELSE h[l][1]) \o NewCells(count + 1, n)
  <2>1. g[l][1] = Cont(new[1], ram', disk') BY <1>5, <1>7, <1>12
  <2>2. Cont(new[1], ram', disk') = (IF e = 1 THEN << >> ELSE Content(old[1])) \o Cells(n) BY <1>3 DEF PutIn
  <2>3. e = 0 => h[l][1] = Content(old[1]) BY <1>3, <1>4, <1>12
  <2> QED BY <1>6, <1>13, <2>1, <2>2, <2>3
<1>15. g[l] \in Seq(Seq(Cell)) /\ Len(g[l]) = Len(new)
  <2>1. DOMAIN g[l] = 1 .. Len(new) BY <1>5, <1>7, <1>8
  <2>2. ASSUME NEW k \in 1 .. Len(new) PROVE g[l][k] \in Seq(Cell)
    <3>1. CASE k = 1
      <4>1. PICK s : s = IF e = 1 THEN << >> ELSE h[l][1] OBVIOUS
      <4>2. << >> \in Seq(Cell) OBVIOUS
      <4>3. s \in Seq(Cell) /\ (s = << >> \/ PieceOK(s, count))
        <5>1. e = 0 => PieceOK(h[l][1], count) BY <1>3, <1>4, <1>9, <1>12
        <5> QED BY <1>6, <4>1, <4>2, <5>1 DEF PieceOK
      <4>4. g[l][1] = s \o NewCells(count + 1, n) BY <1>14, <4>1
      <4>5. PieceOK(s \o NewCells(count + 1, n), count + 1) BY <1>1, <4>3, HeadWhole
      <4> QED BY <3>1, <4>4, <4>5 DEF PieceOK
    <3>2. CASE k # 1
      <4>1. k \in 2 .. Len(new) BY <1>8, <3>2
      <4> QED BY <1>9, <1>11, <4>1 DEF PieceOK
    <3> QED BY <3>1, <3>2
  <2>3. g[l] = [k \in 1 .. Len(new) |-> g[l][k]]
    <3>1. Held' = [x \in Lists |-> [k \in DOMAIN lists'[x] |-> Cont(lists'[x][k], ram', disk')]]
      BY <1>1 DEF Held, Content, Cont, FirstCells, Used
    <3> QED BY <1>2, <2>1, <3>1
  <2>4. Len(new) \in Nat BY <1>6
  <2> QED BY <2>2, <2>3, <2>4
<1>16. Len(h[l]) = Len(old)
  <2>1. h[l] \in Seq(Seq(Cell)) /\ DOMAIN h[l] = 1 .. Len(old) BY <1>3, <1>4, <1>8, <1>9
  <2> QED BY <1>8, <2>1
<1>17. g[l] # << >> BY <1>6, <1>15
<1> QED BY <1>2, <1>4, <1>5, <1>6, <1>10, <1>11, <1>14, <1>15, <1>16, <1>17 DEF Joins

-----------------------------------------------------------------------------
(* The steps of RelocStore                                                  *)

\* What RelocStore's lists hold.
InLists == [l \in DOMAIN lists |-> IF Running THEN UNION {Range(Content(b)) : b \in Range(lists[l])} ELSE {}]
InOK == DOMAIN InLists = Lists /\ \A l \in Lists : InLists[l] = IF Running THEN AllCells(Held[l]) ELSE {}
Vis == <<fmt, InLists, written, phase = "load", linkError>>

LEMMA InIs == IInv => InOK
<1> SUFFICES ASSUME IInv PROVE InOK
  OBVIOUS
<1>1. DOMAIN lists = Lists BY DEF IInv, Shape
<1>2. ASSUME NEW l \in Lists PROVE UNION {Range(Content(b)) : b \in Range(lists[l])} = AllCells(Held[l])
  <2>1. ASSUME NEW x, x \in UNION {Range(Content(b)) : b \in Range(lists[l])} PROVE x \in AllCells(Held[l])
    <3>1. PICK b \in Range(lists[l]) : x \in Range(Content(b)) BY <2>1
    <3>2. PICK k \in DOMAIN lists[l] : b = lists[l][k] BY DEF Range
    <3>3. k \in DOMAIN Held[l] /\ Held[l][k] = Content(b) BY <3>2, HeldIs
    <3> QED BY <3>1, <3>3 DEF AllCells
  <2>2. ASSUME NEW x \in AllCells(Held[l]) PROVE x \in UNION {Range(Content(b)) : b \in Range(lists[l])}
    <3>1. PICK k \in DOMAIN Held[l] : x \in Range(Held[l][k]) BY DEF AllCells
    <3>2. k \in DOMAIN lists[l] /\ Held[l][k] = Content(lists[l][k]) BY <3>1, HeldIs
    <3>3. lists[l][k] \in Range(lists[l]) BY <3>2 DEF Range
    <3> QED BY <3>1, <3>2, <3>3
  <2> QED BY <2>1, <2>2
<1>3. ASSUME NEW l \in Lists PROVE InLists[l] = IF Running THEN UNION {Range(Content(b)) : b \in Range(lists[l])} ELSE {}
  BY <1>1 DEF InLists
<1> QED BY <1>1, <1>2, <1>3 DEF InOK, InLists

LEMMA InNext == IInv' => InOK'
BY InIs, PTL

LEMMA MapPut ==
  ASSUME NEW s, NEW t, s = InLists, t = InLists', NEW l \in DOMAIN s, NEW n \in FmtSizes(fmt), NEW id,
         phase # "load", phase' # "load", UNCHANGED <<fmt, written, linkError>>, ~linkError',
         \A k \in DOMAIN s \ {l} : t[k] = s[k], t[l] = s[l] \cup NewSet(id, n), <<id, 1>> \in NewSet(id, n),
         \A k \in DOMAIN s : \A c \in s[k] : c[1] # id
  PROVE  StoreOf!Next
<1>1. id \in {c[1] : c \in t[l]}
  <2>1. <<id, 1>> \in t[l] /\ <<id, 1>>[1] = id OBVIOUS
  <2> QED BY <2>1
<1>2. StoreOf!Put(l, n) BY <1>1 DEF StoreOf!Put, StoreOf!Lists, InLists, NewSet
<1>3. l \in StoreOf!Lists BY DEF StoreOf!Lists, InLists
<1> QED BY <1>2, <1>3 DEF StoreOf!Next

LEMMA MapStart ==
  ASSUME phase # "load", phase' = "load", InLists' = InLists, UNCHANGED <<fmt, written, linkError>>, ~linkError'
  PROVE  StoreOf!Next
<1>1. StoreOf!Start BY DEF StoreOf!Start, InLists
<1> QED BY <1>1 DEF StoreOf!Next

LEMMA MapSame ==
  ASSUME InLists' = InLists, UNCHANGED <<fmt, written, linkError>>, (phase = "load") <=> (phase' = "load")
  PROVE  UNCHANGED StoreOf!vars
BY DEF StoreOf!vars, InLists

LEMMA MapFinish ==
  ASSUME NEW s, NEW t, s = InLists, t = InLists', phase = "load", phase' # "load", UNCHANGED <<fmt, written, linkError>>, ~linkError',
         \A l \in DOMAIN s : StoreOf!Done(l) = s[l], t = [l \in DOMAIN s |-> {}]
  PROVE  StoreOf!Next
<1>1. StoreOf!Finish BY DEF StoreOf!Finish, StoreOf!Lists, InLists
<1> QED BY <1>1 DEF StoreOf!Next

LEMMA MapRecord ==
  ASSUME NEW s \in {InLists}, InLists' = InLists, phase = "load", phase' = "load", UNCHANGED <<fmt, linkError>>, ~linkError',
         NEW l \in DOMAIN s, NEW r, written' = Append(written, r), written \in Seq(Record0), r \in Record0, r.list = l,
         StoreOf!Whole(r.cells), r.cells # << >>, Range(r.cells) \subseteq s[l] \ StoreOf!Done(l),
         \A c \in Range(r.cells), d \in s[l] : d[1] = c[1] => d \in Range(r.cells),
         r.size = IF fmt = "pe" THEN Len(r.cells) + (Len(r.cells) % 2) ELSE Len(r.cells) + Adjust(fmt, l),
         Limit(fmt) = 0 => Range(r.cells) = s[l], Limit(fmt) # 0 => r.size < Limit(fmt)
  PROVE  StoreOf!Next
<1>1. {r.cells[i] : i \in DOMAIN r.cells} = Range(r.cells) BY DEF Range
<1>2. Range(r.cells) # {}
  <2>1. r.cells \in Seq(Cell) BY DEF Record0
  <2>2. 1 \in DOMAIN r.cells
    <3> HIDE DEF Cell
    <3> QED BY <2>1
  <2> QED BY <2>2 DEF Range
<1>3. StoreOf!Record(l, r) BY <1>1, <1>2 DEF StoreOf!Record, InLists
<1>4. StoreOf!Last(written') = r /\ Len(written') > Len(written)
  <2> HIDE DEF Record0
  <2> QED BY DEF StoreOf!Last
<1>5. l \in StoreOf!Lists BY DEF StoreOf!Lists, InLists
<1> QED BY <1>3, <1>4, <1>5 DEF StoreOf!Next

-----------------------------------------------------------------------------
(* The order of the lists in the load file                                  *)

LEMMA SeqIn == ASSUME NEW S, NEW T, NEW s \in Seq(S), Range(s) \subseteq T PROVE s \in Seq(T)
<1>1. \A i \in 1 .. Len(s) : s[i] \in T
  <2>1. DOMAIN s = 1 .. Len(s) BY Elements
  <2> QED BY <2>1 DEF Range
<1>2. Len(s) \in Nat /\ s = [i \in 1 .. Len(s) |-> s[i]] OBVIOUS
<1> QED BY <1>1, <1>2

\* What a PE file has: the initialised pages of the groups with a table.
PeTraversed == FlattenSeq([g \in Groups |-> IF table[g] = << >> THEN << >> ELSE PageLists(g, GroupPages[g].size)])

LEMMA PeTraversedAre ==
  /\ PeTraversed \in Seq(PageHeads) /\ Once(PeTraversed)
  /\ \A l \in Range(PeTraversed) : \E g \in Groups : table[g] # << >> /\ l \in FirstHeads(g, GroupPages[g].size)
  /\ \A g \in Groups : table[g] # << >> => FirstHeads(g, GroupPages[g].size) \subseteq Range(PeTraversed)
<1> DEFINE F == [g \in Groups |-> IF table[g] = << >> THEN << >> ELSE PageLists(g, GroupPages[g].size)]
<1>1. \A g \in Groups : F[g] = IF table[g] = << >> THEN << >> ELSE PageLists(g, GroupPages[g].size) OBVIOUS
<1>2. << >> \in Seq(PageHeads) /\ Once(<< >>) /\ Range(<< >>) = {} BY DEF Once, Range
<1>3. \A g \in Groups : GroupPages[g].size \in Nat BY Limits
<1>4. F \in [Groups -> Seq(PageHeads)] BY <1>2, <1>3, PageListsAre
<1>5. PeTraversed = FlattenSeq(F) BY DEF PeTraversed
<1> HIDE DEF F
<1>6. \A g \in Groups : Once(F[g]) /\ Range(F[g]) = IF table[g] = << >> THEN {} ELSE FirstHeads(g, GroupPages[g].size)
  BY <1>1, <1>2, <1>3, PageListsAre
<1>7. \A g \in Groups : \A l \in Range(F[g]) : l[2] = g BY <1>3, <1>6, HeadOf
<1>8. /\ FlattenSeq(F) \in Seq(PageHeads) /\ Once(FlattenSeq(F))
      /\ \A l \in Range(FlattenSeq(F)) : \E g \in Groups : l \in Range(F[g])
      /\ \A g \in Groups : Range(F[g]) \subseteq Range(FlattenSeq(F))
  BY <1>4, <1>6, <1>7, GroupwiseAre
<1> QED BY <1>5, <1>6, <1>8

\* The lists in front of those of the sections.
FrontLists == IF fmt = "flat" THEN AllTraversed ELSE IF fmt = "pe" THEN PeTraversed ELSE GroupLists

LEMMA FrontListsAre ==
  /\ DumpOrder = FrontLists \o SectLists \o <<FloatFixups>>
  /\ FrontLists \in Seq(Lists) /\ Once(FrontLists)
  /\ \A l \in Range(FrontLists) : l[1] \in {"page", "group"}
  /\ \A l \in Targets : (Paged => table[l[2]] # << >>) =>
        l \in Range(FrontLists) \/ l = FloatFixups \/ \E s \in 1 .. NumSects : l = <<"sect", s>>
<1>1. DumpOrder = FrontLists \o SectLists \o <<FloatFixups>> BY DEF DumpOrder, FrontLists, AllTraversed, PeTraversed
<1>2. \A l \in PageHeads : l[1] = "page" BY DEF PageHeads
<1>3. \A g \in Groups : GroupPages[g].size \in Nat /\ GroupPages[g].total \in Nat /\ GroupPages[g].size <= GroupPages[g].total
  BY Limits
<1>4. CASE Paged
  <2>1. FrontLists \in {AllTraversed, PeTraversed} BY <1>4 DEF FrontLists, Paged
  <2>2. \A l \in Range(AllTraversed) \cup Range(PeTraversed) : l \in Lists
    <3>1. \A g \in Groups : FirstHeads(g, GroupPages[g].total) \subseteq Lists BY <1>4, ListsAre
    <3>2. \A g \in Groups : FirstHeads(g, GroupPages[g].size) \subseteq FirstHeads(g, GroupPages[g].total) BY <1>3, MoreHeads
    <3> QED BY <3>1, <3>2, AllTraversedAre, PeTraversedAre
  <2>3. AllTraversed \in Seq(Lists) /\ PeTraversed \in Seq(Lists) BY <2>2, SeqIn, AllTraversedAre, PeTraversedAre
  <2>4. \A l \in Range(AllTraversed) \cup Range(PeTraversed) : l \in PageHeads
    BY AllTraversedAre, PeTraversedAre, Elements DEF Range
  <2>5. ASSUME NEW l \in Targets, table[l[2]] # << >> PROVE l \in Range(FrontLists)
    <3>1. PICK g \in Groups : l[2] = g /\ l \in FirstHeads(g, GroupPages[g].size) BY <1>4, TargetIs
    <3>2. l \in FirstHeads(g, GroupPages[g].total) BY <1>3, <3>1, MoreHeads
    <3>3. l \in Range(AllTraversed) /\ l \in Range(PeTraversed) BY <2>5, <3>1, <3>2, AllTraversedAre, PeTraversedAre
    <3> QED BY <2>1, <3>3
  <2>6. Once(AllTraversed) /\ Once(PeTraversed) BY AllTraversedAre, PeTraversedAre
  <2> QED BY <1>1, <1>2, <1>4, <2>1, <2>3, <2>4, <2>5, <2>6
<1>5. CASE ~Paged
  <2>1. FrontLists = GroupLists BY <1>5 DEF FrontLists, Paged
  <2>2. GroupLists \in Seq(Lists) /\ Once(GroupLists) /\ Range(GroupLists) = {<<"group", g>> : g \in Groups} BY <1>5, PlainLists
  <2>3. \A l \in Range(GroupLists) : l[1] = "group" BY <2>2
  <2>4. ASSUME NEW l \in Targets
        PROVE  l \in Range(GroupLists) \/ l = FloatFixups \/ \E s \in 1 .. NumSects : l = <<"sect", s>>
    <3>1. 1 \in 1 .. NumSects BY Limits
    <3>2. (\E g \in Groups : l = <<"group", g>>) \/ l = FloatFixups \/ \E s \in 1 .. NumSects : l = <<"sect", s>>
      <4>1. CASE fmt \in {"os2", "elf"} BY <4>1, TargetIs
      <4>2. CASE fmt = "qnx" BY <3>1, <4>2, TargetIs
      <4>3. CASE fmt \notin {"flat", "pe", "os2", "elf", "qnx"} BY <4>3, TargetIs
      <4> QED BY <1>5, <4>1, <4>2, <4>3 DEF Paged
    <3> QED BY <2>2, <3>2
  <2> QED BY <1>1, <2>1, <2>2, <2>3, <2>4
<1> QED BY <1>4, <1>5

\* Every list that has blocks is in the load file once.
LEMMA DumpOrderIs ==
  /\ DumpOrder \in Seq(Lists) /\ Once(DumpOrder)
  /\ \A l \in Targets : (Paged => table[l[2]] # << >>) => l \in Range(DumpOrder)
<1>1. PICK a, b, c : a = FrontLists /\ b = SectLists /\ c = <<FloatFixups>> OBVIOUS
<1>2. /\ a \in Seq(Lists) /\ Once(a) /\ DumpOrder = a \o b \o c
      /\ \A l \in Range(a) : l[1] \in {"page", "group"}
      /\ \A l \in Targets : (Paged => table[l[2]] # << >>) =>
           l \in Range(a) \/ l = FloatFixups \/ \E s \in 1 .. NumSects : l = <<"sect", s>>
  BY <1>1, FrontListsAre
<1>3. b \in Seq(Lists) /\ Once(b) /\ Range(b) = {<<"sect", s>> : s \in 1 .. NumSects} BY <1>1, PlainLists
<1>4. c \in Seq(Lists) /\ Once(c) /\ Range(c) = {FloatFixups}
  <2>1. FloatFixups \in Lists BY ListsAre
  <2>2. DOMAIN c = {1} /\ c[1] = FloatFixups BY <1>1
  <2> QED BY <1>1, <2>1, <2>2 DEF Once, Range
<1>5. \A l \in Range(b) : l[1] = "sect" BY <1>3
<1>6. FloatFixups[1] = "float" BY DEF FloatFixups
<1>7. Range(a) \cap Range(b) = {} BY <1>2, <1>5
<1>8. PICK ab : ab = a \o b OBVIOUS
<1>9. ab \in Seq(Lists) /\ Once(ab) /\ Range(ab) = Range(a) \cup Range(b) BY <1>2, <1>3, <1>7, <1>8, JoinHas
<1>10. Range(ab) \cap Range(c) = {} BY <1>2, <1>4, <1>5, <1>6, <1>9
<1>11. ab \o c \in Seq(Lists) /\ Once(ab \o c) /\ Range(ab \o c) = Range(ab) \cup Range(c) BY <1>4, <1>9, <1>10, JoinHas
<1>12. DumpOrder = ab \o c BY <1>2, <1>8
<1> QED BY <1>2, <1>3, <1>4, <1>9, <1>11, <1>12

-----------------------------------------------------------------------------
(* The steps that put a relocation into a list                              *)

LEMMA SizesAre ==
  ASSUME fmt \in Formats, NEW n \in FmtSizes(fmt)
  PROVE  n \in 1 .. PageSize /\ n \in Nat \ {0}
         /\ (fmt \notin {"flat", "pe", "os2", "elf", "qnx"} => FmtSizes(fmt) = {n})
<1>1. n \in 1 .. PageSize BY RelocAssumption
<1>2. fmt \notin {"flat", "pe", "os2", "elf", "qnx"} => FmtSizes(fmt) = {n}
  <2> SUFFICES ASSUME fmt \notin {"flat", "pe", "os2", "elf", "qnx"} PROVE FmtSizes(fmt) = {n}
    OBVIOUS
  <2>1. fmt \in Formats \ {"flat", "pe", "os2", "elf", "qnx"} OBVIOUS
  <2>2. \E m \in 1 .. PageSize : FmtSizes(fmt) = {m} BY <2>1, RelocAssumption
  <2> QED BY <2>2
<1> QED BY <1>1, <1>2, Limits

\* A block that was just allocated in the spill file is behind all others.
LEMMA PutDiskApart ==
  ASSUME fmt' = fmt, IInv, DiskApart, NEW l \in Lists, NEW n, NEW new, NEW e, PutIn(l, n, new, e)
  PROVE  DiskApart'
<1> DEFINE From(m, k) == IF m = l THEN k - e ELSE k
           Fresh(m, k) == m = l /\ k = 1 /\ lists'[m][k].loc = Len(disk) + 1
           Is(m, k) == /\ From(m, k) \in DOMAIN lists[m] /\ lists[m][From(m, k)].spilled
                       /\ lists[m][From(m, k)].loc = lists'[m][k].loc /\ lists'[m][k].loc \in DOMAIN disk
<1>1. Lists' = Lists /\ lists \in [Lists -> Seq(Block)] /\ disk \in Seq(Area) BY FmtSame DEF IInv, Shape
<1>2. PICK old : old = lists[l] OBVIOUS
<1>3. lists' = [lists EXCEPT ![l] = new] /\ e \in {0, 1} /\ new \in Seq(Block) /\ Len(new) = Len(old) + e /\ new # << >>
  BY <1>2 DEF PutIn
<1>4. lists'[l] = new /\ \A m \in Lists \ {l} : lists'[m] = lists[m] BY <1>1, <1>3
<1>5. old \in Seq(Block) /\ DOMAIN old = 1 .. Len(old) /\ Len(old) \in Nat /\ DOMAIN new = 1 .. Len(new)
  BY <1>1, <1>2, <1>3, Elements
<1>6. \A m \in Lists : \A k \in DOMAIN lists[m] : lists[m][k].spilled => lists[m][k].loc \in DOMAIN disk
  BY DEF IInv, Shape, BlockOK
<1>7. ASSUME NEW m \in Lists, NEW k \in DOMAIN lists'[m], lists'[m][k].spilled PROVE Fresh(m, k) \/ Is(m, k)
  <2>1. CASE m # l
    <3>1. lists'[m] = lists[m] BY <1>4, <2>1
    <3> QED BY <1>6, <1>7, <2>1, <3>1
  <2>2. CASE m = l /\ k \in 2 .. Len(new)
    <3>1. k - e \in DOMAIN old /\ new[k] = old[k - e] BY <1>2, <2>2 DEF PutIn
    <3> QED BY <1>2, <1>4, <1>6, <1>7, <2>2, <3>1
  <2>3. CASE m = l /\ k = 1
    <3>1. CASE e = 1 BY <1>4, <1>7, <2>3, <3>1 DEF PutIn
    <3>2. CASE e = 0
      <4>1. new[1].spilled = old[1].spilled /\ new[1].loc = old[1].loc /\ 1 \in DOMAIN old BY <1>2, <1>3, <1>5, <3>2 DEF PutIn
      <4> QED BY <1>2, <1>4, <1>6, <1>7, <2>3, <3>2, <4>1
    <3> QED BY <1>3, <3>1, <3>2
  <2>4. m = l => k = 1 \/ k \in 2 .. Len(new) BY <1>4, <1>5
  <2> QED BY <2>1, <2>2, <2>3, <2>4
<1>8. Len(disk) + 1 \notin DOMAIN disk
  <2> HIDE DEF Area
  <2> QED BY <1>1
<1>9. ASSUME NEW i \in Lists, NEW m \in Lists, NEW j \in DOMAIN lists'[i], NEW k \in DOMAIN lists'[m],
             lists'[i][j].spilled, lists'[m][k].spilled, lists'[i][j].loc = lists'[m][k].loc
      PROVE  i = m /\ j = k
  <2>1. (Fresh(i, j) \/ Is(i, j)) /\ (Fresh(m, k) \/ Is(m, k)) BY <1>7, <1>9
  <2>2. (Fresh(i, j) /\ Fresh(m, k)) \/ (Is(i, j) /\ Is(m, k)) BY <1>8, <1>9, <2>1
  <2>3. CASE Fresh(i, j) /\ Fresh(m, k) BY <2>3
  <2>4. CASE Is(i, j) /\ Is(m, k)
    <3>1. i = m /\ From(i, j) = From(m, k) BY <1>9, <2>4 DEF DiskApart
    <3>2. i = l => j \in Nat /\ k \in Nat BY <1>4, <1>5, <3>1
    <3> QED BY <1>3, <3>1, <3>2
  <2> QED BY <2>2, <2>3, <2>4
<1> QED BY <1>1, <1>9 DEF DiskApart

LEMMA PutRelocs ==
  ASSUME fmt' = fmt, IInv, RelocsRight, NEW l \in Targets, NEW n \in FmtSizes(fmt), NEW new, NEW e, PutIn(l, n, new, e),
         Counts(l), phase' # "clean"
  PROVE  RelocsRight'
<1>1. l \in Lists /\ lists \in [Lists -> Seq(Block)] /\ fmt \in Formats BY TargetIs DEF IInv, Shape
<1>2. PICK c : c = Counted(l) OBVIOUS
<1>3. relocs' = [s \in DOMAIN relocs |-> IF s \in c THEN relocs[s] + 1 ELSE relocs[s]] BY <1>2 DEF Counts
<1>4. relocs \in [1 .. NumSects -> Nat] BY DEF RelocsRight
<1>5. \A s \in 1 .. NumSects : relocs'[s] = IF s \in c THEN relocs[s] + 1 ELSE relocs[s] BY <1>3, <1>4
<1>6. relocs' \in [1 .. NumSects -> Nat] BY <1>3, <1>4
<1>7. ASSUME fmt \notin {"flat", "pe", "os2", "elf", "qnx"}, NEW s \in 1 .. NumSects, NEW m \in FmtSizes(fmt)
      PROVE  relocs'[s] * m = Total(lists'[<<"sect", s>>])
  <2>1. m = n /\ n \in Nat BY <1>1, <1>7, SizesAre
  <2>2. PICK t \in 1 .. NumSects : l = <<"sect", t>> BY <1>7, TargetIs
  <2>3. c = {t} BY <1>2, <1>7, <2>2 DEF Counted
  <2>4. relocs[s] * n = Total(lists[<<"sect", s>>]) BY <1>7, <2>1 DEF RelocsRight
  <2>5. lists' = [lists EXCEPT ![l] = new] /\ Total(new) = Total(lists[l]) + n BY DEF PutIn
  <2>6. CASE s = t
    <3>1. relocs'[s] = relocs[s] + 1 /\ relocs[s] \in Nat BY <1>4, <1>5, <2>3, <2>6
    <3>2. lists'[<<"sect", s>>] = new BY <1>1, <2>2, <2>5, <2>6
    <3>3. (relocs[s] + 1) * n = relocs[s] * n + n BY <2>1, <3>1
    <3> QED BY <2>1, <2>2, <2>4, <2>5, <2>6, <3>1, <3>2, <3>3
  <2>7. CASE s # t
    <3>1. relocs'[s] = relocs[s] BY <1>5, <2>3, <2>7
    <3>2. <<"sect", s>> # l BY <2>2, <2>7
    <3>3. lists'[<<"sect", s>>] = lists[<<"sect", s>>] BY <2>5, <3>2
    <3> QED BY <2>1, <2>4, <3>1, <3>3
  <2> QED BY <2>6, <2>7
<1>8. \A b : Used(b)' = Used(b) BY DEF Used
<1> QED BY <1>6, <1>7 DEF RelocsRight, Total, Used

LEMMA PutKept ==
  ASSUME fmt' = fmt, IInv, IInv', Kept, Running, Running', phase = "pass2", NEW l \in Targets, NEW n \in FmtSizes(fmt),
         NEW new, NEW e, PutIn(l, n, new, e), Counts(l), UNCHANGED <<cursor, written>>
  PROVE  Kept'
<1>1. l \in Lists /\ fmt \in Formats /\ count \in Nat /\ Lists' = Lists BY TargetIs, FmtSame DEF IInv, Shape
<1>2. n \in Nat \ {0} BY <1>1, SizesAre
<1>3. Pieces(Held, count) /\ IdsApart(Held) /\ DiskApart /\ RelocsRight /\ WrittenOK BY DEF Kept
<1>4. phase' = "pass2" BY DEF PutIn
<1>5. count' = count + 1 /\ op' = NoOp BY <1>4 DEF Counts
<1>6. Joins(Held, Held', l, e, count, n) BY <1>1, <1>2, <1>3, PutHeld
<1>7. Pieces(Held', count') /\ IdsApart(Held')
  <2>1. PICK h, g : h = Held /\ g = Held' OBVIOUS
  <2>2. Joins(h, g, l, e, count, n) /\ Pieces(h, count) /\ IdsApart(h) BY <1>3, <1>6, <2>1
  <2>3. Pieces(g, count + 1) BY <1>1, <1>2, <2>2, JoinedPieces
  <2>4. IdsApart(g) BY <1>1, <1>2, <2>2, JoinedApart
  <2> QED BY <1>5, <2>1, <2>3, <2>4
<1>8. DiskApart' BY <1>1, <1>3, PutDiskApart
<1>9. RelocsRight' BY <1>3, <1>4, PutRelocs
<1>10. WrittenOK' BY <1>1, <1>3, <1>4, <1>5 DEF WrittenOK, Record0
<1> QED BY <1>7, <1>8, <1>9, <1>10 DEF Kept, Pieces, PieceOK, IdsApart

LEMMA PutStep ==
  ASSUME fmt' = fmt, IInv, IInv', Kept, Running, Running', phase = "pass2", NEW l \in Targets, NEW n \in FmtSizes(fmt),
         NEW new, NEW e, PutIn(l, n, new, e), UNCHANGED written
  PROVE  StoreOf!Next
<1>1. l \in Lists /\ fmt \in Formats /\ count \in Nat /\ Lists' = Lists BY TargetIs, FmtSame DEF IInv, Shape
<1>2. n \in Nat \ {0} BY <1>1, SizesAre
<1>3. Pieces(Held, count) BY DEF Kept
<1>4. PICK h, g : h = Held /\ g = Held' OBVIOUS
<1>5. Joins(h, g, l, e, count, n) BY <1>1, <1>2, <1>3, <1>4, PutHeld
<1>6. PICK s, t : s = InLists /\ t = InLists' OBVIOUS
<1>7. DOMAIN s = Lists /\ \A k \in Lists : s[k] = AllCells(h[k]) BY <1>4, <1>6, InIs DEF InOK
<1>8. DOMAIN t = Lists /\ \A k \in Lists : t[k] = AllCells(g[k])
  <2>1. InOK' BY InNext
  <2>2. (DOMAIN InLists)' = Lists /\ \A k \in Lists : (InLists[k])' = AllCells(Held[k])' BY <1>1, <2>1 DEF InOK
  <2> QED BY <1>1, <1>4, <1>6, <2>2 DEF AllCells
<1>9. Pieces(h, count) BY <1>3, <1>4
<1>10. AllCells(g[l]) = AllCells(h[l]) \cup NewSet(count + 1, n) BY <1>1, <1>2, <1>5, <1>9, JoinedCells
<1>11. \A k \in Lists \ {l} : g[k] = h[k]
  <2>1. DOMAIN h = Lists BY <1>4, HeldIs
  <2> QED BY <1>5, <2>1 DEF Joins
<1>12. ASSUME NEW k \in Lists, NEW c \in AllCells(h[k]) PROVE c[1] # count + 1
  <2>1. DOMAIN h = Lists BY <1>4, HeldIs
  <2>2. PICK j \in DOMAIN h[k] : c \in Range(h[k][j]) BY DEF AllCells
  <2>3. Ids(h[k][j]) \subseteq 1 .. count BY <1>9, <2>1 DEF Pieces, PieceOK
  <2>4. c[1] \in Ids(h[k][j]) BY <2>2 DEF Range, Ids
  <2>5. count + 1 \notin 1 .. count BY <1>1
  <2> QED BY <2>3, <2>4, <2>5
<1>13. <<count + 1, 1>> \in NewSet(count + 1, n)
  <2>1. 1 \in 1 .. n BY <1>2
  <2> QED BY <2>1 DEF NewSet
<1>14. PICK id : id = count + 1 OBVIOUS
<1>15. phase # "load" /\ phase' # "load" /\ UNCHANGED <<fmt, written, linkError>> /\ ~linkError' BY DEF PutIn, Running
<1>16. /\ \A k \in DOMAIN s \ {l} : t[k] = s[k]
       /\ t[l] = s[l] \cup NewSet(id, n)
       /\ <<id, 1>> \in NewSet(id, n) /\ l \in DOMAIN s
       /\ \A k \in DOMAIN s : \A c \in s[k] : c[1] # id
  BY <1>1, <1>7, <1>8, <1>10, <1>11, <1>12, <1>13, <1>14
<1> QED BY <1>6, <1>15, <1>16, MapPut

-----------------------------------------------------------------------------
(* Steps that leave the contents of the lists alone                         *)

LEMMA InSame ==
  ASSUME fmt' = fmt, IInv, IInv', Held' = Held, Running' <=> Running
  PROVE  InLists' = InLists
<1>1. Lists' = Lists BY FmtSame
<1>2. InOK /\ InOK' BY InIs, InNext
<1>3. DOMAIN InLists = Lists /\ DOMAIN InLists' = Lists BY <1>1, <1>2 DEF InOK
<1>4. \A l \in Lists : (InLists[l])' = IF Running' THEN AllCells(Held[l])' ELSE {} BY <1>1, <1>2 DEF InOK
<1>5. \A l \in Lists : InLists'[l] = IF Running' THEN AllCells(Held'[l]) ELSE {} BY <1>4 DEF AllCells
<1>6. \A l \in Lists : InLists[l] = IF Running THEN AllCells(Held[l]) ELSE {} BY <1>2 DEF InOK
<1>7. \A l \in Lists : InLists'[l] = InLists[l] BY <1>5, <1>6
<1>8. InLists = [l \in DOMAIN InLists |-> InLists[l]] BY DEF InLists
<1>9. InLists' = [l \in DOMAIN InLists' |-> InLists'[l]] BY DEF InLists
<1> QED BY <1>3, <1>7, <1>8, <1>9

LEMMA KeptSame ==
  ASSUME Kept, Running, Held' = Held, count' = count, DiskApart', RelocsRight', WrittenOK'
  PROVE  Kept'
<1>1. Pieces(Held, count) /\ IdsApart(Held) BY DEF Kept
<1>2. Pieces(Held', count') /\ IdsApart(Held') BY <1>1
<1> QED BY <1>2 DEF Kept, Pieces, PieceOK, IdsApart

LEMMA BlocksSame ==
  ASSUME UNCHANGED <<fmt, lists, relocs>>
  PROVE  /\ (DiskApart => DiskApart') /\ (RelocsRight => RelocsRight')
         /\ Lists' = Lists /\ Record0' = Record0
<1>1. Lists' = Lists BY FmtSame
<1>2. DiskApart => DiskApart' BY <1>1 DEF DiskApart
<1>3. ASSUME RelocsRight PROVE RelocsRight'
  <2>1. \A x : Total(lists[x])' = Total(lists[x]) BY DEF Total, Used
  <2>2. relocs' = relocs /\ fmt' = fmt OBVIOUS
  <2>3. relocs' \in [1 .. NumSects -> Nat] BY <1>3 DEF RelocsRight
  <2>4. ASSUME fmt \notin {"flat", "pe", "os2", "elf", "qnx"}, NEW s \in 1 .. NumSects, NEW n \in FmtSizes(fmt)
        PROVE  relocs'[s] * n = Total(lists[<<"sect", s>>])'
    BY <1>3, <2>1, <2>4 DEF RelocsRight
  <2> QED BY <2>2, <2>3, <2>4 DEF RelocsRight
<1> QED BY <1>1, <1>2, <1>3 DEF Record0

LEMMA MemSame ==
  ASSUME UNCHANGED <<fmt, lists, ram, disk>>
  PROVE  Held' = Held
BY FmtSame DEF Held, Content, Used

LEMMA WriteRelocKept ==
  ASSUME IInv, IInv', Kept, Running', NEW l \in Targets, NEW n \in FmtSizes(fmt), WriteReloc(l, n)
  PROVE  Kept' /\ (StoreOf!Next \/ UNCHANGED StoreOf!vars)
<1>1. Running /\ phase = "pass2" /\ op = NoOp /\ UNCHANGED <<fmt, table, cursor, written>> BY DEF WriteReloc
<1>2. WrittenOK /\ DiskApart /\ RelocsRight BY <1>1 DEF Kept
<1>3. n \in 1 .. PageSize BY SizesAre DEF IInv, Shape
<1>4. l \in Lists BY TargetIs
<1>5. CASE NeedsTable(l) \/ NeedsBlock(l, n)
  <2>1. /\ op' = [kind |-> "alloc", list |-> l, size |-> n, parts |-> << >>]
        /\ UNCHANGED <<lists, ram, disk, relocs, count, phase, linkError>>
    BY <1>5 DEF WriteReloc
  <2>2. Held' = Held BY <1>1, <2>1, MemSame
  <2>3. DiskApart' /\ RelocsRight' /\ Record0' = Record0 BY <1>1, <1>2, <2>1, BlocksSame
  <2>4. op'.size = n BY <2>1
  <2>5. WrittenOK' BY <1>1, <1>2, <2>1, <2>3, <2>4 DEF WrittenOK
  <2>6. Kept' BY <1>1, <2>1, <2>2, <2>3, <2>5, KeptSame
  <2>7. InLists' = InLists BY <1>1, <2>2, InSame
  <2>8. UNCHANGED StoreOf!vars BY <1>1, <2>1, <2>7, MapSame
  <2> QED BY <2>6, <2>8
<1>6. CASE ~NeedsTable(l) /\ ~NeedsBlock(l, n)
  <2>1. PICK old : old = lists[l] OBVIOUS
  <2>2. Store(l, n, old, ram, disk) /\ Counts(l) BY <1>6, <2>1 DEF WriteReloc
  <2>3. old \in Seq(Block) /\ old # << >> /\ ~(old[1].left < n) BY <1>4, <1>6, <2>1 DEF NeedsBlock, IInv, Shape
  <2>4. old[1] \in Block BY <2>3, Elements
  <2>5. n <= old[1].left BY <1>3, <2>3, <2>4, Limits DEF Block
  <2>6. PICK new : PutIn(l, n, new, 0) BY <1>1, <1>2, <1>3, <1>4, <2>1, <2>2, <2>3, <2>5, PutInHead
  <2>7. Kept' BY <1>1, <2>2, <2>6, PutKept
  <2>8. StoreOf!Next BY <1>1, <2>6, PutStep
  <2> QED BY <2>7, <2>8
<1> QED BY <1>5, <1>6

LEMMA AllocRelocInfoKept ==
  ASSUME IInv, IInv', Kept, Running', AllocRelocInfo
  PROVE  Kept' /\ (StoreOf!Next \/ UNCHANGED StoreOf!vars)
<1>1. PICK l : l = op.list OBVIOUS
<1>2. PICK n : n = op.size OBVIOUS
<1>3. op # NoOp /\ Running /\ UNCHANGED <<fmt, table, cursor, written>> /\ Counts(l) BY <1>1 DEF AllocRelocInfo, Allocating
<1>4. n \in FmtSizes(fmt) /\ phase = "pass2" BY <1>2, <1>3 DEF Kept, WrittenOK
<1>5. l \in Targets BY <1>1, <1>3 DEF IInv, Shape
<1>6. n \in 1 .. PageSize BY <1>4, SizesAre DEF IInv, Shape
<1>7. l \in Lists BY <1>5, TargetIs
<1>8. disk \in Seq(Area) /\ Len(disk) \in Nat BY DEF IInv, Shape
<1>9. NewAddr \in Nat /\ NewAddr \notin Heap BY NewAddrIsNew DEF IInv, Shape
<1>10. \E new : PutIn(l, n, new, 1)
  <2>1. CASE Store(l, n, <<[left |-> PageSize, spilled |-> FALSE, loc |-> NewAddr]>> \o lists[l], With(NewAddr, Cleared), disk)
    <3>1. PICK a : a = NewAddr OBVIOUS
    <3>2. PICK b : b = [left |-> PageSize, spilled |-> FALSE, loc |-> a] OBVIOUS
    <3>3. PICK r : r = With(a, Cleared) OBVIOUS
    <3>4. b \in Block /\ b.left = PageSize /\ ~b.spilled /\ b.loc = a BY <1>9, <3>1, <3>2, Limits DEF Block
    <3>5. DOMAIN r = Heap \cup {a} /\ r[a] = Cleared /\ \A x \in Heap : r[x] = ram[x]
      BY <1>9, <3>1, <3>3 DEF With
    <3>6. Store(l, n, <<b>> \o lists[l], r, disk) BY <2>1, <3>1, <3>2, <3>3
    <3>7. b.loc \in DOMAIN r /\ b.loc \notin Heap /\ r[b.loc] \in Area BY <1>9, <3>1, <3>4, <3>5, ClearedOK
    <3>8. Heap \subseteq DOMAIN r BY <3>5
    <3> QED BY <1>3, <1>6, <1>7, <1>8, <3>4, <3>5, <3>6, <3>7, <3>8, PutInNew
  <2>2. CASE Store(l, n, <<[left |-> PageSize, spilled |-> TRUE, loc |-> Len(disk) + 1]>> \o lists[l], ram, Append(disk, Cleared))
    <3>1. PICK b : b = [left |-> PageSize, spilled |-> TRUE, loc |-> Len(disk) + 1] OBVIOUS
    <3>2. PICK d : d = Append(disk, Cleared) OBVIOUS
    <3>3. b \in Block /\ b.left = PageSize /\ b.spilled /\ b.loc = Len(disk) + 1 BY <1>8, <3>1, Limits DEF Block
    <3>4. d \in Seq(Area) /\ Len(d) = Len(disk) + 1 /\ DOMAIN disk \subseteq DOMAIN d /\ Len(disk) + 1 \in DOMAIN d
          /\ \A x \in DOMAIN disk : d[x] = disk[x]
      <4>1. Cleared \in Area BY ClearedOK
      <4> HIDE DEF Area
      <4> QED BY <1>8, <3>2, <4>1
    <3>5. Store(l, n, <<b>> \o lists[l], ram, d) BY <2>2, <3>1, <3>2
    <3>6. Heap \subseteq DOMAIN ram BY DEF Heap
    <3> QED BY <1>3, <1>6, <1>7, <3>3, <3>4, <3>5, <3>6, PutInNew
  <2> QED BY <1>1, <1>2, <2>1, <2>2 DEF AllocRelocInfo
<1>11. PICK new : PutIn(l, n, new, 1) BY <1>10
<1>12. Kept' BY <1>3, <1>4, <1>5, <1>11, PutKept
<1>13. StoreOf!Next BY <1>3, <1>4, <1>5, <1>11, PutStep
<1> QED BY <1>12, <1>13

LEMMA DumpOrderSame == ASSUME UNCHANGED <<fmt, table>> PROVE DumpOrder' = DumpOrder
BY DEF DumpOrder, TraverseOS2RelocList, PageLists, PartLists, GroupLists

LEMMA DoneNone == ASSUME NEW l, written = << >> PROVE StoreOf!Done(l) = {}
BY DEF StoreOf!Done

LEMMA WrittenSame ==
  ASSUME UNCHANGED <<fmt, table, op, cursor, written, phase>>, Held' = Held,
         \A l \in Lists : Len(lists'[l]) = Len(lists[l]), WrittenOK
  PROVE  WrittenOK'
<1>1. Lists' = Lists /\ DumpOrder' = DumpOrder BY FmtSame, DumpOrderSame
<1>2. written' \in Seq(Record0)' BY <1>1 DEF WrittenOK, Record0
<1>3. op' # NoOp => op'.size \in FmtSizes(fmt') /\ phase' = "pass2" BY DEF WrittenOK
<1>4. phase' = "pass2" => written' = << >> /\ cursor' = [list |-> 0, block |-> 0] BY DEF WrittenOK
<1>5. ASSUME phase = "load" PROVE CursorOK' /\ (\A l \in Lists : StoreOf!Done(l) = FrontCells(Held[l], BlocksDone(l)))'
  <2>1. CursorOK /\ \A l \in Lists : StoreOf!Done(l) = FrontCells(Held[l], BlocksDone(l)) BY <1>5 DEF WrittenOK
  <2>2. DumpOrder \in Seq(Lists) BY DumpOrderIs
  <2>3. cursor.list < Len(DumpOrder) => DumpOrder[cursor.list + 1] \in Lists
    <3>1. cursor.list \in Nat BY <2>1 DEF CursorOK
    <3> QED BY <2>2, <3>1
  <2>4. CursorOK' BY <1>1, <2>1, <2>3 DEF CursorOK
  <2>5. \A l \in Lists : BlocksDone(l)' = BlocksDone(l) BY <1>1 DEF BlocksDone
  <2>6. \A l \in Lists : StoreOf!Done(l)' = StoreOf!Done(l) BY DEF StoreOf!Done
  <2>7. \A l \in Lists : FrontCells(Held[l], BlocksDone(l))' = FrontCells(Held[l], BlocksDone(l)) BY <2>5 DEF FrontCells
  <2> QED BY <1>1, <2>1, <2>4, <2>6, <2>7
<1> QED BY <1>2, <1>3, <1>4, <1>5 DEF WrittenOK

LEMMA StartLoadKept ==
  ASSUME IInv, IInv', Kept, Running', StartLoad
  PROVE  Kept' /\ StoreOf!Next
<1>1. Running /\ phase = "pass2" /\ op = NoOp /\ phase' = "load"
      /\ UNCHANGED <<fmt, lists, table, relocs, ram, disk, op, count, cursor, written, linkError>>
  BY DEF StartLoad, mem
<1>2. WrittenOK /\ DiskApart /\ RelocsRight BY <1>1 DEF Kept
<1>3. Held' = Held BY <1>1, MemSame
<1>4. DiskApart' /\ RelocsRight' /\ Record0' = Record0 /\ Lists' = Lists BY <1>1, <1>2, BlocksSame
<1>5. written = << >> /\ cursor = [list |-> 0, block |-> 0] BY <1>1, <1>2 DEF WrittenOK
<1>6. DumpOrder' = DumpOrder /\ DumpOrder \in Seq(Lists) BY <1>1, DumpOrderSame, DumpOrderIs
<1>7. lists \in [Lists -> Seq(Block)] BY DEF IInv, Shape
<1>8. CursorOK'
  <2>1. cursor'.list = 0 /\ cursor'.block = 0 /\ cursor' \in [list : 0 .. Len(DumpOrder), block : Nat]
    <3>1. Len(DumpOrder) \in Nat BY <1>6
    <3> QED BY <1>1, <1>5, <3>1
  <2>2. 0 < Len(DumpOrder) => Len(lists[DumpOrder[0 + 1]]) \in Nat
    <3>1. 0 < Len(DumpOrder) => DumpOrder[0 + 1] \in Lists BY <1>6
    <3> HIDE DEF Block
    <3> QED BY <1>7, <3>1
  <2> QED BY <1>1, <1>6, <2>1, <2>2 DEF CursorOK
<1>9. ASSUME NEW l \in Lists PROVE StoreOf!Done(l)' = FrontCells(Held[l], BlocksDone(l))'
  <2>1. StoreOf!Done(l)' = {} BY <1>1, <1>5 DEF StoreOf!Done
  <2>2. BlocksDone(l)' = 0
    <3>1. cursor'.list = 0 /\ cursor'.block = 0 BY <1>1, <1>5
    <3> QED BY <3>1 DEF BlocksDone
  <2>3. Held[l] \in Seq(Seq(Cell))
    <3>1. Pieces(Held, count) BY <1>1 DEF Kept
    <3> QED BY <3>1, HeldIs DEF Pieces
  <2>4. FrontCells(Held[l], 0) = {} BY <2>3, FrontIs
  <2>5. FrontCells(Held[l], BlocksDone(l))' = FrontCells(Held'[l], BlocksDone(l)') BY DEF FrontCells
  <2> QED BY <1>3, <2>1, <2>2, <2>4, <2>5
<1>10. WrittenOK' BY <1>1, <1>2, <1>4, <1>5, <1>8, <1>9 DEF WrittenOK
<1>11. Kept' BY <1>1, <1>3, <1>4, <1>10, KeptSame
<1>12. InLists' = InLists BY <1>1, <1>3, InSame
<1>13. ~linkError' BY DEF Running
<1> QED BY <1>1, <1>11, <1>12, <1>13, MapStart

LEMMA OS2PagedRelocInitKept ==
  ASSUME IInv, IInv', Kept, Running', OS2PagedRelocInit
  PROVE  Kept' /\ UNCHANGED StoreOf!vars
<1>1. PICK a : a = NewAddr OBVIOUS
<1>2. op # NoOp /\ Running /\ ram' = With(a, << >>) /\ UNCHANGED <<fmt, lists, relocs, disk, count, cursor, written, phase, linkError>>
  BY <1>1 DEF OS2PagedRelocInit, Allocating
<1>3. WrittenOK /\ DiskApart /\ RelocsRight BY <1>2 DEF Kept
<1>4. phase = "pass2" /\ op.size \in FmtSizes(fmt) BY <1>2, <1>3 DEF WrittenOK
<1>5. op'.size = op.size
  <2>1. op \in [kind : {"alloc"}, list : Targets, size : 1 .. PageSize, parts : Seq(Nat)] BY <1>2 DEF IInv, Shape
  <2>2. \E p : op' = [op EXCEPT !.parts = p] BY DEF OS2PagedRelocInit
  <2> QED BY <2>1, <2>2
<1>6. DiskApart' /\ RelocsRight' /\ Record0' = Record0 BY <1>2, <1>3, BlocksSame
<1>7. WrittenOK' BY <1>2, <1>3, <1>4, <1>5, <1>6 DEF WrittenOK
<1>8. a \notin Heap BY <1>1, NewAddrIsNew DEF IInv, Shape
<1>9. ASSUME NEW l \in Lists, NEW k \in DOMAIN lists[l] PROVE Cont(lists'[l][k], ram', disk') = Content(lists[l][k])
  <2>1. PICK b : b = lists[l][k] OBVIOUS
  <2>2. BlockOK(b) BY <2>1 DEF IInv, Shape
  <2>3. ~b.spilled => ram'[b.loc] = ram[b.loc] BY <1>2, <1>8, <2>2 DEF BlockOK, With
  <2>4. Cont(b, ram', disk') = Cont(b, ram, disk) BY <1>2, <2>3 DEF Cont
  <2> QED BY <1>2, <2>1, <2>4, ContentIs
<1>10. Held' = Held BY <1>2, <1>9, SameHeld
<1>11. Kept' BY <1>2, <1>6, <1>7, <1>10, KeptSame
<1>12. InLists' = InLists BY <1>2, <1>10, InSame
<1> QED BY <1>2, <1>11, <1>12, MapSame

LEMMA TotalSame ==
  ASSUME NEW old \in Seq(Block), NEW new \in Seq(Block), Len(new) = Len(old),
         \A i \in 1 .. Len(old) : Used(new[i]) = Used(old[i])
  PROVE  Total(new) = Total(old)
<1>1. PICK f : Running0(f, old) /\ Total(old) = f[Len(old)] BY TotalSteps
<1>2. Running0(f, new) BY <1>1 DEF Running0
<1> QED BY <1>1, <1>2, TotalIs

\* What a block moved to the spill file holds there.
LEMMA MovedCells ==
  ASSUME NEW b \in Block, BlockOK(b), disk \in Seq(Area), disk' = Append(disk, At(Cleared, 0, Content(b))),
         NEW c, c = Moved(b), NEW r
  PROVE  Used(c) = Used(b) /\ c.spilled /\ c.loc = Len(disk) + 1 /\ Cont(c, r, disk') = Content(b)
<1>1. Used(c) = Used(b) /\ c.spilled = TRUE /\ c.loc = Len(disk) + 1 BY DEF Moved, Used, Block
<1>2. PICK s : s = Content(b) OBVIOUS
<1>3. s \in Seq(Cell \cup {Unset}) /\ Len(s) = Used(b) /\ Used(b) \in 0 .. PageSize BY <1>2, ContentOK
<1>4. PICK a : a = At(Cleared, 0, s) OBVIOUS
<1>5. a \in Area BY <1>3, <1>4, ClearedOK, AtOK
<1>6. disk'[Len(disk) + 1] = a
  <2> HIDE DEF Area
  <2> QED BY <1>2, <1>4, <1>5
<1>7. FirstCells(a, Used(b)) = s
  <2>1. 0 + Len(s) <= PageSize /\ 0 + Len(s) = Used(b) BY <1>3, Limits
  <2>2. FirstCells(At(Cleared, 0, s), 0 + Len(s)) = FirstCells(Cleared, 0) \o s BY <1>3, <2>1, ClearedOK, PutCells
  <2>3. FirstCells(Cleared, 0) = << >>
    <3>1. Cleared \in Seq(Cell \cup {Unset})
      <4>1. Cleared \in [1 .. PageSize -> Cell \cup {Unset}] BY ClearedOK DEF Area
      <4> HIDE DEF Cell
      <4> QED BY <4>1, Limits
    <3> HIDE DEF Cell
    <3> QED BY <3>1 DEF FirstCells
  <2>4. << >> \o s = s
    <3> HIDE DEF Cell
    <3> QED BY <1>3
  <2> QED BY <1>4, <2>1, <2>2, <2>3, <2>4
<1> QED BY <1>1, <1>2, <1>6, <1>7 DEF Cont

LEMMA SwapOutKept ==
  ASSUME IInv, IInv', Kept, Running', SwapOutRelocs
  PROVE  Kept' /\ UNCHANGED StoreOf!vars
<1>1. PICK i \in DOMAIN SwapOrder : \E k \in DOMAIN lists[SwapOrder[i]] :
        LET l == SwapOrder[i]
            b == lists[l][k] IN
        /\ FirstIn(l, k)
        /\ \/ /\ disk' = Append(disk, At(Cleared, 0, Content(b))) /\ UNCHANGED <<phase, linkError>>
              /\ lists' = [lists EXCEPT ![l][k] = Moved(b)] /\ ram' = Without(b.loc)
           \/ /\ disk' = Append(disk, Cleared) /\ SpillFails
              /\ lists' = [lists EXCEPT ![l][k] = Moved(b)] /\ ram' = Without(b.loc)
           \/ disk' = Append(disk, Cleared) /\ Abandon /\ UNCHANGED <<lists, ram>>
  BY DEF SwapOutRelocs
<1>2. PICK l : l = SwapOrder[i] OBVIOUS
<1>3. l \in Lists BY <1>2, SwapOrderIs
<1>4. ~linkError' /\ phase' # "clean" BY DEF Running
<1>5. PICK k \in DOMAIN lists[l] :
        /\ ~lists[l][k].spilled
        /\ disk' = Append(disk, At(Cleared, 0, Content(lists[l][k]))) /\ UNCHANGED <<phase, linkError>>
        /\ lists' = [lists EXCEPT ![l][k] = Moved(lists[l][k])] /\ ram' = Without(lists[l][k].loc)
  BY <1>1, <1>2, <1>4 DEF FirstIn, SpillFails, Abandon
<1>6. Running /\ UNCHANGED <<fmt, table, relocs, op, count, cursor, written, freed>> BY DEF SwapOutRelocs
<1>7. PICK b : b = lists[l][k] OBVIOUS
<1>8. PICK c : c = Moved(b) OBVIOUS
<1>9. lists \in [Lists -> Seq(Block)] /\ disk \in Seq(Area) /\ (\A m \in Lists : \A j \in DOMAIN lists[m] : BlockOK(lists[m][j]))
      /\ lists' \in [Lists -> Seq(Block)] /\ Lists' = Lists
  BY <1>6, FmtSame DEF IInv, Shape
<1>10. b \in Block /\ BlockOK(b) /\ ~b.spilled BY <1>3, <1>5, <1>7, <1>9, Elements
<1>11. Used(c) = Used(b) /\ c.spilled /\ c.loc = Len(disk) + 1 /\ Cont(c, ram', disk') = Content(b)
  BY <1>5, <1>7, <1>8, <1>9, <1>10, MovedCells
<1>12. lists' = [lists EXCEPT ![l] = [lists[l] EXCEPT ![k] = c]] BY <1>5, <1>7, <1>8
<1>13. \A m \in Lists \ {l} : lists'[m] = lists[m] BY <1>9, <1>12
<1>14. DOMAIN lists'[l] = DOMAIN lists[l] /\ lists'[l][k] = c /\ \A j \in DOMAIN lists[l] \ {k} : lists'[l][j] = lists[l][j]
  BY <1>3, <1>9, <1>12
<1>15. \A m \in Lists : DOMAIN lists'[m] = DOMAIN lists[m] /\ Len(lists'[m]) = Len(lists[m])
  <2>1. \A m \in Lists : DOMAIN lists'[m] = DOMAIN lists[m] BY <1>13, <1>14
  <2>2. \A m \in Lists : lists[m] \in Seq(Block) /\ lists'[m] \in Seq(Block) BY <1>9
  <2> HIDE DEF Block
  <2> QED BY <2>1, <2>2
<1>16. \A m \in Lists : \A j \in DOMAIN lists[m] : (m = l /\ j = k) \/ lists'[m][j] = lists[m][j] BY <1>13, <1>14
<1>17. Len(disk) + 1 \notin DOMAIN disk /\ \A x \in DOMAIN disk : disk'[x] = disk[x]
  <2> HIDE DEF Area
  <2> QED BY <1>5, <1>9
<1>18. ASSUME NEW m \in Lists, NEW j \in DOMAIN lists[m] PROVE Cont(lists'[m][j], ram', disk') = Content(lists[m][j])
  <2>1. CASE m = l /\ j = k BY <1>7, <1>11, <1>14, <2>1
  <2>2. CASE ~(m = l /\ j = k)
    <3>1. PICK x : x = lists[m][j] OBVIOUS
    <3>2. BlockOK(x) /\ lists'[m][j] = x BY <1>9, <1>16, <2>2, <3>1
    <3>3. x.spilled => disk'[x.loc] = disk[x.loc] BY <1>17, <3>2 DEF BlockOK
    <3>4. ~x.spilled => ram'[x.loc] = ram[x.loc]
      <4> SUFFICES ASSUME ~x.spilled PROVE ram'[x.loc] = ram[x.loc]
        OBVIOUS
      <4>1. x.loc # b.loc
        <5> SUFFICES ASSUME x.loc = b.loc PROVE FALSE
          OBVIOUS
        <5>1. ~lists[l][k].spilled /\ ~lists[m][j].spilled /\ lists[l][k].loc = lists[m][j].loc BY <1>7, <1>10, <3>1
        <5>2. l = m /\ k = j BY <1>3, <5>1, HeapApart
        <5> QED BY <2>2, <5>2
      <4>2. x.loc \in Heap BY <3>2 DEF BlockOK
      <4> QED BY <1>5, <1>7, <4>1, <4>2 DEF Without
    <3>5. Cont(x, ram', disk') = Cont(x, ram, disk) BY <3>3, <3>4 DEF Cont
    <3> QED BY <3>1, <3>2, <3>5, ContentIs
  <2> QED BY <2>1, <2>2
<1>19. Held' = Held BY <1>6, <1>15, <1>18, SameHeld
<1>20. WrittenOK /\ DiskApart /\ RelocsRight BY <1>6 DEF Kept
<1>21. WrittenOK' BY <1>5, <1>6, <1>15, <1>19, <1>20, WrittenSame
<1>22. DiskApart'
  <2>1. ASSUME NEW m \in Lists, NEW p \in Lists, NEW j \in DOMAIN lists'[m], NEW q \in DOMAIN lists'[p],
               lists'[m][j].spilled, lists'[p][q].spilled, lists'[m][j].loc = lists'[p][q].loc
        PROVE  m = p /\ j = q
    <3>1. j \in DOMAIN lists[m] /\ q \in DOMAIN lists[p] BY <1>15
    <3>2. (m = l /\ j = k) \/ lists'[m][j] = lists[m][j] BY <1>16, <3>1
    <3>3. (p = l /\ q = k) \/ lists'[p][q] = lists[p][q] BY <1>16, <3>1
    <3>4. lists'[m][j] = lists[m][j] => lists'[m][j].loc \in DOMAIN disk BY <1>9, <2>1, <3>1 DEF BlockOK
    <3>5. lists'[p][q] = lists[p][q] => lists'[p][q].loc \in DOMAIN disk BY <1>9, <2>1, <3>1 DEF BlockOK
    <3>6. lists'[l][k].loc = Len(disk) + 1 BY <1>11, <1>14
    <3>7. lists'[m][j] = lists[m][j] /\ lists'[p][q] = lists[p][q] => m = p /\ j = q
      BY <1>20, <2>1, <3>1 DEF DiskApart
    <3> QED BY <1>17, <2>1, <3>2, <3>3, <3>4, <3>5, <3>6, <3>7
  <2> QED BY <1>9, <2>1 DEF DiskApart
<1>23. RelocsRight'
  <2>1. \A m \in Lists : Total(lists'[m]) = Total(lists[m])
    <3> SUFFICES ASSUME NEW m \in Lists PROVE Total(lists'[m]) = Total(lists[m])
      OBVIOUS
    <3>1. \A j \in DOMAIN lists[m] : Used(lists'[m][j]) = Used(lists[m][j]) BY <1>7, <1>11, <1>14, <1>16
    <3>2. lists[m] \in Seq(Block) /\ lists'[m] \in Seq(Block) /\ Len(lists'[m]) = Len(lists[m]) BY <1>9, <1>15
    <3>3. DOMAIN lists[m] = 1 .. Len(lists[m]) BY <3>2, Elements
    <3> QED BY <3>1, <3>2, <3>3, TotalSame
  <2>2. relocs' \in [1 .. NumSects -> Nat] BY <1>6, <1>20 DEF RelocsRight
  <2>3. ASSUME fmt \notin {"flat", "pe", "os2", "elf", "qnx"}, NEW s \in 1 .. NumSects, NEW n \in FmtSizes(fmt)
        PROVE  relocs'[s] * n = Total(lists'[<<"sect", s>>])
    <3>1. <<"sect", s>> \in Lists BY ListsAre
    <3>2. relocs[s] * n = Total(lists[<<"sect", s>>]) BY <1>20, <2>3 DEF RelocsRight
    <3> QED BY <1>6, <2>1, <3>1, <3>2
  <2>4. \A x : Total(lists[x])' = Total(lists'[x]) BY DEF Total, Used
  <2> QED BY <1>6, <2>2, <2>3, <2>4 DEF RelocsRight
<1>24. Kept' BY <1>6, <1>19, <1>21, <1>22, <1>23, KeptSame
<1>25. InLists' = InLists BY <1>6, <1>19, InSame
<1> QED BY <1>5, <1>6, <1>24, <1>25, MapSame

-----------------------------------------------------------------------------
(* The records of the load file                                             *)

\* The blocks of a list of len blocks that are in front of block b of list n + 1.
Behind(o, n, b, l, len) ==
  IF \E i \in 1 .. n : o[i] = l THEN len
  ELSE IF n < Len(o) /\ o[n + 1] = l THEN b ELSE 0

LEMMA BehindIs == \A l : BlocksDone(l) = Behind(DumpOrder, cursor.list, cursor.block, l, Len(lists[l]))
BY DEF BlocksDone, Behind

LEMMA BehindHere ==
  ASSUME NEW S, NEW o \in Seq(S), Once(o), NEW n \in Nat, n < Len(o), NEW b, NEW len
  PROVE  Behind(o, n, b, o[n + 1], len) = b /\ Behind(o, n + 1, 0, o[n + 1], len) = len
<1>1. DOMAIN o = 1 .. Len(o) /\ Len(o) \in Nat OBVIOUS
<1>2. n + 1 \in DOMAIN o /\ n + 1 \in 1 .. n + 1 BY <1>1
<1>3. \A i \in 1 .. n : i \in DOMAIN o /\ i # n + 1 BY <1>1
<1>4. ~\E i \in 1 .. n : o[i] = o[n + 1] BY <1>2, <1>3 DEF Once
<1> QED BY <1>2, <1>4 DEF Behind

LEMMA BehindOther ==
  ASSUME NEW S, NEW o \in Seq(S), NEW n \in Nat, n < Len(o), NEW m, m # o[n + 1], NEW b, NEW c, NEW len
  PROVE  Behind(o, n, b, m, len) = Behind(o, n, c, m, len) /\ Behind(o, n + 1, 0, m, len) = Behind(o, n, b, m, len)
<1>1. \A i \in 1 .. n + 1 : i \in 1 .. n \/ i = n + 1 OBVIOUS
<1>2. \A i \in 1 .. n : i \in 1 .. n + 1 OBVIOUS
<1>3. (\E i \in 1 .. n + 1 : o[i] = m) <=> (\E i \in 1 .. n : o[i] = m) BY <1>1, <1>2
<1> QED BY <1>3 DEF Behind

LEMMA DoneMore ==
  ASSUME written \in Seq(Record0), NEW r, written' = Append(written, r)
  PROVE  \A l : StoreOf!Done(l)' = IF r.list = l THEN StoreOf!Done(l) \cup Range(r.cells) ELSE StoreOf!Done(l)
<1>1. PICK w, x : w = written /\ x = Append(w, r) OBVIOUS
<1>2. /\ DOMAIN w = 1 .. Len(w) /\ DOMAIN x = 1 .. Len(w) + 1 /\ Len(w) \in Nat
      /\ (\A i \in 1 .. Len(w) : x[i] = w[i]) /\ x[Len(w) + 1] = r
  <2> HIDE DEF Record0
  <2> QED BY <1>1
<1>3. \A l : StoreOf!Done(l) = UNION {Range(y.cells) : y \in {w[k] : k \in {j \in DOMAIN w : w[j].list = l}}}
  BY <1>1 DEF StoreOf!Done, Range
<1>4. \A l : StoreOf!Done(l)' = UNION {Range(y.cells) : y \in {x[k] : k \in {j \in DOMAIN x : x[j].list = l}}}
  BY <1>1 DEF StoreOf!Done, Range
<1>5. ASSUME NEW l, NEW e
      PROVE  e \in UNION {Range(y.cells) : y \in {x[k] : k \in {j \in DOMAIN x : x[j].list = l}}}
             <=> \/ e \in UNION {Range(y.cells) : y \in {w[k] : k \in {j \in DOMAIN w : w[j].list = l}}}
                 \/ r.list = l /\ e \in Range(r.cells)
  <2>1. (\E k \in DOMAIN x : x[k].list = l /\ e \in Range(x[k].cells))
        <=> (\E k \in DOMAIN w : w[k].list = l /\ e \in Range(w[k].cells)) \/ (r.list = l /\ e \in Range(r.cells))
    <3>1. \A k \in DOMAIN x : k \in DOMAIN w \/ k = Len(w) + 1 BY <1>2
    <3>2. \A k \in DOMAIN w : k \in DOMAIN x BY <1>2
    <3>3. Len(w) + 1 \in DOMAIN x BY <1>2
    <3> QED BY <1>2, <3>1, <3>2, <3>3
  <2> QED BY <2>1
<1> QED BY <1>3, <1>4, <1>5

\* The size written before the relocations is theirs.
LEMMA AnnouncedIs ==
  ASSUME IInv, RelocsRight, NEW l \in Lists, lists[l] # << >>, NEW blocks \in Seq(Block), fmt # "qnx" => blocks = lists[l]
  PROVE  Announced(l, blocks) = IF fmt = "pe" THEN Total(blocks) + (Total(blocks) % 2) ELSE Total(blocks) + Adjust(fmt, l)
<1>1. l \in Targets BY DEF IInv, Placed
<1>2. Total(blocks) \in Nat BY TotalOne
<1>3. CASE fmt = "qnx" BY <1>3 DEF Announced
<1>4. CASE fmt = "pe" BY <1>4 DEF Announced
<1>5. CASE fmt \notin {"qnx", "pe"}
  <2>1. Adjust(fmt, l) = 0 BY <1>5 DEF Adjust
  <2>2. CASE l[1] # "sect" BY <1>2, <1>5, <2>1, <2>2 DEF Announced
  <2>3. CASE l[1] = "sect"
    <3>1. fmt \notin {"flat", "os2", "elf"}
      <4>1. fmt \in {"os2", "elf"} => l[1] = "group" BY <1>1, TargetIs
      <4>2. fmt = "flat" => l[1] = "page"
        <5> SUFFICES ASSUME fmt = "flat" PROVE l[1] = "page"
          OBVIOUS
        <5>1. PICK g \in Groups : l \in FirstHeads(g, GroupPages[g].size) BY <1>1, TargetIs DEF Paged
        <5>2. l \in PageHeads BY <5>1, Limits, HeadOf
        <5> QED BY <5>2 DEF PageHeads
      <4> QED BY <2>3, <4>1, <4>2
    <3>2. fmt \notin {"flat", "pe", "os2", "elf", "qnx"} BY <1>5, <3>1
    <3>3. PICK s \in 1 .. NumSects : l = <<"sect", s>> BY <1>1, <3>2, TargetIs
    <3>4. fmt \in Formats BY DEF IInv, Shape
    <3>5. \E n \in 1 .. PageSize : FmtSizes(fmt) = {n} BY <3>2, <3>4, RelocAssumption
    <3>6. PICK n : n = (CHOOSE m \in FmtSizes(fmt) : TRUE) OBVIOUS
    <3>7. n \in FmtSizes(fmt) BY <3>5, <3>6
    <3>8. relocs[s] * n = Total(lists[<<"sect", s>>]) BY <3>2, <3>7 DEF RelocsRight
    <3>9. Announced(l, blocks) = relocs[l[2]] * n BY <1>5, <2>3, <3>6 DEF Announced
    <3>10. l[2] = s BY <3>3
    <3> QED BY <1>2, <1>5, <2>1, <3>3, <3>8, <3>9, <3>10
  <2> QED BY <2>2, <2>3
<1> QED BY <1>3, <1>4, <1>5

\* The writer goes on to the next list.
LEMMA NextList ==
  ASSUME IInv, IInv', Kept, Running, phase = "load", UNCHANGED <<fmt, lists, table, relocs, ram, disk, op, count, written, phase, linkError>>,
         cursor.list < Len(DumpOrder), NEW l, l = DumpOrder[cursor.list + 1], Len(lists[l]) <= cursor.block,
         cursor' = [list |-> cursor.list + 1, block |-> 0]
  PROVE  Kept' /\ UNCHANGED StoreOf!vars
<1>1. WrittenOK /\ DiskApart /\ RelocsRight BY DEF Kept
<1>2. CursorOK /\ \A m \in Lists : StoreOf!Done(m) = FrontCells(Held[m], BlocksDone(m)) BY <1>1 DEF WrittenOK
<1>3. Held' = Held BY MemSame
<1>4. DiskApart' /\ RelocsRight' /\ Record0' = Record0 /\ Lists' = Lists BY <1>1, BlocksSame
<1>5. DumpOrder' = DumpOrder /\ DumpOrder \in Seq(Lists) /\ Once(DumpOrder) BY DumpOrderSame, DumpOrderIs
<1>6. PICK o, i : o = DumpOrder /\ i = cursor.list OBVIOUS
<1>7. i \in Nat /\ i < Len(o) /\ Len(o) \in Nat /\ o \in Seq(Lists) /\ Once(o) BY <1>2, <1>5, <1>6 DEF CursorOK
<1>8. l \in Lists /\ l = o[i + 1] BY <1>6, <1>7
<1>9. lists \in [Lists -> Seq(Block)] BY DEF IInv, Shape
<1>10. cursor.block \in Nat /\ cursor.block <= Len(lists[l]) BY <1>2 DEF CursorOK
<1>11. cursor.block = Len(lists[l])
  <2>1. Len(lists[l]) \in Nat BY <1>8, <1>9, Elements
  <2> QED BY <1>10, <2>1
<1>12. ASSUME NEW m \in Lists PROVE BlocksDone(m)' = BlocksDone(m)
  <2>1. BlocksDone(m)' = Behind(DumpOrder', cursor'.list, cursor'.block, m, Len(lists'[m])) BY DEF BlocksDone, Behind
  <2>2. BlocksDone(m)' = Behind(o, i + 1, 0, m, Len(lists[m])) BY <1>5, <1>6, <2>1
  <2>3. BlocksDone(m) = Behind(o, i, cursor.block, m, Len(lists[m])) BY <1>6, BehindIs
  <2>4. CASE m = l
    <3>1. Behind(o, i, cursor.block, o[i + 1], Len(lists[l])) = cursor.block
          /\ Behind(o, i + 1, 0, o[i + 1], Len(lists[l])) = Len(lists[l])
      BY <1>7, BehindHere
    <3> QED BY <1>8, <1>11, <2>2, <2>3, <2>4, <3>1
  <2>5. CASE m # l
    <3>1. Behind(o, i + 1, 0, m, Len(lists[m])) = Behind(o, i, cursor.block, m, Len(lists[m])) BY <1>7, <1>8, <2>5, BehindOther
    <3> QED BY <2>2, <2>3, <3>1
  <2> QED BY <2>4, <2>5
<1>13. CursorOK'
  <2>1. cursor' \in [list : 0 .. Len(DumpOrder), block : Nat] /\ cursor'.list = i + 1 /\ cursor'.block = 0
    <3>1. i + 1 \in 0 .. Len(o) BY <1>7
    <3> QED BY <1>6, <3>1
  <2>2. i + 1 < Len(o) => Len(lists[o[(i + 1) + 1]]) \in Nat
    <3>1. i + 1 < Len(o) => o[(i + 1) + 1] \in Lists BY <1>7
    <3> QED BY <1>9, <3>1, Elements
  <2> QED BY <1>5, <1>6, <2>1, <2>2 DEF CursorOK
<1>14. \A m \in Lists : StoreOf!Done(m)' = FrontCells(Held[m], BlocksDone(m))'
  <2>1. \A m \in Lists : StoreOf!Done(m)' = StoreOf!Done(m) BY DEF StoreOf!Done
  <2>2. \A m \in Lists : FrontCells(Held[m], BlocksDone(m))' = FrontCells(Held[m], BlocksDone(m)) BY <1>3, <1>12 DEF FrontCells
  <2> QED BY <1>2, <2>1, <2>2
<1>15. WrittenOK' BY <1>1, <1>4, <1>13, <1>14 DEF WrittenOK
<1>16. Kept' BY <1>3, <1>4, <1>15, KeptSame
<1>17. Running' BY DEF Running
<1>18. InLists' = InLists BY <1>3, <1>17, InSame
<1> QED BY <1>16, <1>18, MapSame

LEMMA TailOf ==
  ASSUME NEW S, NEW s \in Seq(S), NEW b \in Nat, b < Len(s)
  PROVE  /\ SubSeq(s, b + 1, Len(s)) \in Seq(S) /\ Len(SubSeq(s, b + 1, Len(s))) = Len(s) - b
         /\ SubSeq(s, b + 1, Len(s)) # << >> /\ (b = 0 => SubSeq(s, b + 1, Len(s)) = s)
         /\ \A j \in 1 .. Len(s) - b : SubSeq(s, b + 1, Len(s))[j] = s[b + j]
<1>1. PICK t : t = SubSeq(s, b + 1, Len(s)) OBVIOUS
<1>2. t \in Seq(S) /\ Len(t) = Len(s) - b /\ \A j \in 1 .. Len(s) - b : t[j] = s[(b + 1) + j - 1] BY <1>1
<1>3. \A j \in 1 .. Len(s) - b : (b + 1) + j - 1 = b + j OBVIOUS
<1>4. t # << >> BY <1>2
<1>5. b = 0 => t = s BY <1>1
<1> QED BY <1>1, <1>2, <1>3, <1>4, <1>5

LEMMA FirstOf ==
  ASSUME NEW S, NEW s \in Seq(S), NEW m \in 1 .. Len(s)
  PROVE  /\ SubSeq(s, 1, m) \in Seq(S) /\ Len(SubSeq(s, 1, m)) = m /\ (m = Len(s) => SubSeq(s, 1, m) = s)
         /\ \A j \in 1 .. m : SubSeq(s, 1, m)[j] = s[j]
OBVIOUS

\* The record of the blocks DumpMaxRelocList takes of the next list.
LEMMA RecordIs ==
  ASSUME IInv, Kept, Running, NEW l \in Lists, NEW b \in Nat, b < Len(lists[l]), Limit(fmt) = 0 => b = 0
  PROVE  \E blocks, s : \E m \in Nat \ {0} :
         /\ blocks = DumpMaxRelocList(SubSeq(lists[l], b + 1, Len(lists[l])), Limit(fmt) - Adjust(fmt, l))
         /\ s = FlattenSeq([j \in DOMAIN blocks |-> Content(blocks[j])])
         /\ m = Len(blocks) /\ b + m <= Len(lists[l]) /\ (Limit(fmt) = 0 => b = 0 /\ m = Len(lists[l]))
         /\ RecordOK(s, Held, l, b, m)
         /\ Announced(l, blocks) = IF fmt = "pe" THEN Len(s) + (Len(s) % 2) ELSE Len(s) + Adjust(fmt, l)
         /\ Limit(fmt) # 0 => Announced(l, blocks) < Limit(fmt)
<1>1. RelocsRight /\ Pieces(Held, count) /\ IdsApart(Held) BY DEF Kept
<1>2. PICK blocks, s : /\ blocks = DumpMaxRelocList(SubSeq(lists[l], b + 1, Len(lists[l])), Limit(fmt) - Adjust(fmt, l))
                       /\ s = FlattenSeq([j \in DOMAIN blocks |-> Content(blocks[j])])
  OBVIOUS
<1>3. PICK B : B = lists[l] OBVIOUS
<1>4. B \in Seq(Block) /\ Len(B) \in Nat /\ disk \in Seq(Area) /\ \A k \in DOMAIN B : BlockOK(B[k]) /\ B[k] \in Block
  BY <1>3, Elements DEF IInv, Shape
<1>5. PICK rest : rest = SubSeq(B, b + 1, Len(B)) OBVIOUS
<1>6. rest \in Seq(Block) /\ Len(rest) = Len(B) - b /\ rest # << >> /\ \A j \in 1 .. Len(rest) : rest[j] = B[b + j]
      /\ (b = 0 => rest = B)
  <2>1. b < Len(B) BY <1>3
  <2>2. /\ SubSeq(B, b + 1, Len(B)) \in Seq(Block) /\ Len(SubSeq(B, b + 1, Len(B))) = Len(B) - b
        /\ SubSeq(B, b + 1, Len(B)) # << >> /\ (b = 0 => SubSeq(B, b + 1, Len(B)) = B)
        /\ \A j \in 1 .. Len(B) - b : SubSeq(B, b + 1, Len(B))[j] = B[b + j]
    BY <1>4, <2>1, TailOf
  <2> QED BY <1>5, <2>2
<1>7. PICK max : max = Limit(fmt) - Adjust(fmt, l) OBVIOUS
<1>8. MaxRecord \in Nat /\ PageSize \in Nat /\ PageSize + 2 < MaxRecord BY RelocAssumption
<1>9. Adjust(fmt, l) \in {0, 2} /\ (fmt # "qnx" => Limit(fmt) = 0 /\ max = 0) /\ (fmt = "qnx" => Limit(fmt) = MaxRecord)
  <2>1. Adjust(fmt, l) \in {0, 2} /\ (fmt # "qnx" => Adjust(fmt, l) = 0) BY DEF Adjust
  <2> QED BY <1>7, <2>1 DEF Limit
<1>10. max \in Nat /\ (fmt = "qnx" => max # 0) BY <1>7, <1>8, <1>9
<1>11. PICK m \in 1 .. Len(rest) : /\ blocks = SubSeq(rest, 1, m)
                                   /\ max = 0 => m = Len(rest)
                                   /\ max # 0 /\ m # 1 => Total(blocks) < max
  <2>1. PICK m \in 1 .. Len(rest) : /\ DumpMaxRelocList(rest, max) = SubSeq(rest, 1, m)
                                    /\ max = 0 => m = Len(rest)
                                    /\ max # 0 /\ m # 1 => Total(SubSeq(rest, 1, m)) < max
    BY <1>6, <1>10, DumpIs
  <2>2. blocks = DumpMaxRelocList(rest, max) BY <1>2, <1>3, <1>5, <1>7
  <2> QED BY <2>1, <2>2
<1>12. m \in Nat \ {0} /\ b + m <= Len(B) BY <1>4, <1>6
<1>13. blocks \in Seq(Block) /\ Len(blocks) = m /\ (\A j \in 1 .. m : blocks[j] = B[b + j]) /\ DOMAIN blocks = 1 .. m
  <2>1. /\ SubSeq(rest, 1, m) \in Seq(Block) /\ Len(SubSeq(rest, 1, m)) = m
        /\ \A j \in 1 .. m : SubSeq(rest, 1, m)[j] = rest[j]
    BY <1>6, FirstOf
  <2>2. \A j \in 1 .. m : j \in 1 .. Len(rest) BY <1>6
  <2>3. \A j \in 1 .. m : rest[j] = B[b + j] BY <1>6, <2>2
  <2>4. blocks \in Seq(Block) /\ Len(blocks) = m /\ \A j \in 1 .. m : blocks[j] = rest[j] BY <1>11, <2>1
  <2>5. DOMAIN blocks = 1 .. m BY <2>4, Elements
  <2> QED BY <2>3, <2>4, <2>5
<1>14. Limit(fmt) = 0 => b = 0 /\ m = Len(B)
  <2> SUFFICES ASSUME Limit(fmt) = 0 PROVE b = 0 /\ m = Len(B)
    OBVIOUS
  <2>1. fmt # "qnx" BY <1>8, <1>9
  <2> QED BY <1>4, <1>6, <1>9, <1>11, <2>1
<1>15. PICK cs : cs = [j \in DOMAIN blocks |-> Content(blocks[j])] OBVIOUS
<1>16. PICK h : h = Held OBVIOUS
<1>17. DOMAIN h = Lists /\ DOMAIN h[l] = DOMAIN B /\ (\A k \in DOMAIN B : h[l][k] = Content(B[k])) /\ Pieces(h, count) /\ IdsApart(h)
  BY <1>1, <1>3, <1>16, HeldIs
<1>18. h[l] \in Seq(Seq(Cell)) /\ (\A k \in DOMAIN B : h[l][k] \in Seq(Cell)) /\ Len(h[l]) = Len(B)
  <2>1. h[l] \in Seq(Seq(Cell)) BY <1>17 DEF Pieces
  <2>2. DOMAIN B = 1 .. Len(B) BY <1>4, Elements
  <2>3. \A k \in DOMAIN h[l] : h[l][k] \in Seq(Cell) BY <2>1, Elements
  <2>4. DOMAIN h[l] = 1 .. Len(h[l]) /\ Len(h[l]) \in Nat BY <2>1, Elements
  <2> QED BY <1>4, <1>17, <2>1, <2>2, <2>3, <2>4
<1>19. ASSUME NEW j \in 1 .. m PROVE b + j \in DOMAIN B /\ cs[j] = h[l][b + j] /\ cs[j] \in Seq(Cell) /\ Len(cs[j]) = Used(blocks[j])
  <2>1. b + j \in 1 .. Len(B) /\ DOMAIN B = 1 .. Len(B) BY <1>4, <1>12, Elements
  <2>2. cs[j] = Content(B[b + j]) BY <1>13, <1>15
  <2>3. BlockOK(B[b + j]) /\ B[b + j] \in Block BY <1>4, <2>1
  <2>4. Len(Content(B[b + j])) = Used(B[b + j]) BY <1>4, <2>3, ContentOK
  <2> QED BY <1>13, <1>17, <1>18, <2>1, <2>2, <2>4
<1>20. cs \in Seq(Seq(Cell)) /\ Len(cs) = m /\ cs # << >>
  <2>1. cs = [j \in 1 .. m |-> cs[j]] BY <1>13, <1>15
  <2>2. \A j \in 1 .. m : cs[j] \in Seq(Cell) BY <1>19
  <2> HIDE DEF Cell
  <2>3. cs \in Seq(Seq(Cell)) /\ Len(cs) = m BY <1>12, <2>1, <2>2
  <2> QED BY <1>12, <2>3
<1>21. s = FlattenSeq(cs) BY <1>2, <1>15
<1>22. RecordOK(s, h, l, b, m)
  <2>1. \A j \in 1 .. m : cs[j] = h[l][b + j] BY <1>19
  <2>2. count \in Nat /\ l \in DOMAIN h /\ b + m <= Len(h[l]) BY <1>12, <1>17, <1>18 DEF IInv, Shape
  <2>3. Pieces(h, count) /\ IdsApart(h) /\ s \in {FlattenSeq(cs)} BY <1>17, <1>21
  <2>4. m \in Nat \ {0} /\ cs \in Seq(Seq(Cell)) /\ Len(cs) = m BY <1>12, <1>20
  <2> QED BY <2>1, <2>2, <2>3, <2>4, RecordCells
<1>23. Len(s) = Total(blocks)
  <2>1. \A j \in 1 .. Len(blocks) : Len(cs[j]) = Used(blocks[j]) BY <1>13, <1>19
  <2> QED BY <1>13, <1>20, <1>21, <2>1, FlattenLength
<1>24. Announced(l, blocks) = IF fmt = "pe" THEN Len(s) + (Len(s) % 2) ELSE Len(s) + Adjust(fmt, l)
  <2>1. fmt # "qnx" => blocks = B
    <3> SUFFICES ASSUME fmt # "qnx" PROVE blocks = B
      OBVIOUS
    <3>1. m = Len(rest) /\ rest = B BY <1>6, <1>9, <1>11, <1>14
    <3>2. SubSeq(rest, 1, m) = rest BY <1>6, <3>1, FirstOf
    <3> QED BY <1>11, <3>1, <3>2
  <2>2. lists[l] # << >> BY <1>3, <1>4
  <2> QED BY <1>1, <1>3, <1>13, <1>23, <2>1, <2>2, AnnouncedIs
<1>25. Limit(fmt) # 0 => Announced(l, blocks) < Limit(fmt)
  <2> SUFFICES ASSUME Limit(fmt) # 0 PROVE Announced(l, blocks) < Limit(fmt)
    OBVIOUS
  <2>1. fmt = "qnx" /\ Limit(fmt) = MaxRecord /\ max = MaxRecord - Adjust(fmt, l) BY <1>7, <1>9
  <2>2. Announced(l, blocks) = Total(blocks) + Adjust(fmt, l) BY <1>23, <1>24, <2>1
  <2>3. Total(blocks) \in Nat BY <1>13, TotalOne
  <2>4. CASE m = 1
    <3>1. Total(blocks) = Used(blocks[1]) /\ blocks[1] \in Block BY <1>13, <2>4, Elements, TotalOne
    <3>2. Used(blocks[1]) \in 0 .. PageSize BY <3>1, UsedIs
    <3> QED BY <1>8, <1>9, <2>1, <2>2, <3>1, <3>2
  <2>5. CASE m # 1
    <3>1. Total(blocks) < max BY <1>10, <1>11, <2>1, <2>5
    <3> QED BY <1>8, <1>9, <2>1, <2>2, <2>3, <3>1
  <2> QED BY <2>4, <2>5
<1> QED BY <1>2, <1>3, <1>12, <1>13, <1>14, <1>16, <1>22, <1>24, <1>25

LEMMA WriteRecordKept ==
  ASSUME IInv, IInv', Kept, Running', WriteRecord
  PROVE  Kept' /\ (StoreOf!Next \/ UNCHANGED StoreOf!vars)
<1>1. Running /\ phase = "load" /\ UNCHANGED <<fmt, lists, table, relocs, ram, disk, op, count, phase, linkError>>
  BY DEF WriteRecord, mem
<1>2. WrittenOK /\ DiskApart /\ RelocsRight BY <1>1 DEF Kept
<1>3. CursorOK /\ (\A m \in Lists : StoreOf!Done(m) = FrontCells(Held[m], BlocksDone(m))) /\ written \in Seq(Record0)
  BY <1>1, <1>2 DEF WrittenOK
<1>4. PICK o, i : o = DumpOrder /\ i = cursor.list OBVIOUS
<1>5. o \in Seq(Lists) /\ Once(o) /\ i \in Nat /\ i < Len(o) /\ Len(o) \in Nat
  BY <1>3, <1>4, DumpOrderIs DEF WriteRecord, CursorOK
<1>6. PICK l : l = o[i + 1] OBVIOUS
<1>7. l \in Lists BY <1>5, <1>6
<1>8. lists[l] \in Seq(Block) /\ Len(lists[l]) \in Nat BY <1>7 DEF IInv, Shape
<1>9. PICK b : b = cursor.block OBVIOUS
<1>10. b \in Nat /\ b <= Len(lists[l]) /\ (Limit(fmt) = 0 /\ b # 0 => b = Len(lists[l]))
       /\ cursor \in [list : 0 .. Len(o), block : Nat]
  BY <1>3, <1>4, <1>5, <1>6, <1>9 DEF CursorOK
<1>11. PICK rest : rest = SubSeq(lists[l], b + 1, Len(lists[l])) OBVIOUS
<1>12. CASE rest = << >>
  <2>1. ~(b < Len(lists[l])) BY <1>8, <1>10, <1>11, <1>12, TailOf
  <2>2. cursor' = [list |-> cursor.list + 1, block |-> 0] /\ UNCHANGED written
    BY <1>4, <1>6, <1>9, <1>11, <1>12 DEF WriteRecord
  <2>3. l = DumpOrder[cursor.list + 1] /\ cursor.list < Len(DumpOrder) /\ Len(lists[l]) <= cursor.block
    BY <1>4, <1>5, <1>6, <1>8, <1>9, <1>10, <2>1
  <2> QED BY <1>1, <2>2, <2>3, NextList
<1>13. CASE rest # << >>
  <2>1. b < Len(lists[l])
    <3> SUFFICES ASSUME ~(b < Len(lists[l])) PROVE FALSE
      OBVIOUS
    <3>1. b + 1 > Len(lists[l]) BY <1>8, <1>10
    <3>2. SubSeq(lists[l], b + 1, Len(lists[l])) = << >>
      <4> HIDE DEF Block
      <4> QED BY <1>8, <1>10, <3>1
    <3> QED BY <1>11, <1>13, <3>2
  <2>2. Limit(fmt) = 0 => b = 0 BY <1>10, <1>8, <2>1
  <2>3. PICK blocks, s : \E m \in Nat \ {0} :
         /\ blocks = DumpMaxRelocList(rest, Limit(fmt) - Adjust(fmt, l))
         /\ s = FlattenSeq([j \in DOMAIN blocks |-> Content(blocks[j])])
         /\ m = Len(blocks) /\ b + m <= Len(lists[l]) /\ (Limit(fmt) = 0 => b = 0 /\ m = Len(lists[l]))
         /\ RecordOK(s, Held, l, b, m)
         /\ Announced(l, blocks) = IF fmt = "pe" THEN Len(s) + (Len(s) % 2) ELSE Len(s) + Adjust(fmt, l)
         /\ Limit(fmt) # 0 => Announced(l, blocks) < Limit(fmt)
    BY <1>1, <1>7, <1>10, <1>11, <2>1, <2>2, RecordIs
  <2>4. PICK m \in Nat \ {0} :
         /\ blocks = DumpMaxRelocList(rest, Limit(fmt) - Adjust(fmt, l))
         /\ s = FlattenSeq([j \in DOMAIN blocks |-> Content(blocks[j])])
         /\ m = Len(blocks) /\ b + m <= Len(lists[l]) /\ (Limit(fmt) = 0 => b = 0 /\ m = Len(lists[l]))
         /\ RecordOK(s, Held, l, b, m)
         /\ Announced(l, blocks) = IF fmt = "pe" THEN Len(s) + (Len(s) % 2) ELSE Len(s) + Adjust(fmt, l)
         /\ Limit(fmt) # 0 => Announced(l, blocks) < Limit(fmt)
    BY <2>3
  <2>5. PICK r : r = [list |-> l, size |-> Announced(l, blocks), cells |-> s] OBVIOUS
  <2>6. r.list = l /\ r.size = Announced(l, blocks) /\ r.cells = s BY <2>5
  <2>7. cursor' = [cursor EXCEPT !.block = @ + m] /\ written' = Append(written, r)
    BY <1>4, <1>6, <1>9, <1>11, <1>13, <2>4, <2>5 DEF WriteRecord
  <2>8. s \in Seq(Cell) /\ Len(s) \in Nat BY <2>4 DEF RecordOK
  <2>9. r \in Record0
    <3>1. Adjust(fmt, l) \in Nat /\ Len(s) % 2 \in Nat BY <2>8 DEF Adjust
    <3>2. Announced(l, blocks) \in Nat BY <2>4, <2>8, <3>1
    <3> QED BY <1>7, <2>5, <2>8, <3>2 DEF Record0
  <2>10. Held' = Held BY <1>1, MemSame
  <2>11. DiskApart' /\ RelocsRight' /\ Record0' = Record0 /\ Lists' = Lists /\ DumpOrder' = DumpOrder
    BY <1>1, <1>2, BlocksSame, DumpOrderSame
  <2>12. cursor'.list = i /\ cursor'.block = b + m /\ cursor' \in [list : 0 .. Len(o), block : Nat]
    BY <1>4, <1>9, <1>10, <2>7
  <2>13. CursorOK'
    <3>1. Limit(fmt) = 0 => b + m = Len(lists[l]) BY <1>10, <2>4
    <3> QED BY <1>1, <1>4, <1>6, <2>4, <2>11, <2>12, <3>1 DEF CursorOK
  <2>14. BlocksDone(l) = b /\ BlocksDone(l)' = b + m
    <3>1. BlocksDone(l) = Behind(o, i, b, l, Len(lists[l])) BY <1>4, <1>9, BehindIs
    <3>2. BlocksDone(l)' = Behind(DumpOrder', cursor'.list, cursor'.block, l, Len(lists'[l])) BY DEF BlocksDone, Behind
    <3>3. BlocksDone(l)' = Behind(o, i, b + m, l, Len(lists[l])) BY <1>1, <1>4, <2>11, <2>12, <3>2
    <3>4. Behind(o, i, b, o[i + 1], Len(lists[l])) = b BY <1>5, BehindHere
    <3>5. Behind(o, i, b + m, o[i + 1], Len(lists[l])) = b + m BY <1>5, BehindHere
    <3> QED BY <1>6, <3>1, <3>3, <3>4, <3>5
  <2>15. ASSUME NEW k \in Lists, k # l PROVE BlocksDone(k)' = BlocksDone(k)
    <3>1. BlocksDone(k) = Behind(o, i, b, k, Len(lists[k])) BY <1>4, <1>9, BehindIs
    <3>2. BlocksDone(k)' = Behind(DumpOrder', cursor'.list, cursor'.block, k, Len(lists'[k])) BY DEF BlocksDone, Behind
    <3>3. BlocksDone(k)' = Behind(o, i, b + m, k, Len(lists[k])) BY <1>1, <1>4, <2>11, <2>12, <3>2
    <3>4. k # o[i + 1] BY <1>6, <2>15
    <3>5. Behind(o, i, b, k, Len(lists[k])) = Behind(o, i, b + m, k, Len(lists[k])) BY <1>5, <3>4, BehindOther
    <3> QED BY <3>1, <3>3, <3>5
  <2>16. FrontCells(Held[l], b + m) = FrontCells(Held[l], b) \cup Range(s)
         /\ Range(s) \subseteq AllCells(Held[l]) \ FrontCells(Held[l], b)
         /\ (\A c \in Range(s), d \in AllCells(Held[l]) : d[1] = c[1] => d \in Range(s)) /\ s # << >> /\ StoreOf!Whole(s)
    BY <2>4 DEF RecordOK
  <2>17. ASSUME NEW k \in Lists PROVE StoreOf!Done(k)' = FrontCells(Held[k], BlocksDone(k))'
    <3>1. StoreOf!Done(k)' = IF r.list = k THEN StoreOf!Done(k) \cup Range(r.cells) ELSE StoreOf!Done(k)
      BY <1>3, <2>7, DoneMore
    <3>2. FrontCells(Held[k], BlocksDone(k))' = FrontCells(Held'[k], BlocksDone(k)') BY DEF FrontCells
    <3>3. StoreOf!Done(k) = FrontCells(Held[k], BlocksDone(k)) BY <1>3
    <3>4. CASE k = l BY <2>6, <2>10, <2>14, <2>16, <3>1, <3>2, <3>3, <3>4
    <3>5. CASE k # l BY <2>6, <2>10, <2>15, <3>1, <3>2, <3>3, <3>5
    <3> QED BY <3>4, <3>5
  <2>18. written' \in Seq(Record0)
    <3> HIDE DEF Record0
    <3> QED BY <1>3, <2>7, <2>9
  <2>19. WrittenOK'
    <3>1. op' # NoOp => op'.size \in FmtSizes(fmt') /\ phase' = "pass2" BY <1>1, <1>2 DEF WrittenOK
    <3> QED BY <1>1, <2>11, <2>13, <2>17, <2>18, <3>1 DEF WrittenOK
  <2>20. Kept' BY <1>1, <2>10, <2>11, <2>19, KeptSame
  <2>21. InLists' = InLists BY <1>1, <2>10, InSame
  <2>22. PICK t : t = InLists OBVIOUS
  <2>23. DOMAIN t = Lists /\ t[l] = AllCells(Held[l]) BY <1>1, <1>7, <2>22, InIs DEF InOK
  <2>24. StoreOf!Done(l) = FrontCells(Held[l], b) BY <1>3, <1>7, <2>14
  <2>25. Limit(fmt) = 0 => Range(s) = AllCells(Held[l])
    <3>1. Held[l] \in Seq(Seq(Cell)) /\ Len(Held[l]) = Len(lists[l])
      <4>1. Pieces(Held, count) BY <1>1 DEF Kept
      <4>2. Held[l] \in Seq(Seq(Cell)) /\ DOMAIN Held[l] = DOMAIN lists[l] BY <1>7, <4>1, HeldIs DEF Pieces
      <4>3. DOMAIN Held[l] = 1 .. Len(Held[l]) /\ Len(Held[l]) \in Nat BY <4>2, Elements
      <4>4. DOMAIN lists[l] = 1 .. Len(lists[l]) BY <1>8, Elements
      <4>5. \A x, y \in Nat : 1 .. x = 1 .. y => x = y OBVIOUS
      <4>6. 1 .. Len(Held[l]) = 1 .. Len(lists[l]) BY <4>2, <4>3, <4>4
      <4> HIDE DEF Cell
      <4> QED BY <1>8, <4>2, <4>3, <4>5, <4>6
    <3>2. FrontCells(Held[l], 0) = {} /\ FrontCells(Held[l], Len(Held[l])) = AllCells(Held[l]) BY <3>1, FrontIs
    <3> SUFFICES ASSUME Limit(fmt) = 0 PROVE Range(s) = AllCells(Held[l])
      OBVIOUS
    <3>3. b = 0 /\ b + m = Len(lists[l]) BY <2>4
    <3> QED BY <2>16, <3>1, <3>2, <3>3
  <2>26. ~linkError' BY DEF Running
  <2>27. StoreOf!Next
    <3>1. /\ l \in DOMAIN t /\ Range(r.cells) \subseteq t[l] \ StoreOf!Done(l)
          /\ \A c \in Range(r.cells), d \in t[l] : d[1] = c[1] => d \in Range(r.cells)
          /\ StoreOf!Whole(r.cells) /\ r.cells # << >>
      BY <1>7, <2>6, <2>16, <2>23, <2>24
    <3>2. /\ r.size = IF fmt = "pe" THEN Len(r.cells) + (Len(r.cells) % 2) ELSE Len(r.cells) + Adjust(fmt, l)
          /\ Limit(fmt) = 0 => Range(r.cells) = t[l]
          /\ Limit(fmt) # 0 => r.size < Limit(fmt)
      BY <2>4, <2>6, <2>23, <2>25
    <3>3. t \in {InLists} BY <2>22
    <3> QED BY <1>1, <1>3, <2>6, <2>7, <2>9, <2>21, <2>26, <3>1, <3>2, <3>3, MapRecord
  <2> QED BY <2>20, <2>27
<1> QED BY <1>12, <1>13

-----------------------------------------------------------------------------
(* The end of a link, and the whole of it                                   *)

LEMMA FinishKept ==
  ASSUME IInv, IInv', Kept, Finish, Running
  PROVE  StoreOf!Next
<1>1. phase = "load" /\ phase' = "clean" /\ cursor.list = Len(DumpOrder) /\ UNCHANGED <<fmt, written, linkError>> /\ ~linkError'
  BY DEF Finish, Running
<1>2. PICK s, t : s = InLists /\ t = InLists' OBVIOUS
<1>3. Lists' = Lists BY <1>1, FmtSame
<1>4. DOMAIN s = Lists /\ \A l \in Lists : s[l] = AllCells(Held[l]) BY <1>2, InIs DEF InOK
<1>5. t = [l \in DOMAIN s |-> {}]
  <2>1. InOK' BY InNext
  <2>2. ~Running' BY <1>1 DEF Running
  <2>3. DOMAIN t = Lists /\ \A l \in Lists : t[l] = {}
    <3>1. (DOMAIN InLists)' = Lists /\ \A l \in Lists : (InLists[l])' = {} BY <1>3, <2>1, <2>2 DEF InOK
    <3> QED BY <1>2, <3>1
  <2>4. t = [l \in DOMAIN t |-> t[l]] BY <1>2 DEF InLists
  <2> QED BY <1>4, <2>3, <2>4
<1>6. CursorOK /\ \A l \in Lists : StoreOf!Done(l) = FrontCells(Held[l], BlocksDone(l)) BY <1>1 DEF Kept, WrittenOK
<1>7. DumpOrder \in Seq(Lists) /\ Len(DumpOrder) \in Nat /\ DOMAIN DumpOrder = 1 .. Len(DumpOrder) BY DumpOrderIs, Elements
<1>8. ASSUME NEW l \in Lists PROVE StoreOf!Done(l) = s[l]
  <2>1. Held[l] \in Seq(Seq(Cell)) /\ DOMAIN Held[l] = DOMAIN lists[l]
    <3>1. Pieces(Held, count) BY DEF Kept
    <3> QED BY <3>1, HeldIs DEF Pieces
  <2>2. lists[l] \in Seq(Block) BY DEF IInv, Shape
  <2>3. Len(Held[l]) = Len(lists[l])
    <3>1. DOMAIN Held[l] = 1 .. Len(Held[l]) /\ Len(Held[l]) \in Nat BY <2>1, Elements
    <3>2. DOMAIN lists[l] = 1 .. Len(lists[l]) /\ Len(lists[l]) \in Nat BY <2>2, Elements
    <3>3. \A x, y \in Nat : 1 .. x = 1 .. y => x = y OBVIOUS
    <3>4. 1 .. Len(Held[l]) = 1 .. Len(lists[l]) BY <2>1, <3>1, <3>2
    <3> HIDE DEF Cell, Block
    <3> QED BY <3>1, <3>2, <3>3, <3>4
  <2>4. FrontCells(Held[l], 0) = {} /\ FrontCells(Held[l], Len(Held[l])) = AllCells(Held[l]) BY <2>1, FrontIs
  <2>5. CASE l \in Range(DumpOrder)
    <3>1. \E i \in 1 .. cursor.list : DumpOrder[i] = l BY <1>1, <1>7, <2>5 DEF Range
    <3>2. BlocksDone(l) = Len(lists[l]) BY <3>1 DEF BlocksDone
    <3> QED BY <1>4, <1>6, <2>3, <2>4, <3>2
  <2>6. CASE l \notin Range(DumpOrder)
    <3>1. lists[l] = << >> BY <2>6, DumpOrderIs DEF IInv, Placed
    <3>2. ~\E i \in 1 .. cursor.list : DumpOrder[i] = l BY <1>1, <1>7, <2>6 DEF Range
    <3>3. ~(cursor.list < Len(DumpOrder)) BY <1>1, <1>7
    <3>4. BlocksDone(l) = 0 BY <3>2, <3>3 DEF BlocksDone
    <3>5. AllCells(Held[l]) = {}
      <4>1. DOMAIN Held[l] = {} BY <2>1, <3>1
      <4> QED BY <4>1 DEF AllCells
    <3> QED BY <1>4, <1>6, <2>4, <3>4, <3>5
  <2> QED BY <2>5, <2>6
<1> QED BY <1>1, <1>2, <1>4, <1>5, <1>8, MapFinish

LEMMA Fails == ASSUME linkError', fmt' = fmt PROVE StoreOf!Next
BY DEF StoreOf!Next

LEMMA StutterKept ==
  ASSUME IInv, IInv', Kept, UNCHANGED vars
  PROVE  Kept' /\ UNCHANGED StoreOf!vars
<1>1. UNCHANGED <<fmt, lists, table, relocs, ram, disk, op, count, cursor, written, phase, linkError>> BY DEF vars
<1>2. Held' = Held /\ (Running' <=> Running) BY <1>1, MemSame DEF Running
<1>3. InLists' = InLists BY <1>1, <1>2, InSame
<1>4. UNCHANGED StoreOf!vars BY <1>1, <1>3, MapSame
<1>5. CASE Running
  <2>1. WrittenOK /\ DiskApart /\ RelocsRight BY <1>5 DEF Kept
  <2>2. WrittenOK' BY <1>1, <1>2, <2>1, WrittenSame
  <2>3. DiskApart' /\ RelocsRight' BY <1>1, <2>1, BlocksSame
  <2> QED BY <1>1, <1>2, <1>4, <1>5, <2>2, <2>3, KeptSame
<1>6. CASE ~Running BY <1>2, <1>4, <1>6 DEF Kept
<1> QED BY <1>5, <1>6

LEMMA KeptInit == Init => Kept /\ StoreOf!Init
<1> SUFFICES ASSUME Init PROVE Kept /\ StoreOf!Init
  OBVIOUS
<1>1. lists = [l \in Lists |-> << >>] /\ DOMAIN lists = Lists /\ count = 0 /\ written = << >> /\ phase = "pass2" /\ op = NoOp
      /\ cursor = [list |-> 0, block |-> 0] /\ relocs = [s \in 1 .. NumSects |-> 0] /\ linkError = FALSE /\ fmt \in Formats
  BY DEF Init
<1>2. \A l \in Lists : lists[l] = << >> BY <1>1
<1>3. ASSUME NEW l \in Lists PROVE Held[l] = << >>
  <2>1. Held[l] = [k \in DOMAIN lists[l] |-> Content(lists[l][k])] BY DEF Held
  <2>2. DOMAIN lists[l] = {} BY <1>2
  <2>3. [k \in {} |-> Content(lists[l][k])] = << >> OBVIOUS
  <2> QED BY <2>1, <2>2, <2>3
<1>4. DOMAIN Held = Lists BY HeldIs
<1>5. Pieces(Held, count)
  <2> SUFFICES ASSUME NEW l \in DOMAIN Held PROVE Held[l] \in Seq(Seq(Cell)) /\ \A k \in DOMAIN Held[l] : PieceOK(Held[l][k], count)
    BY DEF Pieces
  <2>1. Held[l] = << >> BY <1>3, <1>4
  <2>2. PICK s : s = Held[l] OBVIOUS
  <2>3. s = << >> BY <2>1, <2>2
  <2>4. s \in Seq(Seq(Cell)) /\ DOMAIN s = {} 
    <3> HIDE DEF Cell
    <3> QED BY <2>3
  <2>5. \A k \in DOMAIN s : PieceOK(s[k], count) BY <2>4
  <2> QED BY <2>2, <2>4, <2>5
<1>6. IdsApart(Held) BY <1>3, <1>4 DEF IdsApart
<1>7. DiskApart BY <1>2 DEF DiskApart
<1>8. RelocsRight
  <2>1. relocs \in [1 .. NumSects -> Nat] /\ \A s \in 1 .. NumSects : relocs[s] = 0 BY <1>1
  <2>2. Total(<< >>) = 0
    <3>1. << >> \in Seq(Block) /\ Len(<< >>) = 0 OBVIOUS
    <3> QED BY <3>1, TotalOne
  <2>3. ASSUME NEW s \in 1 .. NumSects, NEW n \in FmtSizes(fmt) PROVE relocs[s] * n = Total(lists[<<"sect", s>>])
    <3>1. n \in Nat BY <1>1, SizesAre
    <3>2. 0 * n = 0 BY <3>1
    <3>3. <<"sect", s>> \in Lists BY ListsAre
    <3> QED BY <1>2, <2>1, <2>2, <3>2, <3>3
  <2> QED BY <2>1, <2>3 DEF RelocsRight
<1>9. WrittenOK
  <2>1. written \in Seq(Record0)
    <3> HIDE DEF Record0
    <3> QED BY <1>1
  <2> QED BY <1>1, <2>1 DEF WrittenOK
<1>10. StoreOf!Init
  <2>1. IInv BY InitOK
  <2>2. DOMAIN InLists = Lists /\ \A l \in Lists : InLists[l] = {}
    <3>1. InOK BY <2>1, InIs
    <3>2. \A l \in Lists : AllCells(Held[l]) = {} BY <1>3 DEF AllCells
    <3> QED BY <3>1, <3>2 DEF InOK
  <2> QED BY <1>1, <2>2 DEF StoreOf!Init, StoreOf!Lists, InLists
<1> QED BY <1>5, <1>6, <1>7, <1>8, <1>9, <1>10 DEF Kept

LEMMA KeptNext == IInv /\ IInv' /\ Kept /\ [Next]_vars => Kept' /\ [StoreOf!Next]_StoreOf!vars
<1> SUFFICES ASSUME IInv, IInv', Kept, [Next]_vars PROVE Kept' /\ (StoreOf!Next \/ UNCHANGED StoreOf!vars)
  OBVIOUS
<1>1. linkError \in BOOLEAN /\ linkError' \in BOOLEAN BY DEF IInv, Shape
<1>2. ASSUME linkError', fmt' = fmt PROVE Kept' /\ (StoreOf!Next \/ UNCHANGED StoreOf!vars)
  BY <1>2, Fails DEF Kept, Running
<1>3. ASSUME NEW l \in Targets, NEW n \in FmtSizes(fmt), WriteReloc(l, n)
      PROVE  Kept' /\ (StoreOf!Next \/ UNCHANGED StoreOf!vars)
  <2>1. fmt' = fmt /\ (Running' \/ linkError') BY <1>3 DEF WriteReloc, Store, SpillFails, Abandon, Running
  <2> QED BY <1>2, <1>3, <2>1, WriteRelocKept
<1>4. CASE OS2PagedRelocInit
  <2>1. Running' BY <1>4 DEF OS2PagedRelocInit, Allocating, Running
  <2> QED BY <1>4, <2>1, OS2PagedRelocInitKept
<1>5. CASE AllocRelocInfo
  <2>1. fmt' = fmt /\ (Running' \/ linkError') BY <1>5 DEF AllocRelocInfo, Allocating, Store, SpillFails, Abandon, Running
  <2> QED BY <1>2, <1>5, <2>1, AllocRelocInfoKept
<1>6. CASE SwapOutRelocs
  <2>1. fmt' = fmt /\ (Running' \/ linkError') BY <1>6 DEF SwapOutRelocs, SpillFails, Abandon, Running
  <2> QED BY <1>2, <1>6, <2>1, SwapOutKept
<1>7. CASE FatalError BY <1>2, <1>7 DEF FatalError, Abandon
<1>8. CASE StartLoad
  <2>1. Running' BY <1>8 DEF StartLoad, Running
  <2> QED BY <1>8, <2>1, StartLoadKept
<1>9. CASE WriteRecord
  <2>1. Running' BY <1>9 DEF WriteRecord, Running
  <2> QED BY <1>9, <2>1, WriteRecordKept
<1>10. CASE Finish
  <2>1. ~Running' /\ fmt' = fmt /\ (Running \/ linkError') BY <1>1, <1>10 DEF Finish, Running
  <2>2. Kept' BY <2>1 DEF Kept
  <2> QED BY <1>2, <1>10, <2>1, <2>2, FinishKept
<1>11. CASE FreeRelocInfo
  <2>1. phase = "clean" /\ phase' = "done" /\ UNCHANGED <<fmt, lists, ram, disk, written, linkError>>
    BY <1>11 DEF FreeRelocInfo, mem
  <2>2. ~Running /\ ~Running' BY <2>1 DEF Running
  <2>3. InLists' = InLists BY <2>1, <2>2, MemSame, InSame
  <2> QED BY <2>1, <2>2, <2>3, MapSame DEF Kept
<1>12. CASE UNCHANGED vars BY <1>12, StutterKept
<1> QED BY <1>3, <1>4, <1>5, <1>6, <1>7, <1>8, <1>9, <1>10, <1>11, <1>12 DEF Next

-----------------------------------------------------------------------------
(* Theorems                                                                 *)

LEMMA NextOK == IInv /\ [Next]_vars => IInv'
<1> SUFFICES ASSUME IInv, [Next]_vars PROVE IInv'
  OBVIOUS
<1>1. Pending = << >> \/ op # NoOp BY DEF Pending
<1>2. phase \in {"pass2", "load", "clean", "done"} /\ linkError \in BOOLEAN BY DEF IInv, Shape
<1>3. ASSUME NEW l \in Targets, NEW n \in FmtSizes(fmt), WriteReloc(l, n) PROVE IInv' BY <1>3, WriteRelocOK
<1>4. CASE OS2PagedRelocInit BY <1>4, OS2PagedRelocInitOK
<1>5. CASE AllocRelocInfo BY <1>5, AllocRelocInfoOK
<1>6. CASE SwapOutRelocs BY <1>6, SwapOutOK
<1>7. CASE FatalError BY <1>7, IdleStep DEF FatalError, Abandon
<1>8. CASE StartLoad
  <2>1. UNCHANGED <<fmt, lists, table, mem, count, op, linkError>> /\ phase' = "load" BY <1>8 DEF StartLoad
  <2> QED BY <1>2, <2>1, IdleStep
<1>9. CASE WriteRecord
  <2>1. UNCHANGED <<fmt, lists, table, mem, count, op, linkError, phase>> /\ phase = "load" BY <1>9 DEF WriteRecord
  <2> QED BY <1>2, <2>1, IdleStep
<1>10. CASE Finish
  <2>1. UNCHANGED <<fmt, lists, table, mem, count, op, linkError>> /\ phase' = "clean" BY <1>10 DEF Finish
  <2> QED BY <1>2, <2>1, IdleStep
<1>11. CASE FreeRelocInfo BY <1>11, FreeRelocInfoOK
<1>12. CASE UNCHANGED vars
  <2>1. UNCHANGED <<fmt, lists, table, ram, disk, op, count, phase, linkError, freed>> BY <1>12 DEF vars
  <2>2. Lists' = Lists /\ Targets' = Targets /\ Paged' = Paged /\ Groups' = Groups BY <2>1, FmtSame
  <2>3. Heap' = Heap /\ Pending' = Pending /\ Tables' = Tables /\ Blocks' = Blocks
    BY <2>1, <2>2 DEF Heap, Pending, Tables, Blocks
  <2>4. Shape'
    <3>1. \A g \in Groups : Parts(g)' = Parts(g) BY DEF Parts
    <3>2. (\A l \in Lists : \A k \in DOMAIN lists[l] : BlockOK(lists[l][k]))'
      <4>1. \A l \in Lists : \A k \in DOMAIN lists[l] : BlockOK(lists[l][k]) BY DEF IInv, Shape
      <4> QED BY <2>1, <2>2, <2>3, <4>1 DEF BlockOK
    <3> QED BY <2>1, <2>2, <2>3, <3>1, <3>2 DEF IInv, Shape
  <2>5. Placed' BY <2>1, <2>2 DEF IInv, Placed, NeedsTable
  <2>6. Owned' BY <2>1, <2>2, <2>3 DEF IInv, Owned
  <2>7. FreedOnce' BY <2>1, <2>3 DEF IInv, FreedOnce
  <2> QED BY <2>4, <2>5, <2>6, <2>7 DEF IInv
<1> QED BY <1>3, <1>4, <1>5, <1>6, <1>7, <1>8, <1>9, <1>10, <1>11, <1>12 DEF Next

\* Every block lies where its list says, on the heap or in the spill file, and
\* every index table is complete.
THEOREM RelocTypes == Spec => []TypeOK
<1>1. IInv => TypeOK
  <2> SUFFICES ASSUME IInv PROVE TypeOK
    OBVIOUS
  <2>1. DOMAIN lists = Lists BY DEF IInv, Shape
  <2>2. ASSUME NEW l \in Lists, NEW b \in Range(lists[l])
        PROVE  b \in Block /\ b.loc \in (IF b.spilled THEN DOMAIN disk ELSE Heap)
    <3>1. PICK k \in DOMAIN lists[l] : b = lists[l][k] BY DEF Range
    <3>2. b \in Block /\ BlockOK(b) BY <3>1, Elements DEF IInv, Shape
    <3> QED BY <3>2 DEF BlockOK
  <2>3. \A g \in Groups : Len(table[g]) \in {0, Len(Parts(g))} /\ Range(table[g]) \subseteq Heap
    BY DEF IInv, Shape, Owned, Tables
  <2>4. op = NoOp \/ op.list \in Targets BY DEF IInv, Shape
  <2> QED BY <2>1, <2>2, <2>3, <2>4 DEF TypeOK, IInv, Shape
<1> QED BY <1>1, InitOK, NextOK, PTL DEF Spec

\* Memory pressure reaches every block in memory, for all formats but ELF: a
\* block goes to the spill file only when none is left in memory.
THEOREM RelocPressure == Spec => []PressureReachesAll
<1>1. IInv => PressureReachesAll
  <2> SUFFICES ASSUME IInv, fmt # "elf", NEW l \in DOMAIN lists, HasBlock(l) PROVE l \in Range(SwapOrder)
    BY DEF PressureReachesAll
  <2>1. l \in Lists BY DEF IInv, Shape
  <2>2. lists[l] # << >> BY DEF HasBlock, Range
  <2>3. l \in Targets /\ (Paged => table[l[2]] # << >>) BY <2>1, <2>2 DEF IInv, Placed
  <2> QED BY <2>3, SwapReaches
<1> QED BY <1>1, InitOK, NextOK, PTL DEF Spec

\* However the link ended, FreeRelocInfo frees every block on the heap, and none
\* twice; only the parts of an index table that was not complete are lost.
THEOREM RelocFreed == Spec => []FreedOnce
<1>1. IInv => FreedOnce BY DEF IInv
<1> QED BY <1>1, InitOK, NextOK, PTL DEF Spec

\* Wherever the blocks of a list are when the load file is written, and whenever
\* they went to the spill file: each relocation is written once and whole, with
\* the others of its list, in records that announce their size; until the link
\* is abandoned (c/reloc.c with the writers of c/loadpe.c and c/loadqnx.c).
THEOREM RelocKept == Spec => ImplementsRelocs
<1>1. Init => IInv /\ Kept /\ StoreOf!Init BY InitOK, KeptInit
<1>2. IInv /\ Kept /\ [Next]_vars => IInv' /\ Kept' /\ [StoreOf!Next]_StoreOf!vars BY NextOK, KeptNext
<1> QED BY <1>1, <1>2, PTL DEF Spec, ImplementsRelocs, StoreOf!Spec
=============================================================================
