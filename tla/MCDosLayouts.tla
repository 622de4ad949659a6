----------------------------- MODULE MCDosLayouts -----------------------------
(* Layouts of DOS executables and .COM files for TLC. *)
EXTENDS Naturals, Sequences

DosFiles == {"exe", "ovl"}
Sect(f, a, n, size, relocs) == [file |-> f, addr |-> a, num |-> n, size |-> size, relocs |-> relocs]
Group(s, a, segs) == [sect |-> s, addr |-> a, segs |-> segs]
OneSeg(n) == IF n = 0 THEN << >> ELSE <<<<0, n>>>>

\* Root, and two sections at the same address: the first with two groups, the
\* groups of both interleaved, each in the file of Root or in one of its own.
Overlaid(empty) ==
    {[kind |-> "exe", first |-> "g1", start |-> 0,
      sects |-> [root |-> Sect("exe", 0, 0, 4, rr),
                 o1 |-> Sect(f1, 4, 1, 2 + k, r1), o2 |-> Sect(f2, 4, 2, a + m, r2)],
      groups |-> [g1 |-> Group("root", 0, <<<<0, 1>>, <<2, 1>>>>),
                  g2 |-> Group("o1", 4, OneSeg(n)), g3 |-> Group("o1", 6, OneSeg(k)),
                  g4 |-> Group("o2", 4 + a, OneSeg(m))]] :
        f1 \in DosFiles, f2 \in DosFiles, rr \in 0 .. 1, r1 \in 0 .. 2, r2 \in 0 .. 1,
        n \in 1 .. 2, k \in empty, m \in 1 .. 2, a \in 0 .. 1}

\* The second group of o1 holds data, or nothing (only uninitialised segments)
\* and its section has a file of its own.
OwnFile(l) == l.sects.o1.file # l.sects.o2.file
WithBSS == {l \in Overlaid(0 .. 1) : OwnFile(l) \/ l.groups.g3.segs # << >>}
SharedBSS == {l \in Overlaid({0}) : ~OwnFile(l)}

\* A .COM file of two groups, the first of which may begin before the start.
ComFile(start, m, n, rest) ==
    [kind |-> "com", first |-> "g1", start |-> start,
     sects |-> [root |-> Sect("exe", 0, 0, m + n + 1, 0)],
     groups |-> [g \in {"g1", "g2"} \cup DOMAIN rest |->
                   IF g = "g1" THEN Group("root", 0, <<<<0, m>>>>)
                   ELSE IF g = "g2" THEN Group("root", m, <<<<0, n>>>>) ELSE rest[g]]]

TwoGroupCom == {ComFile(start, m, n, << >>) : start \in 0 .. 2, m \in 3 .. 4, n \in 1 .. 2}
DosLayouts == WithBSS \cup TwoGroupCom
===============================================================================
