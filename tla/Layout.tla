-------------------------------- MODULE Layout --------------------------------
(***************************************************************************)
(* From segments to addresses: AutoGroup (c/autogrp.c) packs neighbouring  *)
(* segments into groups as long as it thinks the group stays below a       *)
(* limit; AllocClasses (c/objcalc.c, c/salloc.c) then gives each segment   *)
(* an address, and CalcAddresses finds out where each group is and how     *)
(* large.  The packing adds up sizes and alignments before there are       *)
(* addresses; the messages about segments and groups over 64K come after.  *)
(*                                                                         *)
(* A segment is what AddSegment and CalcSegSizes made of its pieces, a     *)
(* number in the order of the class lists; classes with debugging          *)
(* information, which are placed apart, have none.  Formats are real (DOS, *)
(* root section only), flat (Phar Lap), split (Novell), os2 (NE) and pe.   *)
(* Classes have a fixed address (the base of their first segment) in real  *)
(* mode only, ORDER CLNAME ... COPY is not used, alignments do not exceed a *)
(* paragraph in real mode, and a PE file has no stack in DGROUP.           *)
(***************************************************************************)
EXTENDS Integers, Sequences, FiniteSets, FiniteSetsExt, SequencesExt

CONSTANTS Formats,
          Para,           \* 1 << SegShift
          Max16,          \* 0x10000
          Max32,          \* 2^32
          ObjAlign,       \* FmtData.objalign
          Limits,         \* of OPTION PACKCODE and PACKDATA, 0 if there are none
          Segments(_)     \* the links of a format: sequences of segments

VARIABLES fmt, segs, packLimit,
          group,          \* the group of each segment, 0 for none
          groups,         \* Groups, or what SortGroupList made of it
          dataGroups,     \* groups with SEG_DATA
          pack,           \* AutoGroupSect: [at, start, num, size, limit, lastseg]
          addr,           \* seg_addr of the segments placed so far
          loc,            \* CurrLoc, or CodeLoc and DataLoc
          total,          \* totalsize of the groups
          grp,            \* the groups in the end: [seg, start, total, size, linear]
          errors, phase

input == <<fmt, segs, packLimit>>
vars == <<input, group, groups, dataGroups, pack, addr, loc, total, grp, errors, phase>>

UserGroup == 1            \* the group a GRPDEF made; automatic ones come after it
All == 1 .. Len(segs)
Placed == {i \in All : ~segs[i].abs}
Auto(g) == g > UserGroup
AlignUp(n, a) == ((n + a - 1) \div a) * a

Init ==
    /\ fmt \in Formats /\ segs \in Segments(fmt) /\ packLimit \in Limits
    /\ group = [i \in All |-> IF segs[i].user THEN UserGroup ELSE 0]
    /\ groups = (IF \E i \in All : segs[i].user THEN <<UserGroup>> ELSE << >>)
    /\ dataGroups = {}
    \* lastseg is read before it is set
    /\ \E lastseg \in BOOLEAN :
          pack = [at |-> 0, start |-> 0, num |-> 0, size |-> 0, limit |-> 0, lastseg |-> lastseg]
    /\ addr = << >> /\ total = << >> /\ grp = << >> /\ errors = {} /\ phase = "pack"
    \* StartMemMap
    /\ loc = [code |-> [seg |-> IF fmt = "real" THEN 0 ELSE 1, off |-> 0], data |-> [seg |-> 2, off |-> 0]]
-------------------------------------------------------------------------------
(* AutoGroup.                                                              *)

\* SetSegType.  OPTION PACKCODE and PACKDATA give one limit here.
SetSegType(i) == IF packLimit # 0 THEN packLimit
                 ELSE IF segs[i].use32 THEN Max32 - 1 ELSE Max16 - 1

CanPack(i, j) ==
    /\ IF segs[i].code THEN ~segs[j].private ELSE segs[i].align = segs[j].align
    /\ segs[i].use32 = segs[j].use32 /\ segs[i].code = segs[j].code /\ group[i] = group[j]

\* The segments PackSegs counts: the next num that are in no group, or in its own.
Counted(i, g, num) ==
    LET fit == {j \in i .. Len(segs) : group[j] \in {0, g}}
    IN  {j \in fit : Cardinality({k \in fit : k <= j}) <= num}

\* Mutant: PackSegs takes the next segments, whatever group they are in.
PackSegsAny(i, num) == i .. i + num - 1
PackSegs(i, num) == Counted(i, group[i], num)

\* PackSegs puts them into the group of the first, or a new one.
Packed(i, num) ==
    LET new == Max({UserGroup} \cup Range(group)) + 1
        g == IF group[i] # 0 THEN group[i] ELSE new
        in == PackSegs(i, num) IN
    /\ group' = [j \in All |-> IF j \in in /\ group[j] = 0 THEN g ELSE group[j]]
    /\ groups' = IF group[i] = 0 /\ ~segs[i].abs THEN Append(groups, g) ELSE groups
    /\ dataGroups' = dataGroups \cup {g : j \in {k \in in : ~segs[k].code}}

\* Segments that get a group of their own.
Alone(i) == segs[i].abs \/ segs[i].noClass

\* The size of a new group: in real mode it begins somewhere in a paragraph.
CutSize(aligned, i) == (IF fmt = "real" THEN aligned % Para ELSE 0) + segs[i].size

\* One round of the loop of AutoGroupSect.
PackSegment ==
    /\ phase = "pack" /\ pack.at < Len(segs)
    /\ LET i == pack.at + 1
           p == IF pack.start = 0 THEN [pack EXCEPT !.start = i, !.limit = SetSegType(i)] ELSE pack
           aligned == AlignUp(pack.size, segs[i].align) % Max32
           newSize == (aligned + segs[i].size) % Max32
           cut == newSize >= p.limit \/ newSize < p.size \/ p.lastseg \/ ~CanPack(p.start, i) IN
       IF Alone(i)
       THEN Packed(i, 1) /\ pack' = [pack EXCEPT !.at = i]
       ELSE /\ pack' = IF cut
                       THEN [p EXCEPT !.at = i, !.start = i, !.num = 1, !.size = CutSize(aligned, i),
                                      !.limit = SetSegType(i), !.lastseg = segs[i].last]
                       ELSE [p EXCEPT !.at = i, !.num = @ + 1, !.size = newSize, !.lastseg = @ \/ segs[i].last]
            /\ IF cut /\ p.num # 0 THEN Packed(p.start, p.num) ELSE UNCHANGED <<group, groups, dataGroups>>
    /\ UNCHANGED <<input, addr, loc, total, grp, errors, phase>>

\* The last group, before SortGroupList.
PackLast ==
    /\ phase = "pack" /\ pack.at = Len(segs)
    /\ IF pack.num # 0 THEN Packed(pack.start, pack.num) ELSE UNCHANGED <<group, groups, dataGroups>>
    /\ phase' = "sort"
    /\ UNCHANGED <<input, pack, addr, loc, total, grp, errors>>

Leaders(g) == {i \in Placed : group[i] = g}
First(g) == Min(Leaders(g))

\* SortGroupList: the groups in the order of their first segments.  A group all
\* of whose segments are absolute drops out.
SortGroupList ==
    /\ phase = "sort"
    /\ LET some == {g \in Range(groups) : Leaders(g) # {}} IN
       \E s \in [1 .. Cardinality(some) -> some] :
           /\ Range(s) = some /\ \A j, k \in DOMAIN s : j < k => First(s[j]) < First(s[k])
           /\ groups' = s
    /\ phase' = "alloc" /\ total' = [g \in Range(group) |-> 0]
    /\ UNCHANGED <<input, group, dataGroups, pack, addr, loc, grp, errors>>
-------------------------------------------------------------------------------
(* AllocClasses.                                                           *)

Linear(a) == a.seg * Para + a.off
\* NormalizeAddr.
Normal(a) == [seg |-> a.seg + a.off \div Para, off |-> a.off % Para]
Grown(a, n) == [a EXCEPT !.off = @ + n]
Aligned(a, i) == [a EXCEPT !.off = AlignUp(@, segs[i].align)]

\* BumpUp complains about an offset over 64K in a 16-bit segment.
SegErrors(i, a) == IF ~segs[i].use32 /\ a.off > Max16 THEN {<<"segment too big", i>>} ELSE {}

\* ChkLocated for a class at a fixed address.
Located(a, i) == IF segs[i].base # 0 /\ Linear(a) <= segs[i].base
                 THEN [seg |-> segs[i].base \div Para, off |-> segs[i].base % Para] ELSE a
FixedErrors(a, i) == IF segs[i].base # 0 /\ Linear(a) > segs[i].base THEN {<<"fixed", i>>} ELSE {}

\* NewSegment normalises the address, except inside an automatic group.
FreshFrame(i) == ~(Auto(group[i]) /\ First(group[i]) # i)

\* NewSegment in real mode, from address a.
RealSegment(i, a) ==
    LET al == Aligned(IF FreshFrame(i) THEN Normal(a) ELSE a, i)
        at == IF FreshFrame(i) THEN Normal(al) ELSE al IN
    [at |-> at, next |-> Grown(at, segs[i].size), low |-> al]

\* NewSegment for a format with one or two address spaces.
FlatSegment(i, a) == LET at == Aligned(a, i) IN [at |-> at, next |-> Grown(at, segs[i].size), low |-> at]

Space(i) == IF fmt = "split" /\ group[i] \in dataGroups THEN "data" ELSE "code"

\* NewSegment for a format in which each group is a segment of the file.
GroupSegment(i) ==
    LET at == Aligned([seg |-> group[i], off |-> total[group[i]]], i) IN
    [at |-> at, next |-> Grown(at, segs[i].size), low |-> at]

\* AllocSeg: the next segment, behind a fixed address if its class has one.
AllocSeg ==
    /\ phase = "alloc" /\ \E i \in Placed : i \notin DOMAIN addr
    /\ LET i == Min(Placed \ DOMAIN addr)
           g == group[i]
           from == Located(loc[Space(i)], i)
           s == CASE fmt = "real" -> RealSegment(i, from)
                  [] fmt \in {"flat", "split"} -> FlatSegment(i, from)
                  [] OTHER -> GroupSegment(i) IN
       /\ addr' = [j \in DOMAIN addr \cup {i} |-> IF j = i THEN s.at ELSE addr[j]]
       /\ loc' = [loc EXCEPT ![Space(i)] = s.next]
       /\ total' = IF fmt \in {"os2", "pe"} /\ (segs[i].size # 0 \/ ~Auto(g))
                   THEN [total EXCEPT ![g] = s.next.off] ELSE total
       /\ errors' = errors \cup SegErrors(i, s.low) \cup SegErrors(i, s.next)
                           \cup FixedErrors(loc[Space(i)], i)
    /\ UNCHANGED <<input, group, groups, dataGroups, pack, grp, phase>>
-------------------------------------------------------------------------------
(* The groups.                                                             *)

\* CalcGrpAddr, by FindEndAddr: from the lowest segment to the highest end.
Lowest(g) == CHOOSE i \in Leaders(g) : \A j \in Leaders(g) : Linear(addr[i]) <= Linear(addr[j])
EndAddr(g) == Max({Linear(addr[i]) + segs[i].size : i \in Leaders(g)})
CalcGrpAddr(g) ==
    LET start == addr[Lowest(g)] IN
    [seg |-> start.seg, off |-> start.off, total |-> EndAddr(g) - Linear(start), linear |-> Linear(start)]
GroupErrors ==
    {<<"group too big", g>> : g \in {h \in Range(groups) :
        fmt = "real" /\ ~segs[First(h)].use32 /\ CalcGrpAddr(h).total > Max16}}

\* Mutant: empty groups are numbered like the others.
RenumberedAll(k) == k
\* ReallocFileSegs: an empty group has the number of the one behind it.
Renumbered(k) == 1 + Cardinality({j \in 1 .. k - 1 : total[groups[j]] # 0})

\* The loop over the groups of a PE file.
FlatEnds ==
    FoldLeft(LAMBDA ends, g : Append(ends, AlignUp(Last(ends) + total[g], ObjAlign)), <<ObjAlign>>, groups)

Group(k) ==
    CASE fmt \in {"real", "flat", "split"} -> CalcGrpAddr(groups[k])
      [] OTHER -> [seg |-> Renumbered(k), off |-> 0, total |-> total[groups[k]],
                   linear |-> IF fmt = "pe" THEN FlatEnds[k] ELSE 0]

\* GetLeaderDelta.
Delta(i, a, gr) == Linear(a[i]) - (gr.seg * Para + gr.off)

\* CalcInitSize and SetGroupInitSize: the end of the last initialised piece seen.
InitSize(g, a, gr) ==
    LET some == {i \in Leaders(g) : segs[i].init # 0} IN
    IF some = {} THEN 0 ELSE Delta(Max(some), a, gr) + segs[Max(some)].init

\* The rest of CalcAddresses.
CalcAddresses ==
    /\ phase = "alloc" /\ Placed = DOMAIN addr
    /\ LET gs == [k \in DOMAIN groups |-> Group(k)]
           \* SetLeaderSeg
           a == [i \in DOMAIN addr |->
                    IF fmt \in {"os2", "pe"}
                    THEN [addr[i] EXCEPT !.seg = gs[CHOOSE k \in DOMAIN groups : groups[k] = group[i]].seg]
                    ELSE addr[i]] IN
       /\ addr' = a
       /\ grp' = [k \in DOMAIN groups |->
                     [seg |-> gs[k].seg, off |-> gs[k].off, total |-> gs[k].total, linear |-> gs[k].linear,
                      size |-> InitSize(groups[k], a, gs[k])]]
    /\ errors' = errors \cup GroupErrors
    /\ phase' = "done"
    /\ UNCHANGED <<input, group, groups, dataGroups, pack, loc, total>>

Next == PackSegment \/ PackLast \/ SortGroupList \/ AllocSeg \/ CalcAddresses
Spec == Init /\ [][Next]_vars
-------------------------------------------------------------------------------
(* Properties.                                                             *)

TypeOK ==
    /\ phase \in {"pack", "sort", "alloc", "done"} /\ pack.at \in 0 .. Len(segs)
    /\ group \in [All -> Nat] /\ DOMAIN addr \subseteq Placed
    /\ Range(groups) \subseteq Range(group) /\ dataGroups \subseteq Range(group)

Done == phase = "done"
Of(i) == grp[CHOOSE k \in DOMAIN groups : groups[k] = group[i]]
Offset(i) == Delta(i, addr, Of(i))

\* In an NE file the groups that are not empty are numbered from 1 without gaps,
\* in a PE file they follow each other in memory.
GroupsFollow ==
    \A j, k \in DOMAIN groups :
        /\ fmt \in {"os2", "pe"} /\ grp[k].total # 0 =>
              grp[k].seg = Cardinality({h \in 1 .. k : grp[h].total # 0})
        /\ fmt = "pe" /\ j < k => grp[j].linear + grp[j].total <= grp[k].linear

\* Every segment gets a place of its own: none shares a byte with another of its
\* address space, each is aligned, the group it is in reaches over all of it (over
\* an empty one only in part), the initialised part of the group over all that is
\* initialised in it, and the groups follow each other in the file.
EverythingPlaced ==
    Done =>
        /\ \A i, j \in {k \in Placed : segs[k].size # 0} :
              i < j /\ (IF fmt \in {"os2", "pe"} THEN group[i] = group[j] ELSE Space(i) = Space(j)) =>
                  Linear(addr[i]) + segs[i].size <= Linear(addr[j])
        /\ \A i \in Placed :
              /\ (IF fmt = "real" THEN Linear(addr[i]) ELSE addr[i].off) % segs[i].align = 0
              /\ Offset(i) >= 0
              /\ segs[i].size # 0 => Offset(i) + segs[i].size <= Of(i).total
              /\ segs[i].init # 0 => Offset(i) + segs[i].init <= Of(i).size
        /\ \A k \in DOMAIN groups : grp[k].size <= grp[k].total
        /\ GroupsFollow

\* Packing never makes a group too large: whatever the sizes and alignments, an
\* automatic group of several segments stays below its limit in the end, and the
\* only segments and groups the linker complains about are those of a group the
\* objects made and segments that are too large alone.
PackedFit ==
    Done /\ fmt \in {"real", "os2"} /\ (\A i \in All : ~segs[i].noClass /\ segs[i].base = 0) =>
        /\ \A k \in DOMAIN groups :
              Auto(groups[k]) /\ Cardinality(Leaders(groups[k])) > 1 =>
                  grp[k].total < SetSegType(First(groups[k]))
        /\ \A e \in errors :
              LET in == IF e[1] = "group too big" THEN Leaders(e[2]) ELSE {e[2]} IN
              \/ \E i \in in : ~Auto(group[i])
              \/ \E i \in in : segs[i].size + Para > Max16
===============================================================================
