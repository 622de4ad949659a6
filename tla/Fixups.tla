-------------------------------- MODULE Fixups --------------------------------
(****************************************************************************)
(* What becomes of a reference (c/obj2supp.c, c/objpass2.c).  Pass 1 stores *)
(* a fixup for it and puts the addend where it is to be applied; pass 2     *)
(* goes through what was stored, puts addresses in, or leaves a relocation  *)
(* for the loader of the system, and turns far calls within a segment into  *)
(* near ones (OPTION FARCALLS).  Formats: DOS, 16-bit OS/2 or Windows (ne), *)
(* 32-bit OS/2 (lx, le) and Windows (pe), for the x86.                      *)
(*                                                                          *)
(* Memory is a sequence of cells: a byte of an instruction or half of a     *)
(* word.  An offset and a segment are words, of 16 bits in the first two    *)
(* formats and of 32 in the others.  Left out: floating point, absolute and *)
(* debugger symbols, movable segments, 16-bit segments in a 32-bit format,  *)
(* halves of offsets, distances left to the loader (RELOCS for OS/2).       *)
(* Virtual memory is what it promises to be (VirtStore).                    *)
(****************************************************************************)
EXTENDS Integers, SequencesExt

CONSTANTS Formats, Segs, Code,  \* the segments, 1 to some number; those with instructions
          Layouts(_),           \* the addresses a format may give them
          Items(_, _),          \* what modules hold, by format and segment: instructions and pointers
          MaxItems, MaxCells,   \* bounds, the second for a segment
          Para, Word,           \* a paragraph; words hold numbers below Word
          PageSize, Base,       \* a page of a 32-bit OS/2 format; where a PE image wants to be
          FarCalls(_),          \* whether far calls are optimised, given a layout
          Loads(_)              \* from the format and intRelocs, where the system may load a program

VARIABLES fmt,       \* FmtData.type
          intRelocs, \* OPTION INTERNALRELOCS
          data,      \* the content of each segment, in virtual memory
          saved,     \* what StoreFixup saved: fixups, and changes of the segment
          lastSeg,   \* LastSegData, 0 for NULL
          layout, dead,
          far,       \* OPTION FARCALLS
          at,        \* pass 2: how much of saved it has gone through
          lastOpt,   \* LastOptimized
          relocs,    \* what WriteReloc was given
          errors,    \* the references with an error message
          wanted,    \* ghost: what the object files say
          phase

pass1 == <<fmt, intRelocs, saved, wanted>>
vars == <<pass1, data, lastSeg, layout, dead, far, at, lastOpt, relocs, errors, phase>>

Junk == -1
Byte(op) == [op |-> op, v |-> 0, half |-> 0]
Half(v, n) == [op |-> "", v |-> v, half |-> n]
Put(d, i, v) == [d EXCEPT ![i] = Half(v, 1), ![i + 1] = Half(v, 2)]
Get(d, i) == IF d[i].half = 1 /\ d[i + 1].half = 2 THEN d[i].v ELSE Junk
Plus(v, n) == IF v = Junk THEN Junk ELSE (v + n) % Word

Real == fmt = "dos"
Flat == fmt \in {"lx", "le"}  \* MK_OS2_FLAT
Import == [seg |-> 0, ext |-> TRUE]

\* What kinds of fixups have: an offset, a segment, or a distance (FIX_REL).
HasOffset(kind) == kind \in {"near", "offset", "far"}
HasBase(kind) == kind \in {"base", "far"}
Cells(kind) == CASE kind = "none" -> 0 [] kind = "far" -> 4 [] OTHER -> 2

Init ==
  /\ fmt \in Formats /\ intRelocs \in IF fmt = "lx" THEN BOOLEAN ELSE {TRUE}
  /\ data = [s \in Segs |-> << >>] /\ saved = << >> /\ lastSeg = 0 /\ wanted = << >>
  /\ layout = << >> /\ dead = {} /\ far = FALSE /\ at = 0 /\ lastOpt = Junk
  /\ relocs = << >> /\ errors = {} /\ phase = "pass 1"

-----------------------------------------------------------------------------
(* Pass 1 *)

ChangeSeg(s) == IF lastSeg # s THEN <<[change |-> s]>> ELSE << >>

\* An instruction or a pointer at the end of segment s, with its fixup (StoreFixup).
Item(s, item) ==
  /\ phase = "pass 1" /\ Len(wanted) < MaxItems
  /\ (item.op = "" <=> s \notin Code)
  /\ LET text == data[s] \o (IF item.op = "" THEN << >> ELSE <<Byte(item.op)>>)
         place == Len(text) + 1
         fix == [place |-> place, kind |-> item.kind, to |-> item.to, frame |-> item.frame]
         full == text \o [k \in 1 .. Cells(item.kind) |-> Half(0, 2 - (k % 2))] IN
     /\ Len(full) <= MaxCells
     /\ wanted' = Append(wanted, [seg |-> s, place |-> place, item |-> item])
     /\ IF item.kind = "none"
        THEN data' = [data EXCEPT ![s] = full] /\ UNCHANGED <<saved, lastSeg>>
        ELSE /\ saved' = saved \o ChangeSeg(s) \o <<fix>> /\ lastSeg' = s
             /\ data' = [data EXCEPT ![s] = Put(full, place, item.addend)]
  /\ UNCHANGED <<fmt, intRelocs, layout, dead, far, at, lastOpt, relocs, errors, phase>>

\* Between the passes: addresses, and which segments are dead (see ObjStrip).
Unused == {d \in SUBSET {s \in Segs : data[s] # << >>} :
              \A k \in DOMAIN wanted : wanted[k].seg \notin d /\ wanted[k].item.kind # "none" => wanted[k].item.to.seg \notin d}
CalcAddresses ==
  /\ phase = "pass 1" /\ phase' = "pass 2"
  /\ layout' \in Layouts(fmt) /\ dead' \in Unused
  /\ far' \in IF Flat \/ fmt = "pe" THEN {FALSE} ELSE FarCalls(layout')
  /\ UNCHANGED <<pass1, data, lastSeg, at, lastOpt, relocs, errors>>

Group(s) == layout.groups[layout.group[s]]
\* SUB_ADDR of the segment and its group, and its own address.
Delta(s) == layout.delta[s]
Linear(s) == IF Real THEN Group(s).seg * Para + Group(s).off + Delta(s) ELSE Group(s).linear + Delta(s)
GroupAddr(s) == [seg |-> Group(s).seg, off |-> Group(s).off + Delta(s)]
SegAddr(s) == IF layout.own THEN [seg |-> Linear(s) \div Para, off |-> Linear(s) % Para] ELSE GroupAddr(s)

-----------------------------------------------------------------------------
(* Pass 2: the address that is put in *)

\* GetFrameAddr of the target: that of a segment, or of a symbol (see DefPubSym).
Target(to) == IF to = Import THEN [seg |-> 0, off |-> 0] ELSE IF to.ext THEN GroupAddr(to.seg) ELSE SegAddr(to.seg)

\* LoadObj, and where in the segment the fixup is.
CurrAddr(s) == GroupAddr(s)
Place(f) == [CurrAddr(lastSeg) EXCEPT !.off = @ + f.place - 1]

FrameOf(s, f) ==
  CASE f.frame = "seg" -> SegAddr(f.to.seg).seg
    [] f.frame = "group" -> Group(f.to.seg).seg
    [] f.frame = "place" -> CurrAddr(s).seg
    [] f.frame = "target" -> Target(f.to).seg

\* Mutant: the offset stays relative to the segment of the target.
ConvertToFrameNot(t, frame) == [t EXCEPT !.seg = frame]
ConvertToFrame(t, frame) == [seg |-> frame, off |-> t.off + IF Real THEN (t.seg - frame) * Para ELSE 0]

FrameErrors(f, t) ==
  IF \/ Real /\ HasOffset(f.kind) /\ t.off \notin 0 .. Word - 1
     \/ ~Real /\ ~Flat /\ fmt # "pe" /\ HasBase(f.kind) /\ Target(f.to).seg # FrameOf(lastSeg, f)
  THEN {<<lastSeg, f.place>>} ELSE {}

\* The fix_data of BuildReloc: where, to what, with what already there.
FixData(f) ==
  LET t == IF f.to = Import THEN Target(f.to) ELSE ConvertToFrame(Target(f.to), FrameOf(lastSeg, f)) IN
  [f |-> f, loc |-> Place(f), tgt |-> t, done |-> FALSE, d |-> data[lastSeg],
   value |-> IF HasOffset(f.kind) THEN Get(data[lastSeg], f.place) ELSE 0,
   errors |-> FrameErrors(f, t), relocs |-> << >>, lastOpt |-> lastOpt]

\* FindGroup.
GroupAt(seg) == CHOOSE g \in Range(layout.groups) : g.seg = seg
PatchOffset(x, n) == [x EXCEPT !.d = Put(@, x.f.place, Plus(Get(@, x.f.place), n))]

\* CheckSpecials leaves distances within an address space to nobody else.  The
\* check of their range compares the whole of fix.type and so never happens.
Distance(x) == x.tgt.off - x.loc.off - 2
               + CASE Real -> (x.tgt.seg - x.loc.seg) * Para
                   [] fmt = "pe" -> GroupAt(x.tgt.seg).linear - GroupAt(x.loc.seg).linear
                   [] OTHER -> 0
ForLoader(x) == x.f.kind # "near" \/ (Flat /\ (x.f.to = Import \/ x.loc.seg # x.tgt.seg))
BadDistance(x) == fmt = "ne" /\ (x.f.to = Import \/ x.loc.seg # x.tgt.seg)
CheckSpecials(x) ==
  IF BadDistance(x) THEN [x EXCEPT !.errors = @ \cup {<<lastSeg, x.f.place>>}] ELSE PatchOffset(x, Distance(x))

\* FindRealAddr.
RealAddr(x) ==
  CASE fmt \in {"dos", "ne", "le"} -> x.tgt.off
    [] fmt = "lx" -> x.tgt.off + GroupAt(x.tgt.seg).linear - GroupAt(x.tgt.seg).off
    [] fmt = "pe" -> x.tgt.off + GroupAt(x.tgt.seg).linear - GroupAt(x.tgt.seg).off + Base

\* PatchData.
PatchBase(x, i, n) == [x EXCEPT !.d = Put(@, i, n)]
PatchData(x) ==
  IF x.f.kind = "near" \/ x.f.to = Import THEN x ELSE
  CASE x.f.kind = "offset" -> [PatchOffset(x, RealAddr(x)) EXCEPT !.done = fmt \in {"dos", "ne"} \/ (fmt = "lx" /\ ~intRelocs)]
    [] x.f.kind = "base" -> IF Real THEN PatchBase(x, x.f.place, Plus(Get(x.d, x.f.place), x.tgt.seg))
                            ELSE PatchBase(x, x.f.place, 0)
    [] x.f.kind = "far" -> IF ~Real /\ fmt # "pe" THEN x
                           ELSE PatchBase(PatchOffset(x, RealAddr(x)), x.f.place + 2,
                                          IF Real THEN Plus(Get(x.d, x.f.place + 2), x.tgt.seg) ELSE 0)

(* OPTION FARCALLS: PUSH CS and a near call, the call on an even address and *)
(* NOP or overrides in the byte that is left.                               *)
NearJump(x, c, v) ==
  [x EXCEPT !.d = [Put(@, c + 1, Plus(v, -(x.loc.off + 2))) EXCEPT ![c] = Byte("jmp"), ![c + 3] = Byte("mov"), ![c + 4] = Byte("ax,ax")]]
OddCall(x, c, v) ==
  [x EXCEPT !.lastOpt = x.loc.off,
            !.d = [Put(@, c + 2, Plus(v, -(x.loc.off + 3))) EXCEPT ![c] = Byte("push cs"), ![c + 1] = Byte("call"), ![c + 4] = Byte("nop")]]
\* Relocate reads and writes the byte before the instruction, if there is one.
Override(x, c) == IF x.loc.off >= 5 /\ x.lastOpt = x.loc.off - 5 /\ c > 1 THEN {c - 1} ELSE {}
EvenCall(x, c, v) ==
  LET d == Put(x.d, c + 3, Plus(v, -(x.loc.off + 4))) IN
  [x EXCEPT !.d = [i \in DOMAIN d |-> CASE i \in Override(x, c) -> Byte("ss:")
                                        [] i = c -> Byte("push cs") [] i = c + 1 -> Byte("cs:")
                                        [] i = c + 2 -> Byte("call") [] OTHER -> d[i]]]

CanShorten(x) ==
  /\ far /\ lastSeg \in Code /\ x.f.kind = "far" /\ x.f.to # Import /\ x.loc.seg = x.tgt.seg
  /\ x.d[x.f.place - 1].op \in {"call far", "jmp far"}
FarCallOpt(x) ==
  LET c == x.f.place - 1
      v == Plus(Get(x.d, c + 1), IF fmt = "ne" THEN x.tgt.off ELSE 0)
      y == [x EXCEPT !.done = TRUE] IN
  IF ~CanShorten(x) THEN x
  ELSE IF x.d[c].op = "jmp far" THEN NearJump(y, c, v)
  ELSE IF x.loc.off % 2 = 1 THEN OddCall(y, c, v) ELSE EvenCall(y, c, v)

-----------------------------------------------------------------------------
(* Pass 2: relocations *)

Written(x, r) == [x EXCEPT !.relocs = Append(@, [grp |-> layout.group[lastSeg]] @@ r)]
\* MakeBase.
BasePlace(x) == x.loc.off + IF x.f.kind = "far" THEN 2 ELSE 0

\* A program for 16-bit OS/2 or Windows: the loader puts the value in at the
\* end of a chain of places, or adds it.
NeReloc(x) ==
  LET r == [off |-> x.loc.off - Group(lastSeg).off, kind |-> x.f.kind, add |-> x.value # 0,
            to |-> IF x.f.to = Import THEN Import ELSE x.tgt]
      y == Written(x, r) IN
  IF x.value # 0 THEN y ELSE [y EXCEPT !.d = Put(@, x.f.place, Word - 1)]

\* A 32-bit program for OS/2 has the value in the relocation, which is written
\* once for every page it reaches (DumpReloc).
ToTarget(x) == [seg |-> x.tgt.seg, off |-> x.tgt.off + x.value - GroupAt(x.tgt.seg).off]
FlatReloc(x) ==
  LET off == x.loc.off - Group(lastSeg).off
      r == [page |-> off \div PageSize, soff |-> off % PageSize, kind |-> x.f.kind,
            to |-> IF x.f.to = Import THEN Import ELSE ToTarget(x), value |-> IF x.f.to = Import THEN x.value ELSE 0]
      y == IF x.f.to = Import /\ x.value # 0 THEN [x EXCEPT !.d = Put(@, x.f.place, 0)] ELSE x IN
  IF PageSize - r.soff < Cells(x.f.kind)
  THEN Written(Written(y, r), [r EXCEPT !.page = @ + 1, !.soff = @ - PageSize])
  ELSE Written(y, r)

FmtReloc(x) ==
  CASE x.done -> x
    [] ~x.done /\ fmt = "pe" /\ HasBase(x.f.kind) -> [x EXCEPT !.errors = @ \cup {<<lastSeg, x.f.place>>}]
    [] ~x.done /\ fmt = "pe" /\ ~HasBase(x.f.kind) -> Written(x, [off |-> x.loc.off])
    [] ~x.done /\ fmt = "dos" -> Written(x, [seg |-> Group(lastSeg).seg, off |-> BasePlace(x)])
    [] ~x.done /\ fmt = "ne" -> NeReloc(x)
    [] ~x.done /\ Flat -> FlatReloc(x)

\* Relocate.
Relocated(f) ==
  LET x == FixData(f) IN
  IF ForLoader(x) THEN FmtReloc(FarCallOpt(PatchData(x))) ELSE CheckSpecials(x)

\* IncExecRelocs: one record of those saved.
ExecReloc ==
  /\ phase = "pass 2" /\ at < Len(saved) /\ at' = at + 1
  /\ LET r == saved[at + 1] IN
     IF "change" \in DOMAIN r
     THEN /\ lastSeg' = (IF r.change \in dead THEN 0 ELSE r.change)
          /\ UNCHANGED <<data, lastOpt, relocs, errors>>
     ELSE /\ lastSeg' = lastSeg
          /\ IF lastSeg = 0 THEN UNCHANGED <<data, lastOpt, relocs, errors>>
             ELSE LET x == Relocated(r) IN
                  /\ data' = [data EXCEPT ![lastSeg] = x.d] /\ lastOpt' = x.lastOpt
                  /\ relocs' = relocs \o x.relocs /\ errors' = errors \cup x.errors
  /\ UNCHANGED <<pass1, layout, dead, far, phase>>

\* The sections are written, see LoadFile.
EndPass2 ==
  /\ phase = "pass 2" /\ at = Len(saved) /\ phase' = "done"
  /\ UNCHANGED <<pass1, data, lastSeg, layout, dead, far, at, lastOpt, relocs, errors>>

Next == \/ \E s \in Segs : \E item \in Items(fmt, s) : Item(s, item)
        \/ CalcAddresses \/ ExecReloc \/ EndPass2
Spec == Init /\ [][Next]_vars

-----------------------------------------------------------------------------
(* External: the system loads the program b paragraphs, or bytes, away from *)
(* where it was linked for.                                                  *)

Selector(seg, b) == (seg + b) % Word
ImportAt(b) == 3 + b

\* The cells at offset off of group g, and of what follows it in a real mode program.
CellAt(off, g) ==
  {c \in Segs \X (1 .. MaxCells) :
      c[2] \in DOMAIN data[c[1]] /\ (IF Real THEN Linear(c[1]) ELSE Delta(c[1])) + c[2] - 1 = off
      /\ (Real \/ layout.group[c[1]] = g)}
Store(m, cells, v, half) ==
  [s \in Segs |-> [i \in DOMAIN m[s] |-> IF <<s, i>> \in cells THEN Half(v, half) ELSE m[s][i]]]
StoreWord(m, off, g, v) == Store(Store(m, CellAt(off, g), v, 1), CellAt(off + 1, g), v, 2)
WordAt(m, off, g) ==
  LET lo == CHOOSE c \in CellAt(off, g) : TRUE
      hi == CHOOSE c \in CellAt(off + 1, g) : TRUE IN
  IF m[lo[1]][lo[2]].half = 1 /\ m[hi[1]][hi[2]].half = 2 THEN m[lo[1]][lo[2]].v ELSE Junk

LoadDos(m, r, b) ==
  LET off == r.seg * Para + r.off IN StoreWord(m, off, r.grp, Plus(WordAt(m, off, r.grp), b))

LoadPE(m, r, b) == StoreWord(m, r.off, r.grp, Plus(WordAt(m, r.off, r.grp), b))

LoadNE(m, r, b) ==
  LET off == IF r.to = Import THEN ImportAt(b) ELSE r.to.off
      sel == Selector(IF r.to = Import THEN 0 ELSE r.to.seg, b)
      first == IF r.kind = "base" THEN sel ELSE off
      old == WordAt(m, r.off, r.grp)
      put == IF ~r.add THEN (IF old = Word - 1 THEN first ELSE Junk) ELSE Plus(old, first)
      m1 == StoreWord(m, r.off, r.grp, put % Word) IN
  IF r.kind = "far" THEN StoreWord(m1, r.off + 2, r.grp, sel) ELSE m1

\* A record changes the page it is for and no other.
LoadLX(m, r, b) ==
  LET from == r.page * PageSize + r.soff
      sel == Selector(IF r.to = Import THEN 0 ELSE r.to.seg, b)
      to == IF r.to = Import THEN ImportAt(b) ELSE r.to.off + GroupAt(r.to.seg).linear + b
      field == CASE r.kind = "base" -> <<sel>>
                 [] r.kind = "offset" -> <<to + r.value>>
                 [] r.kind = "near" -> <<to + r.value - (layout.groups[r.grp].linear + b + from + 2)>>
                 [] r.kind = "far" -> <<to + r.value, sel>>
      Cell(s, i) == CHOOSE n \in 0 .. 3 : <<s, i>> \in CellAt(from + n, r.grp) IN
  [s \in Segs |-> [i \in DOMAIN m[s] |->
     IF /\ layout.group[s] = r.grp /\ Delta(s) + i - 1 - from \in 0 .. Cells(r.kind) - 1
        /\ (Delta(s) + i - 1) \div PageSize = r.page
     THEN Half(field[Cell(s, i) \div 2 + 1] % Word, 1 + (Cell(s, i) % 2)) ELSE m[s][i]]]

Loaded(b) ==
  FoldLeft(LAMBDA m, r : CASE fmt = "dos" -> LoadDos(m, r, b) [] fmt = "pe" -> LoadPE(m, r, b)
                           [] fmt = "ne" -> LoadNE(m, r, b) [] Flat -> LoadLX(m, r, b), data, relocs)

-----------------------------------------------------------------------------
(* Properties *)

\* The type invariant; a message is about a reference there is.
TypeOK ==
  /\ fmt \in Formats /\ intRelocs \in BOOLEAN /\ far \in BOOLEAN /\ phase \in {"pass 1", "pass 2", "done"}
  /\ lastSeg \in Segs \cup {0} /\ dead \subseteq Segs /\ at \in 0 .. Len(saved) /\ lastOpt \in Int
  /\ \A k \in DOMAIN wanted : wanted[k].seg \in Segs
  /\ \A s \in Segs : Len(data[s]) <= MaxCells /\ \A i \in DOMAIN data[s] : data[s][i].v \in Int
  /\ errors \subseteq {<<wanted[k].seg, wanted[k].place>> : k \in DOMAIN wanted}

\* The address something has in memory, as one number, and where offsets to it start.
Shift(b) == CASE Real -> b * Para [] fmt = "ne" -> 0 [] fmt = "pe" -> Base + b [] Flat -> b
Address(to, b) == IF to = Import THEN ImportAt(b) ELSE Linear(to.seg) + Shift(b)
Start(w, b) ==
  CASE Real -> (FrameOf(w.seg, w.item) + b) * Para
    [] fmt = "ne" -> (IF w.item.to = Import THEN 0 ELSE Group(w.item.to.seg).linear)
    [] OTHER -> 0
Offset(w, b) == (Address(w.item.to, b) + w.item.addend - Start(w, b)) % Word
Segment(w, b) == CASE Real -> (FrameOf(w.seg, w.item) + b) % Word
                   [] ~Real -> Selector(IF w.item.to = Import THEN 0 ELSE Group(w.item.to.seg).seg, b)
\* The distance from the end of the cell next, of the segment of w.
DistanceFrom(w, b, next) ==
  (Address(w.item.to, b) + w.item.addend - (Linear(w.seg) + Shift(b) + next)) % Word

\* Whether the instruction or pointer w says what it should in memory m.
Shortened(w, m, b) ==
  LET c == w.place - 1
      op(n) == m[w.seg][c + n].op
      near(n) == Get(m[w.seg], c + n) = DistanceFrom(w, b, c + n + 1)
      \* a prefix of the call that follows may take the place of the NOP
      followed == \E k \in DOMAIN wanted : /\ wanted[k].seg = w.seg /\ wanted[k].place = c + 6
                                          /\ wanted[k].item.op = "call far" /\ m[w.seg][c + 5].op = "push cs" IN
  IF w.item.op = "jmp far" THEN op(0) = "jmp" /\ near(1) /\ op(3) = "mov" /\ op(4) = "ax,ax"
  ELSE /\ w.item.op = "call far" /\ op(0) = "push cs"
       /\ \/ op(1) = "call" /\ near(2) /\ (op(4) = "nop" \/ (op(4) = "ss:" /\ followed))
          \/ op(1) = "cs:" /\ op(2) = "call" /\ near(3)
Kept(w, m, b) ==
  LET word(n) == Get(m[w.seg], w.place + n) IN
  /\ w.item.op # "" => m[w.seg][w.place - 1].op = w.item.op
  /\ w.item.kind = "near" => word(0) = DistanceFrom(w, b, w.place + 1)
  /\ w.item.kind \in {"offset", "far"} => word(0) = Offset(w, b)
  /\ w.item.kind = "base" => word(0) = Segment(w, b)
  /\ w.item.kind = "far" => word(2) = Segment(w, b)

\* Wherever the program is loaded, every instruction and pointer of a segment
\* that stays says what the object file says, with the addresses things have
\* in memory, unless an error was reported at it: fixups of pass 2, the
\* relocations of the formats, and the shortening of far calls agree.
ReferencesRight ==
  phase = "done" =>
    \A b \in Loads(<<fmt, intRelocs>>) : LET m == Loaded(b) IN
      \A k \in DOMAIN wanted : LET w == wanted[k] IN
        w.seg \in dead \/ <<w.seg, w.place>> \in errors \/ Kept(w, m, b) \/ Shortened(w, m, b)
=============================================================================
