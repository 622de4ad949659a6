---------------------------- MODULE LoadFileProofs ----------------------------
(***************************************************************************)
(* Proofs about the output files.  A file whose writes succeeded is Whole: *)
(* while it has a buffer, the handle stands at the end of what reached the *)
(* file, and the buffer holds the rest, up to the position.  On a Whole    *)
(* file every operation does to Image and Position what SeekFile promises; *)
(* after a failed write nothing is promised but that no file is kept.      *)
(***************************************************************************)
EXTENDS LoadFile, TLAPS
-------------------------------------------------------------------------------
(* Arithmetic of blocks.                                                   *)

\* A number is its blocks and what is left.
LEMMA DivMod ==
    ASSUME NEW a \in Nat, NEW n \in Nat \ {0}
    PROVE  /\ a \div n \in Nat /\ a % n \in 0 .. n - 1
           /\ (a \div n) * n \in Nat /\ (a \div n) * n + (a % n) = a
<1>1. a = n * (a \div n) + (a % n) /\ a % n \in 0 .. n - 1 /\ a \div n \in Int
  OBVIOUS
<1>2. a \div n \in Nat
  OBVIOUS
<1>3. n * (a \div n) = (a \div n) * n /\ (a \div n) * n \in Nat
  BY <1>1, <1>2
<1> QED BY <1>1, <1>2, <1>3

\* There is one way to divide.
LEMMA OneQuotient ==
    ASSUME NEW n \in Nat \ {0}, NEW p \in Nat, NEW q \in Nat,
           NEW r \in 0 .. n - 1, NEW t \in 0 .. n - 1, p * n + r = q * n + t
    PROVE  p = q /\ r = t
<1>1. ~(p < q)
  <2> SUFFICES ASSUME p < q PROVE FALSE
    OBVIOUS
  <2>1. (q - p - 1) \in Nat
    OBVIOUS
  <2>2. (q - p - 1) * n \in Nat
    BY <2>1
  <2>3. (q - p - 1) * n = q * n - p * n - n
    OBVIOUS
  <2>4. q * n \in Nat /\ p * n \in Nat
    OBVIOUS
  <2> QED BY <2>2, <2>3, <2>4
<1>2. ~(q < p)
  <2> SUFFICES ASSUME q < p PROVE FALSE
    OBVIOUS
  <2>1. (p - q - 1) \in Nat
    OBVIOUS
  <2>2. (p - q - 1) * n \in Nat
    BY <2>1
  <2>3. (p - q - 1) * n = p * n - q * n - n
    OBVIOUS
  <2>4. q * n \in Nat /\ p * n \in Nat
    OBVIOUS
  <2> QED BY <2>2, <2>3, <2>4
<1>3. p = q
  BY <1>1, <1>2
<1>4. p * n \in Nat
  OBVIOUS
<1> QED BY <1>3, <1>4

\* Whole blocks added in front leave the rest of a division alone.
LEMMA ModBlocks ==
    ASSUME NEW n \in Nat \ {0}, NEW p \in Nat, NEW a \in Nat
    PROVE  (p * n + a) % n = a % n
<1> DEFINE b == p * n + a
<1>1. p * n \in Nat /\ b \in Nat
  OBVIOUS
<1>2. /\ a \div n \in Nat /\ a % n \in 0 .. n - 1
      /\ (a \div n) * n \in Nat /\ (a \div n) * n + (a % n) = a
  BY DivMod
<1>3. /\ b \div n \in Nat /\ b % n \in 0 .. n - 1
      /\ (b \div n) * n \in Nat /\ (b \div n) * n + (b % n) = b
  BY <1>1, DivMod
<1>4. (p + a \div n) * n = p * n + (a \div n) * n
  BY <1>2
<1>5. p + a \div n \in Nat
  BY <1>2
<1>6. (b \div n) * n + (b % n) = (p + a \div n) * n + (a % n)
  BY <1>1, <1>2, <1>3, <1>4
<1> HIDE DEF b
<1>7. b % n = a % n
  <2> DEFINE q1 == b \div n
             q2 == p + a \div n
             r1 == b % n
             r2 == a % n
  <2>1. q1 \in Nat /\ q2 \in Nat /\ r1 \in 0 .. n - 1 /\ r2 \in 0 .. n - 1 /\ q1 * n + r1 = q2 * n + r2
    BY <1>2, <1>3, <1>5, <1>6
  <2> HIDE DEF q1, q2, r1, r2
  <2>2. r1 = r2
    BY <2>1, OneQuotient
  <2> QED BY <2>2 DEF r1, r2
<1> QED BY <1>7 DEF b

LEMMA SameSum ==
    ASSUME NEW p \in Nat, NEW k \in Nat, NEW r \in Nat, NEW m \in Nat, NEW l \in Nat, k + r = m + l
    PROVE  (p + k) + r = (p + m) + l
  OBVIOUS
-------------------------------------------------------------------------------
(* Sequences of cells.                                                     *)

LEMMA ConcatType ==
    ASSUME NEW S, NEW s \in Seq(S), NEW t \in Seq(S)
    PROVE  s \o t \in Seq(S) /\ Len(s \o t) = Len(s) + Len(t)
  OBVIOUS

LEMMA SameCells ==
    ASSUME NEW S, NEW s \in Seq(S), NEW t \in Seq(S), Len(s) = Len(t),
           \A i \in 1 .. Len(s) : s[i] = t[i]
    PROVE  s = t
  OBVIOUS

\* A sequence is what comes before a place in it, and what comes after.
LEMMA SplitAt ==
    ASSUME NEW S, NEW s \in Seq(S), NEW n \in 0 .. Len(s)
    PROVE  /\ SubSeq(s, 1, n) \in Seq(S) /\ Len(SubSeq(s, 1, n)) = n
           /\ SubSeq(s, n + 1, Len(s)) \in Seq(S) /\ Len(SubSeq(s, n + 1, Len(s))) = Len(s) - n
           /\ SubSeq(s, 1, n) \o SubSeq(s, n + 1, Len(s)) = s
<1> DEFINE a == SubSeq(s, 1, n)
           b == SubSeq(s, n + 1, Len(s))
<1>1. a \in Seq(S) /\ Len(a) = n /\ \A i \in 1 .. n : a[i] = s[i]
  OBVIOUS
<1>2. b \in Seq(S) /\ Len(b) = Len(s) - n /\ \A i \in 1 .. Len(s) - n : b[i] = s[n + i]
  OBVIOUS
<1> HIDE DEF a, b
<1>3. \A i \in n + 1 .. Len(s) : b[i - n] = s[i]
  <2> TAKE i \in n + 1 .. Len(s)
  <2>1. i - n \in 1 .. Len(s) - n /\ n + (i - n) = i
    OBVIOUS
  <2> QED BY <1>2, <2>1
<1>4. a \o b \in Seq(S) /\ Len(a \o b) = Len(s)
  <2>1. a \o b \in Seq(S) /\ Len(a \o b) = Len(a) + Len(b)
    BY <1>1, <1>2, ConcatType
  <2> QED BY <2>1, <1>1, <1>2
<1>5. \A i \in 1 .. Len(s) : (a \o b)[i] = s[i]
  BY <1>1, <1>2, <1>3
<1>6. a \o b = s
  BY <1>4, <1>5, SameCells
<1> QED BY <1>1, <1>2, <1>6 DEF a, b

LEMMA FunctionIsSeq ==
    ASSUME NEW S, NEW m \in Nat, NEW F \in [1 .. m -> S]
    PROVE  F \in Seq(S) /\ Len(F) = m
  OBVIOUS

LEMMA ConcatTwice == \A s, t, u \in Seq(Cells) : (s \o t) \o u = s \o (t \o u)
  OBVIOUS

\* What the first k cells of a sequence are.
LEMMA FirstCells ==
    ASSUME NEW S, NEW s \in Seq(S), NEW n \in 0 .. Len(s)
    PROVE  /\ SubSeq(s, 1, n) \in Seq(S) /\ Len(SubSeq(s, 1, n)) = n
           /\ \A i \in 1 .. n : SubSeq(s, 1, n)[i] = s[i]
  OBVIOUS

\* What the cells after the first n are.
LEMMA LastCells ==
    ASSUME NEW S, NEW s \in Seq(S), NEW n \in 0 .. Len(s)
    PROVE  /\ SubSeq(s, n + 1, Len(s)) \in Seq(S) /\ Len(SubSeq(s, n + 1, Len(s))) = Len(s) - n
           /\ \A i \in 1 .. Len(s) - n : SubSeq(s, n + 1, Len(s))[i] = s[n + i]
  OBVIOUS

\* Overlay writes s from at on; at the end it appends.
LEMMA OverlayCells ==
    ASSUME NEW S, Zero \in S, NEW d \in Seq(S), NEW at \in Nat, NEW s \in Seq(S)
    PROVE  /\ Overlay(d, at, s) \in Seq(S)
           /\ Len(Overlay(d, at, s)) = IF s # << >> /\ at + Len(s) > Len(d) THEN at + Len(s) ELSE Len(d)
           /\ \A i \in 1 .. Len(d) : i \notin at + 1 .. at + Len(s) => Overlay(d, at, s)[i] = d[i]
           /\ \A k \in 1 .. Len(s) : Overlay(d, at, s)[at + k] = s[k]
<1>1. CASE s = << >>
  BY <1>1 DEF Overlay
<1>2. CASE s # << >>
  <2> DEFINE m == IF Len(d) > at + Len(s) THEN Len(d) ELSE at + Len(s)
  <2>1. m \in Nat /\ Len(s) \in Nat \ {0} /\ Len(d) \in Nat
    BY <1>2
  <2>2. Overlay(d, at, s) = [i \in 1 .. m |-> IF at < i /\ i <= at + Len(s) THEN s[i - at]
                                              ELSE IF i <= Len(d) THEN d[i] ELSE Zero]
    BY <1>2 DEF Overlay
  <2>3. \A i \in 1 .. m : (IF at < i /\ i <= at + Len(s) THEN s[i - at]
                           ELSE IF i <= Len(d) THEN d[i] ELSE Zero) \in S
    BY <2>1
  <2>4. Overlay(d, at, s) \in Seq(S) /\ Len(Overlay(d, at, s)) = m
    <3>1. Overlay(d, at, s) \in [1 .. m -> S]
      BY <2>2, <2>3
    <3> QED BY <2>1, <3>1, FunctionIsSeq
  <2>5. \A i \in 1 .. Len(d) : i \notin at + 1 .. at + Len(s) => Overlay(d, at, s)[i] = d[i]
    BY <2>1, <2>2
  <2>6. \A k \in 1 .. Len(s) : Overlay(d, at, s)[at + k] = s[k]
    BY <2>1, <2>2
  <2> QED BY <1>2, <2>1, <2>4, <2>5, <2>6
<1> QED BY <1>1, <1>2

LEMMA OverlayEnd ==
    ASSUME NEW S, Zero \in S, NEW d \in Seq(S), NEW s \in Seq(S)
    PROVE  Overlay(d, Len(d), s) = d \o s
<1>1. CASE s = << >>
  <2>1. d \o << >> = d
    OBVIOUS
  <2> QED BY <1>1, <2>1 DEF Overlay
<1>2. CASE s # << >>
  <2> DEFINE o == Overlay(d, Len(d), s)
  <2>1. Len(s) \in Nat \ {0} /\ Len(d) \in Nat
    BY <1>2
  <2>2. /\ o \in Seq(S) /\ Len(o) = Len(d) + Len(s)
        /\ \A i \in 1 .. Len(d) : i \notin Len(d) + 1 .. Len(d) + Len(s) => o[i] = d[i]
        /\ \A k \in 1 .. Len(s) : o[Len(d) + k] = s[k]
    BY <1>2, <2>1, OverlayCells
  <2> HIDE DEF o
  <2>3. \A i \in 1 .. Len(d) : o[i] = d[i]
    BY <2>1, <2>2
  <2>4. \A i \in Len(d) + 1 .. Len(d) + Len(s) : o[i] = s[i - Len(d)]
    <3> TAKE i \in Len(d) + 1 .. Len(d) + Len(s)
    <3>1. i - Len(d) \in 1 .. Len(s) /\ Len(d) + (i - Len(d)) = i
      BY <2>1
    <3> QED BY <2>2, <3>1
  <2>5. o = d \o s
    BY <2>1, <2>2, <2>3, <2>4
  <2> QED BY <2>5 DEF o
<1> QED BY <1>1, <1>2
-------------------------------------------------------------------------------
(* One file.                                                               *)

\* A file of the right type with a whole buffer or none, whether or not its
\* writes succeeded.
Sized(f) == f \in FileType /\ Len(f.buffer) \in {0, BlockSize}

\* A file whose writes succeeded: what has not reached it is in the buffer.
Whole(f) ==
    /\ Sized(f)
    /\ Buffered(f) => f.fpos = Len(f.disk) /\ f.fpos + ModPos(f) = f.bufpos
    /\ f.origin <= Position(f) /\ f.origin <= Len(Image(f))

LEMMA SizedBuffer ==
    ASSUME NEW f, Sized(f)
    PROVE  /\ Buffered(f) => Len(f.buffer) = BlockSize
           /\ ModPos(f) \in 0 .. BlockSize - 1
           /\ Buffered(f) => /\ SubSeq(f.buffer, 1, ModPos(f)) \in Seq(Cells)
                             /\ Len(SubSeq(f.buffer, 1, ModPos(f))) = ModPos(f)
<1>1. BlockSize \in Nat \ {0} /\ f.buffer \in Seq(Cells) /\ f.bufpos \in Nat
  BY BlockSizeAssumption DEF Sized, FileType
<1>2. Buffered(f) => Len(f.buffer) = BlockSize
  BY <1>1 DEF Sized, Buffered
<1>3. ModPos(f) \in 0 .. BlockSize - 1
  BY <1>1, DivMod DEF ModPos
<1>4. Buffered(f) => ModPos(f) \in 0 .. Len(f.buffer)
  BY <1>1, <1>2, <1>3
<1>5. Buffered(f) => Len(SubSeq(f.buffer, 1, ModPos(f))) = ModPos(f) /\ SubSeq(f.buffer, 1, ModPos(f)) \in Seq(Cells)
  BY <1>1, <1>4, FirstCells
<1> QED BY <1>2, <1>3, <1>5

LEMMA ImageType ==
    ASSUME NEW f, Sized(f)
    PROVE  Image(f) \in Seq(Cells) /\ Position(f) \in Nat /\ f.origin \in Nat
<1>1. f.disk \in Seq(Cells) /\ f.bufpos \in Nat /\ f.fpos \in Nat /\ f.origin \in Nat
  BY DEF Sized, FileType
<1>2. Buffered(f) => SubSeq(f.buffer, 1, ModPos(f)) \in Seq(Cells)
  BY SizedBuffer
<1>3. Buffered(f) => f.disk \o SubSeq(f.buffer, 1, ModPos(f)) \in Seq(Cells)
  BY <1>1, <1>2, ConcatType
<1> QED BY <1>1, <1>3 DEF Image, Position

\* While a file has a buffer, its image ends at its position.
LEMMA ImageLength ==
    ASSUME NEW f, Whole(f), Buffered(f)
    PROVE  Len(Image(f)) = f.bufpos /\ Position(f) = f.bufpos
<1>1. f.disk \in Seq(Cells) /\ f.bufpos \in Nat /\ Sized(f)
  BY DEF Whole, Sized, FileType
<1>2. SubSeq(f.buffer, 1, ModPos(f)) \in Seq(Cells) /\ Len(SubSeq(f.buffer, 1, ModPos(f))) = ModPos(f)
  BY <1>1, SizedBuffer
<1>3. Len(f.disk \o SubSeq(f.buffer, 1, ModPos(f))) = Len(f.disk) + ModPos(f)
  BY <1>1, <1>2, ConcatType
<1> QED BY <1>1, <1>3 DEF Whole, Image, Position

LEMMA QWriteFields ==
    ASSUME NEW f, f \in FileType, NEW s \in Seq(Cells)
    PROVE  /\ QWrite(f, s) \in FileType
           /\ QWrite(f, s).disk = Overlay(f.disk, f.fpos, s) /\ QWrite(f, s).fpos = f.fpos + Len(s)
           /\ QWrite(f, s).buffer = f.buffer /\ QWrite(f, s).bufpos = f.bufpos
           /\ QWrite(f, s).origin = f.origin /\ QWrite(f, s).open = f.open
<1>1. f.disk \in Seq(Cells) /\ f.fpos \in Nat /\ Zero \in Cells
  BY DEF FileType, Cells
<1>2. Overlay(f.disk, f.fpos, s) \in Seq(Cells) /\ f.fpos + Len(s) \in Nat
  BY <1>1, OverlayCells
<1> QED BY <1>2 DEF QWrite, FileType

\* The cells of a request run through the buffer in whole blocks; the buffer
\* keeps what is left, over what was there.
LEMMA AfterBlocksOK ==
    ASSUME NEW f, f \in FileType, Len(f.buffer) = BlockSize, NEW s \in Seq(Cells)
    PROVE  /\ AfterBlocks(f, s) \in Seq(Cells) /\ Len(AfterBlocks(f, s)) = BlockSize
           /\ SubSeq(AfterBlocks(f, s), 1, Len(s) % BlockSize)
                = SubSeq(s, (Len(s) \div BlockSize) * BlockSize + 1, Len(s))
<1> DEFINE n == Len(s) \div BlockSize
           m == Len(s) % BlockSize
           b == AfterBlocks(f, s)
<1>1. BlockSize \in Nat \ {0} /\ f.buffer \in Seq(Cells) /\ Len(s) \in Nat
  BY BlockSizeAssumption DEF FileType
<1>2. n \in Nat /\ m \in 0 .. BlockSize - 1 /\ n * BlockSize \in Nat /\ n * BlockSize + m = Len(s)
  BY <1>1, DivMod
<1>3. n # 0 => (n - 1) * BlockSize = n * BlockSize - BlockSize /\ (n - 1) * BlockSize \in Nat
  <2> SUFFICES ASSUME n # 0 PROVE (n - 1) * BlockSize = n * BlockSize - BlockSize /\ (n - 1) * BlockSize \in Nat
    OBVIOUS
  <2> HIDE DEF n
  <2>1. n - 1 \in Nat
    BY <1>2
  <2>2. (n - 1) * BlockSize \in Nat
    BY <2>1, <1>1
  <2>3. (n - 1) * BlockSize = n * BlockSize - BlockSize
    BY <1>1, <1>2
  <2> QED BY <2>2, <2>3
<1>4. b = [j \in 1 .. BlockSize |->
             IF j <= m THEN s[n * BlockSize + j]
             ELSE IF n = 0 THEN f.buffer[j] ELSE s[(n - 1) * BlockSize + j]]
  BY DEF AfterBlocks
<1> HIDE DEF n, m, b
<1>5. \A j \in 1 .. BlockSize : b[j] \in Cells
  <2> TAKE j \in 1 .. BlockSize
  <2>1. CASE j <= m
    <3>1. n * BlockSize + j \in 1 .. Len(s)
      BY <1>1, <1>2, <2>1
    <3> QED BY <3>1, <2>1, <1>4
  <2>2. CASE j > m /\ n = 0
    BY <2>2, <1>1, <1>2, <1>4
  <2>3. CASE j > m /\ n # 0
    <3>1. (n - 1) * BlockSize + j \in 1 .. Len(s)
      BY <1>1, <1>2, <1>3, <2>3
    <3> QED BY <3>1, <2>3, <1>1, <1>2, <1>4
  <2> QED BY <1>1, <1>2, <2>1, <2>2, <2>3
<1>6. b \in Seq(Cells) /\ Len(b) = BlockSize
  <2>1. b \in [1 .. BlockSize -> Cells]
    BY <1>4, <1>5
  <2> QED BY <2>1, <1>1, FunctionIsSeq
<1>7. SubSeq(b, 1, m) \in Seq(Cells) /\ Len(SubSeq(b, 1, m)) = m /\ \A i \in 1 .. m : SubSeq(b, 1, m)[i] = b[i]
  BY <1>1, <1>2, <1>6, FirstCells, SMTT(20)
<1>8. /\ SubSeq(s, n * BlockSize + 1, Len(s)) \in Seq(Cells)
      /\ Len(SubSeq(s, n * BlockSize + 1, Len(s))) = m
      /\ \A i \in 1 .. m : SubSeq(s, n * BlockSize + 1, Len(s))[i] = s[n * BlockSize + i]
  <2> DEFINE k == n * BlockSize
  <2>1. k \in Nat /\ k + m = Len(s) /\ m \in Nat
    BY <1>1, <1>2
  <2> HIDE DEF k
  <2>2. k \in 0 .. Len(s) /\ Len(s) - k = m
    BY <2>1
  <2>3. /\ SubSeq(s, k + 1, Len(s)) \in Seq(Cells)
        /\ Len(SubSeq(s, k + 1, Len(s))) = m
        /\ \A i \in 1 .. m : SubSeq(s, k + 1, Len(s))[i] = s[k + i]
    BY <2>2, LastCells
  <2> QED BY <2>3 DEF k
<1>9. \A i \in 1 .. m : b[i] = s[n * BlockSize + i]
  BY <1>1, <1>2, <1>4
<1>10. SubSeq(b, 1, m) = SubSeq(s, n * BlockSize + 1, Len(s))
  <2> DEFINE c == SubSeq(b, 1, m)
             d == SubSeq(s, n * BlockSize + 1, Len(s))
  <2>1. /\ c \in Seq(Cells) /\ d \in Seq(Cells) /\ Len(c) = m /\ Len(d) = m
        /\ \A i \in 1 .. m : c[i] = d[i]
    BY <1>7, <1>8, <1>9
  <2> HIDE DEF c, d
  <2>2. c = d
    BY <2>1, SameCells
  <2> QED BY <2>2 DEF c, d
<1> QED BY <1>6, <1>10 DEF b, m, n

\* WriteBuffer appends.
LEMMA WriteBufferOK ==
    ASSUME NEW f, Whole(f), Buffered(f), NEW new \in Seq(Cells)
    PROVE  /\ Whole(WriteBuffer(f, new)) /\ Buffered(WriteBuffer(f, new))
           /\ Image(WriteBuffer(f, new)) = Image(f) \o new
           /\ Position(WriteBuffer(f, new)) = Position(f) + Len(new)
<1> DEFINE held == SubSeq(f.buffer, 1, ModPos(f))
           s == held \o new
           n == Len(s) \div BlockSize
           out == SubSeq(s, 1, n * BlockSize)
           rest == SubSeq(s, n * BlockSize + 1, Len(s))
           g == WriteBuffer(f, new)
<1>1. /\ f \in FileType /\ Sized(f) /\ f.fpos = Len(f.disk) /\ f.fpos + ModPos(f) = f.bufpos
      /\ f.origin <= Position(f) /\ f.origin <= Len(Image(f))
  BY DEF Whole, Sized
<1>2. /\ BlockSize \in Nat \ {0} /\ f.disk \in Seq(Cells) /\ f.fpos \in Nat /\ f.bufpos \in Nat
      /\ f.buffer \in Seq(Cells) /\ Zero \in Cells /\ f.origin \in Nat
  BY <1>1, BlockSizeAssumption DEF FileType, Cells
<1>3. held \in Seq(Cells) /\ Len(held) = ModPos(f) /\ Len(f.buffer) = BlockSize /\ ModPos(f) \in Nat
  BY <1>1, <1>2, SizedBuffer
<1>4. s \in Seq(Cells) /\ Len(s) = ModPos(f) + Len(new) /\ Len(new) \in Nat /\ Len(s) \in Nat
  BY <1>3, ConcatType
<1> HIDE DEF held, s
<1>5. /\ n \in Nat /\ Len(s) % BlockSize \in 0 .. BlockSize - 1
      /\ n * BlockSize \in Nat /\ n * BlockSize + (Len(s) % BlockSize) = Len(s)
  BY <1>2, <1>4, DivMod
<1> HIDE DEF n
<1>6. /\ out \in Seq(Cells) /\ Len(out) = n * BlockSize
      /\ rest \in Seq(Cells) /\ Len(rest) = Len(s) - n * BlockSize
      /\ out \o rest = s
  <2>1. n * BlockSize \in 0 .. Len(s)
    BY <1>2, <1>4, <1>5
  <2> QED BY <2>1, <1>4, SplitAt
<1>7. /\ AfterBlocks(f, s) \in Seq(Cells) /\ Len(AfterBlocks(f, s)) = BlockSize
      /\ SubSeq(AfterBlocks(f, s), 1, Len(s) % BlockSize) = rest
  BY <1>1, <1>3, <1>4, AfterBlocksOK DEF n
<1> HIDE DEF out, rest
<1>8. /\ g \in FileType
      /\ g.disk = Overlay(f.disk, f.fpos, out) /\ g.fpos = f.fpos + Len(out)
      /\ g.buffer = AfterBlocks(f, s) /\ g.bufpos = f.bufpos + Len(new)
      /\ g.origin = f.origin
  <2>1. /\ QWrite(f, out) \in FileType
        /\ QWrite(f, out).disk = Overlay(f.disk, f.fpos, out) /\ QWrite(f, out).fpos = f.fpos + Len(out)
        /\ QWrite(f, out).origin = f.origin
    BY <1>1, <1>6, QWriteFields
  <2>2. g = [QWrite(f, out) EXCEPT !.bufpos = f.bufpos + Len(new), !.buffer = AfterBlocks(f, s)]
    BY DEF WriteBuffer, out, n, s, held
  <2> DEFINE q == QWrite(f, out)
             a == AfterBlocks(f, s)
  <2>3. a \in Seq(Cells) /\ f.bufpos + Len(new) \in Nat
    BY <1>2, <1>4, <1>7
  <2> HIDE DEF q, a, g
  <2> QED BY <2>1, <2>2, <2>3 DEF FileType, q, a
<1> HIDE DEF g
<1>9. g.disk = f.disk \o out
  BY <1>1, <1>2, <1>6, <1>8, OverlayEnd
<1>10. Len(g.disk) = g.fpos
  <2>1. Len(f.disk \o out) = Len(f.disk) + Len(out)
    BY <1>2, <1>6, ConcatType
  <2> QED BY <2>1, <1>1, <1>8, <1>9
<1>11. g.bufpos % BlockSize = Len(s) % BlockSize
  <2> DEFINE p == f.bufpos \div BlockSize
  <2>1. p \in Nat /\ p * BlockSize \in Nat /\ p * BlockSize + ModPos(f) = f.bufpos
    BY <1>2, DivMod DEF ModPos
  <2> HIDE DEF p
  <2>2. g.bufpos = p * BlockSize + Len(s)
    BY <2>1, <1>2, <1>3, <1>4, <1>8
  <2>3. (p * BlockSize + Len(s)) % BlockSize = Len(s) % BlockSize
    BY <2>1, <1>2, <1>4, ModBlocks
  <2> QED BY <2>2, <2>3
<1>12. Buffered(g)
  BY <1>2, <1>7, <1>8 DEF Buffered
<1>13. g.fpos + ModPos(g) = g.bufpos
  <2>1. ModPos(g) = Len(s) % BlockSize
    BY <1>11 DEF ModPos
  <2> DEFINE r == Len(s) % BlockSize
             k == n * BlockSize
  <2>2. g.fpos = f.fpos + k /\ k + r = Len(s) /\ k \in Nat /\ r \in Nat
    BY <1>5, <1>6, <1>8
  <2> HIDE DEF r, k
  <2>3. ModPos(g) = r
    BY <2>1 DEF r
  <2>4. f.bufpos = f.fpos + ModPos(f) /\ Len(s) = ModPos(f) + Len(new) /\ g.bufpos = f.bufpos + Len(new)
    BY <1>1, <1>4, <1>8
  <2>5. f.bufpos \in Nat /\ f.fpos \in Nat /\ ModPos(f) \in Nat /\ Len(new) \in Nat
    BY <1>2, <1>3, <1>4
  <2> DEFINE m == ModPos(f)
             l == Len(new)
  <2>6. m \in Nat /\ l \in Nat /\ k \in Nat /\ r \in Nat /\ f.fpos \in Nat
    BY <2>2, <2>5
  <2>7. k + r = m + l /\ g.fpos = f.fpos + k /\ f.bufpos = f.fpos + m /\ g.bufpos = f.bufpos + l
    BY <2>2, <2>4
  <2> HIDE DEF m, l
  <2>8. (f.fpos + k) + r = (f.fpos + m) + l
    BY <2>6, <2>7, SameSum, SMTT(20)
  <2> QED BY <2>3, <2>7, <2>8, Zenon
<1>14. Image(g) = Image(f) \o new
  <2>1. SubSeq(g.buffer, 1, ModPos(g)) = rest
    BY <1>7, <1>8, <1>11 DEF ModPos, rest
  <2>2. Image(g) = (f.disk \o out) \o rest
    BY <2>1, <1>9, <1>12 DEF Image
  <2>3. Image(f) = f.disk \o held
    BY DEF Image, held
  <2>4. (f.disk \o out) \o rest = f.disk \o (out \o rest)
    <3>1. f.disk \in Seq(Cells) /\ out \in Seq(Cells) /\ rest \in Seq(Cells)
      BY <1>2, <1>6
    <3> QED BY <3>1, ConcatTwice, ZenonT(30)
  <2>5. (f.disk \o held) \o new = f.disk \o s
    <3>1. f.disk \in Seq(Cells) /\ held \in Seq(Cells) /\ new \in Seq(Cells)
      BY <1>2, <1>3
    <3>2. (f.disk \o held) \o new = f.disk \o (held \o new)
      BY <3>1, ConcatTwice, ZenonT(30)
    <3> QED BY <3>2 DEF s
  <2> QED BY <2>2, <2>3, <2>4, <2>5, <1>6
<1>15. Position(g) = Position(f) + Len(new)
  BY <1>8, <1>12 DEF Position
<1>16. Whole(g)
  <2>1. Sized(g)
    BY <1>7, <1>8 DEF Sized
  <2>2. Image(f) \in Seq(Cells) /\ Position(f) \in Nat
    BY <1>1, ImageType
  <2>3. Len(Image(g)) = Len(Image(f)) + Len(new)
    BY <2>2, <1>14, ConcatType
  <2>4. g.origin <= Position(g) /\ g.origin <= Len(Image(g))
    BY <2>2, <2>3, <1>1, <1>2, <1>4, <1>8, <1>15
  <2> QED BY <2>1, <2>4, <1>10, <1>13 DEF Whole
<1> QED BY <1>12, <1>14, <1>15, <1>16 DEF g

\* What SeekFile says of a write: s is laid over old from at on.
Laid(old, at, s, new) ==
    /\ Len(new) = IF s # << >> /\ at + Len(s) > Len(old) THEN at + Len(s) ELSE Len(old)
    /\ \A i \in DOMAIN old : i \notin at + 1 .. at + Len(s) => new[i] = old[i]
    /\ \A k \in DOMAIN s : new[at + k] = s[k]

LEMMA ConcatLaid ==
    ASSUME NEW d \in Seq(Cells), NEW s \in Seq(Cells)
    PROVE  Laid(d, Len(d), s, d \o s)
<1>1. Len(d \o s) = Len(d) + Len(s) /\ Len(d) \in Nat /\ Len(s) \in Nat
  OBVIOUS
<1>2. s # << >> <=> Len(s) > 0
  OBVIOUS
<1>3. \A i \in 1 .. Len(d) : (d \o s)[i] = d[i]
  OBVIOUS
<1>4. \A k \in 1 .. Len(s) : (d \o s)[Len(d) + k] = s[k]
  OBVIOUS
<1>5. DOMAIN d = 1 .. Len(d) /\ DOMAIN s = 1 .. Len(s)
  OBVIOUS
<1>6. Len(d \o s) = IF s # << >> /\ Len(d) + Len(s) > Len(d) THEN Len(d) + Len(s) ELSE Len(d)
  BY <1>1, <1>2
<1> QED BY <1>3, <1>4, <1>5, <1>6 DEF Laid

\* A file without a buffer is what has reached it.
LEMMA Direct ==
    ASSUME NEW f, ~Buffered(f)
    PROVE  Image(f) = f.disk /\ Position(f) = f.fpos
  BY DEF Image, Position

LEMMA QWriteOK ==
    ASSUME NEW f, Whole(f), ~Buffered(f), NEW s \in Seq(Cells)
    PROVE  /\ Whole(QWrite(f, s))
           /\ Laid(Image(f), Position(f), s, Image(QWrite(f, s)))
           /\ Position(QWrite(f, s)) = Position(f) + Len(s)
<1> DEFINE g == QWrite(f, s)
<1>1. /\ f \in FileType /\ Len(f.buffer) \in {0, BlockSize} /\ f.disk \in Seq(Cells) /\ f.fpos \in Nat
      /\ f.origin \in Nat /\ Zero \in Cells
      /\ f.origin <= f.fpos /\ f.origin <= Len(f.disk)
  BY Direct DEF Whole, Sized, FileType, Cells
<1>2. /\ g \in FileType /\ g.disk = Overlay(f.disk, f.fpos, s) /\ g.fpos = f.fpos + Len(s)
      /\ g.buffer = f.buffer /\ g.origin = f.origin
  BY <1>1, QWriteFields
<1> HIDE DEF g
<1>3. ~Buffered(g)
  BY <1>2 DEF Buffered
<1>4. /\ g.disk \in Seq(Cells)
      /\ Len(g.disk) = IF s # << >> /\ f.fpos + Len(s) > Len(f.disk) THEN f.fpos + Len(s) ELSE Len(f.disk)
      /\ \A i \in 1 .. Len(f.disk) : i \notin f.fpos + 1 .. f.fpos + Len(s) => g.disk[i] = f.disk[i]
      /\ \A k \in 1 .. Len(s) : g.disk[f.fpos + k] = s[k]
  <2>1. PICK d \in Seq(Cells) : d = f.disk
    BY <1>1
  <2>2. PICK p \in Nat : p = f.fpos
    BY <1>1
  <2>3. Zero \in Cells
    BY <1>1
  <2> DEFINE o == Overlay(d, p, s)
  <2>4. /\ o \in Seq(Cells)
        /\ Len(o) = IF s # << >> /\ p + Len(s) > Len(d) THEN p + Len(s) ELSE Len(d)
        /\ \A i \in 1 .. Len(d) : i \notin p + 1 .. p + Len(s) => o[i] = d[i]
        /\ \A k \in 1 .. Len(s) : o[p + k] = s[k]
    BY <2>3, OverlayCells
  <2>5. g.disk = o
    BY <1>2, <2>1, <2>2
  <2> HIDE DEF o
  <2> QED BY <2>1, <2>2, <2>4, <2>5, Zenon
<1>5. DOMAIN f.disk = 1 .. Len(f.disk) /\ DOMAIN s = 1 .. Len(s) /\ Len(s) \in Nat /\ Len(f.disk) \in Nat
  BY <1>1
<1>6. Laid(f.disk, f.fpos, s, g.disk)
  BY <1>4, <1>5 DEF Laid
<1>7. Len(g.disk) >= Len(f.disk) /\ Len(g.disk) \in Nat
  BY <1>1, <1>4, <1>5
<1>8. g.origin <= g.fpos /\ g.origin <= Len(g.disk)
  BY <1>1, <1>2, <1>5, <1>7
<1>9. Whole(g)
  BY <1>1, <1>2, <1>3, <1>8, Direct DEF Whole, Sized
<1> QED BY <1>2, <1>3, <1>6, <1>9, Direct DEF g

\* WriteLoad puts s at the position and nowhere else, buffer or not.
LEMMA WriteLoadOK ==
    ASSUME NEW f, Whole(f), NEW s \in Seq(Cells)
    PROVE  /\ Whole(WriteLoad(f, s))
           /\ Laid(Image(f), Position(f), s, Image(WriteLoad(f, s)))
           /\ Position(WriteLoad(f, s)) = Position(f) + Len(s)
<1>1. CASE Buffered(f)
  <2>1. /\ Whole(WriteBuffer(f, s)) /\ Image(WriteBuffer(f, s)) = Image(f) \o s
        /\ Position(WriteBuffer(f, s)) = Position(f) + Len(s)
    BY <1>1, WriteBufferOK
  <2>2. Image(f) \in Seq(Cells) /\ Position(f) = Len(Image(f))
    BY <1>1, ImageType, ImageLength DEF Whole
  <2>3. Laid(Image(f), Position(f), s, Image(f) \o s)
    BY <2>2, ConcatLaid
  <2>4. WriteLoad(f, s) = WriteBuffer(f, s)
    BY <1>1 DEF WriteLoad
  <2> QED BY <2>1, <2>3, <2>4
<1>2. CASE ~Buffered(f)
  BY <1>2, QWriteOK DEF WriteLoad
<1> QED BY <1>1, <1>2

\* FlushBuffFile and QSeek: the image stays, the handle moves.
LEMMA FlushOK ==
    ASSUME NEW f, Whole(f), Buffered(f)
    PROVE  /\ Whole(FlushBuffFile(f)) /\ ~Buffered(FlushBuffFile(f))
           /\ Image(FlushBuffFile(f)) = Image(f) /\ Position(FlushBuffFile(f)) = Position(f)
           /\ FlushBuffFile(f).origin = f.origin
<1> DEFINE held == SubSeq(f.buffer, 1, ModPos(f))
           g == FlushBuffFile(f)
<1>1. /\ f \in FileType /\ Sized(f) /\ f.fpos = Len(f.disk) /\ f.fpos + ModPos(f) = f.bufpos
      /\ f.origin <= Position(f) /\ f.origin <= Len(Image(f))
  BY DEF Whole, Sized
<1>2. f.disk \in Seq(Cells) /\ f.fpos \in Nat /\ Zero \in Cells
  BY <1>1 DEF FileType, Cells
<1>3. held \in Seq(Cells) /\ Len(held) = ModPos(f)
  BY <1>1, SizedBuffer
<1>4. Image(f) = f.disk \o held /\ Position(f) = f.bufpos
  BY DEF Image, Position
<1>5. g = [QWrite(f, held) EXCEPT !.buffer = << >>]
  BY DEF FlushBuffFile
<1> HIDE DEF held, g
<1>6. /\ g \in FileType /\ g.disk = Overlay(f.disk, f.fpos, held) /\ g.fpos = f.fpos + Len(held)
      /\ g.buffer = << >> /\ g.origin = f.origin
  <2> DEFINE q == QWrite(f, held)
  <2>1. /\ q \in FileType /\ q.disk = Overlay(f.disk, f.fpos, held) /\ q.fpos = f.fpos + Len(held)
        /\ q.origin = f.origin
    BY <1>1, <1>3, QWriteFields
  <2>2. g = [q EXCEPT !.buffer = << >>]
    BY <1>5
  <2> HIDE DEF q
  <2>3. << >> \in Seq(Cells)
    OBVIOUS
  <2> QED BY <2>1, <2>2, <2>3 DEF FileType
<1>7. ~Buffered(g)
  BY <1>6 DEF Buffered
<1>8. g.disk = Image(f) /\ g.fpos = Position(f)
  BY <1>1, <1>2, <1>3, <1>4, <1>6, OverlayEnd
<1>9. Image(g) = Image(f) /\ Position(g) = Position(f)
  BY <1>7, <1>8, Direct
<1>10. Len(g.buffer) = 0
  BY <1>6
<1>11. Whole(g)
  BY <1>1, <1>6, <1>7, <1>9, <1>10 DEF Whole, Sized
<1> QED BY <1>6, <1>7, <1>9, <1>11 DEF g

LEMMA QSeekOK ==
    ASSUME NEW f, Whole(f), ~Buffered(f), NEW p \in Nat, f.origin <= p
    PROVE  /\ Whole(QSeek(f, p))
           /\ Image(QSeek(f, p)) = Image(f) /\ Position(QSeek(f, p)) = p
<1> DEFINE g == QSeek(f, p)
<1>1. f \in FileType /\ Len(f.buffer) \in {0, BlockSize} /\ f.origin <= Len(f.disk)
  BY Direct DEF Whole, Sized
<1>2. /\ g \in FileType /\ g.disk = f.disk /\ g.fpos = p /\ g.buffer = f.buffer
      /\ g.origin = f.origin
  BY <1>1 DEF QSeek, FileType
<1> HIDE DEF g
<1>3. ~Buffered(g)
  BY <1>2 DEF Buffered
<1>4. Whole(g)
  BY <1>1, <1>2, <1>3, Direct DEF Whole, Sized
<1> QED BY <1>2, <1>3, <1>4, Direct DEF g

\* CloseBuffFile loses nothing.
LEMMA CloseOK ==
    ASSUME NEW f, Whole(f)
    PROVE  /\ Whole(CloseBuffFile(f))
           /\ Image(CloseBuffFile(f)) = Image(f) /\ Position(CloseBuffFile(f)) = Position(f)
<1> DEFINE h == IF Buffered(f) THEN FlushBuffFile(f) ELSE f
           g == CloseBuffFile(f)
<1>1. Whole(h) /\ ~Buffered(h) /\ Image(h) = Image(f) /\ Position(h) = Position(f)
  BY FlushOK
<1>2. g = [h EXCEPT !.open = FALSE]
  BY DEF CloseBuffFile
<1> HIDE DEF h, g
<1>3. h \in FileType /\ Len(h.buffer) \in {0, BlockSize} /\ h.origin <= Position(h) /\ h.origin <= Len(Image(h))
  BY <1>1 DEF Whole, Sized
<1>4. /\ g \in FileType /\ g.disk = h.disk /\ g.fpos = h.fpos /\ g.buffer = h.buffer /\ g.origin = h.origin
  BY <1>2, <1>3 DEF FileType
<1>5. ~Buffered(g)
  BY <1>1, <1>4 DEF Buffered
<1>6. Image(g) = Image(h) /\ Position(g) = Position(h)
  BY <1>1, <1>4, <1>5, Direct
<1>7. Whole(g)
  BY <1>3, <1>4, <1>5, <1>6 DEF Whole, Sized
<1> QED BY <1>1, <1>6, <1>7 DEF g

\* The cells a request is made of.
LEMMA PadCellsOK ==
    ASSUME NEW n \in Nat, curr \in Files
    PROVE  /\ PadCells(n) \in Seq(Cells) /\ Len(PadCells(n)) = n
           /\ \E c \in {FillChar, Zero} : PadCells(n) = [i \in 1 .. n |-> c]
           /\ PadLoad(file[curr], n) = WriteLoad(file[curr], PadCells(n))
<1> DEFINE c == IF Buffered(file[curr]) THEN FillChar ELSE Zero
<1>1. c \in {FillChar, Zero} /\ c \in Cells
  BY DEF Cells
<1>2. PadCells(n) = [i \in 1 .. n |-> c]
  BY DEF PadCells
<1>3. PadCells(n) \in [1 .. n -> Cells]
  BY <1>1, <1>2
<1>4. PadCells(n) \in Seq(Cells) /\ Len(PadCells(n)) = n
  BY <1>3, FunctionIsSeq
<1>5. PadLoad(file[curr], n) = WriteLoad(file[curr], PadCells(n))
  BY DEF PadLoad, WriteLoad, PadCells
<1> QED BY <1>1, <1>2, <1>4, <1>5

LEMMA AlignPadType ==
    ASSUME NEW p \in Int, NEW n \in Nat \ {0}
    PROVE  AlignPad(p, n) \in Nat
<1>1. p % n \in 0 .. n - 1
  OBVIOUS
<1>2. (n - (p % n)) \in Int
  BY <1>1
<1> DEFINE d == n - (p % n)
<1> HIDE DEF d
<1>3. d \in Int => d % n \in Nat
  OBVIOUS
<1> QED BY <1>2, <1>3 DEF d, AlignPad

LEMMA SkippedOK ==
    ASSUME NEW f, Sized(f), Buffered(f), NEW n \in Nat
    PROVE  Skipped(f, n) \in Seq(Cells) /\ Len(Skipped(f, n)) = n
<1>1. BlockSize \in Nat \ {0} /\ f.buffer \in Seq(Cells) /\ f.bufpos \in Nat /\ Len(f.buffer) = BlockSize
  BY BlockSizeAssumption, SizedBuffer DEF Sized, FileType
<1>2. \A i \in 1 .. n : f.buffer[((f.bufpos + i - 1) % BlockSize) + 1] \in Cells
  <2> TAKE i \in 1 .. n
  <2> DEFINE a == f.bufpos + i - 1
  <2>1. a \in Nat
    BY <1>1
  <2> HIDE DEF a
  <2>2. a % BlockSize \in 0 .. BlockSize - 1
    BY <1>1, <2>1, DivMod
  <2>3. (a % BlockSize) + 1 \in 1 .. Len(f.buffer)
    BY <1>1, <2>2
  <2>4. f.buffer[(a % BlockSize) + 1] \in Cells
    BY <1>1, <2>3
  <2> QED BY <2>4 DEF a
<1>3. Skipped(f, n) \in [1 .. n -> Cells]
  BY <1>2 DEF Skipped
<1> QED BY <1>3, FunctionIsSeq

LEMMA ConcatPrefix ==
    ASSUME NEW d \in Seq(Cells), NEW s \in Seq(Cells)
    PROVE  Store!IsPrefix(d, d \o s) /\ Store!IsPrefix(d, d)
<1>1. Len(d \o s) = Len(d) + Len(s) /\ SubSeq(d \o s, 1, Len(d)) = d /\ SubSeq(d, 1, Len(d)) = d
  OBVIOUS
<1>2. Len(d) \in Nat /\ Len(s) \in Nat
  OBVIOUS
<1> QED BY <1>1, <1>2 DEF Store!IsPrefix

\* What SeekFile says of a seek to p: no byte changes, and if the file gets
\* longer, it ends at p.
Moved(old, p, new) == Store!IsPrefix(old, new) /\ Len(new) \in {Len(old), p}

\* A seek forward in the buffer appends what the buffer holds, one backward
\* gives the buffer up.
LEMMA SeekLoadOK ==
    ASSUME NEW f, Whole(f), NEW offset \in Nat
    PROVE  /\ Whole(SeekLoad(f, offset))
           /\ Moved(Image(f), offset + f.origin, Image(SeekLoad(f, offset)))
           /\ Position(SeekLoad(f, offset)) = offset + f.origin
<1> DEFINE to == offset + f.origin
           g == SeekLoad(f, offset)
<1>1. Sized(f) /\ f.origin \in Nat /\ f.bufpos \in Nat /\ to \in Nat /\ f.origin <= to
  BY DEF Whole, Sized, FileType
<1>2. Image(f) \in Seq(Cells) /\ Len(Image(f)) \in Nat
  BY <1>1, ImageType
<1>3. Store!IsPrefix(Image(f), Image(f))
  BY <1>2, ConcatPrefix
<1>4. CASE Buffered(f) /\ to >= f.bufpos
  <2> DEFINE s == Skipped(f, to - f.bufpos)
  <2>1. g = WriteBuffer(f, s)
    BY <1>1, <1>4 DEF SeekLoad
  <2>2. to - f.bufpos \in Nat
    BY <1>1, <1>4
  <2>3. s \in Seq(Cells) /\ Len(s) = to - f.bufpos
    BY <1>1, <1>4, <2>2, SkippedOK
  <2> HIDE DEF s, to, g
  <2>4. Whole(g) /\ Image(g) = Image(f) \o s /\ Position(g) = Position(f) + Len(s)
    BY <1>4, <2>1, <2>3, WriteBufferOK
  <2>5. Len(Image(f)) = f.bufpos /\ Position(f) = f.bufpos
    BY <1>4, ImageLength
  <2>6. Store!IsPrefix(Image(f), Image(f) \o s) /\ Len(Image(f) \o s) = Len(Image(f)) + Len(s)
    BY <1>2, <2>3, ConcatPrefix, ConcatType
  <2>7. Position(g) = to /\ Len(Image(g)) = to
    BY <1>1, <2>3, <2>4, <2>5, <2>6
  <2> QED BY <2>4, <2>6, <2>7 DEF Moved, to, g
<1>5. CASE ~(Buffered(f) /\ to >= f.bufpos)
  <2> DEFINE h == IF Buffered(f) THEN FlushBuffFile(f) ELSE f
  <2>1. /\ Whole(h) /\ ~Buffered(h) /\ Image(h) = Image(f) /\ h.origin = f.origin
    BY FlushOK
  <2>2. g = QSeek(h, to)
    <3>1. CASE Buffered(f)
      <4>1. to < f.bufpos
        BY <1>1, <1>5, <3>1
      <4>2. ~Buffered(FlushBuffFile(f))
        BY <3>1, FlushOK
      <4> QED BY <3>1, <4>1, <4>2 DEF SeekLoad
    <3>2. CASE ~Buffered(f)
      BY <3>2 DEF SeekLoad
    <3> QED BY <3>1, <3>2
  <2> HIDE DEF h, to, g
  <2>3. Whole(g) /\ Image(g) = Image(h) /\ Position(g) = to
    BY <1>1, <2>1, <2>2, QSeekOK
  <2> QED BY <1>3, <2>1, <2>3 DEF Moved, to, g
<1> QED BY <1>4, <1>5

\* A seek from the end goes to the end of the image, in the buffer or not.
LEMMA SeekEndLoadOK ==
    ASSUME NEW f, Whole(f), NEW offset \in Nat
    PROVE  /\ Whole(SeekEndLoad(f, offset))
           /\ Moved(Image(f), Len(Image(f)) + offset, Image(SeekEndLoad(f, offset)))
           /\ Position(SeekEndLoad(f, offset)) = Len(Image(f)) + offset
<1> DEFINE g == SeekEndLoad(f, offset)
<1>1. Sized(f) /\ f.origin \in Nat /\ f.bufpos \in Nat /\ f.origin <= Len(Image(f))
  BY DEF Whole, Sized, FileType
<1>2. Image(f) \in Seq(Cells) /\ Len(Image(f)) \in Nat
  BY <1>1, ImageType
<1>3. Store!IsPrefix(Image(f), Image(f))
  BY <1>2, ConcatPrefix
<1>4. CASE Buffered(f) /\ offset = 0
  <2>1. g = f
    BY <1>4 DEF SeekEndLoad
  <2>2. Len(Image(f)) = f.bufpos /\ Position(f) = f.bufpos
    BY <1>4, ImageLength
  <2> HIDE DEF g
  <2> QED BY <1>1, <1>2, <1>3, <1>4, <2>1, <2>2 DEF Moved, g
<1>5. CASE ~(Buffered(f) /\ offset = 0)
  <2> DEFINE h == IF Buffered(f) THEN FlushBuffFile(f) ELSE f
  <2>1. /\ Whole(h) /\ ~Buffered(h) /\ Image(h) = Image(f) /\ h.origin = f.origin
    BY FlushOK
  <2>2. g = QSeek(h, Len(h.disk) + offset)
    <3>1. CASE Buffered(f)
      <4>1. offset > 0
        BY <1>5, <3>1
      <4>2. ~Buffered(FlushBuffFile(f))
        BY <3>1, FlushOK
      <4> QED BY <3>1, <4>1, <4>2 DEF SeekEndLoad
    <3>2. CASE ~Buffered(f)
      BY <3>2 DEF SeekEndLoad
    <3> QED BY <3>1, <3>2
  <2>3. h.disk = Image(f)
    BY <2>1, Direct
  <2> HIDE DEF h, g
  <2>4. Len(Image(f)) + offset \in Nat /\ h.origin <= Len(Image(f)) + offset
    BY <1>1, <1>2, <2>1
  <2>5. Whole(g) /\ Image(g) = Image(h) /\ Position(g) = Len(Image(f)) + offset
    BY <2>1, <2>2, <2>3, <2>4, QSeekOK
  <2> QED BY <1>3, <2>1, <2>5 DEF Moved, g
<1> QED BY <1>4, <1>5

\* SetOriginLoad: the place the caller counts from is not past the position.
LEMMA SetOriginOK ==
    ASSUME NEW f, Whole(f), Buffered(f)
    PROVE  /\ Whole(SetOriginLoad(f, Position(f)))
           /\ Image(SetOriginLoad(f, Position(f))) = Image(f)
           /\ Position(SetOriginLoad(f, Position(f))) = Position(f)
<1> DEFINE p == Position(f)
           g == SetOriginLoad(f, p)
<1>1. f \in FileType /\ Sized(f) /\ (Buffered(f) => f.fpos = Len(f.disk) /\ f.fpos + ModPos(f) = f.bufpos)
  BY DEF Whole, Sized
<1>2. p \in Nat /\ p = Len(Image(f))
  BY <1>1, ImageType, ImageLength
<1> HIDE DEF p
<1>3. /\ g \in FileType /\ g.disk = f.disk /\ g.fpos = f.fpos /\ g.buffer = f.buffer
      /\ g.bufpos = f.bufpos /\ g.origin = p
  BY <1>1, <1>2 DEF SetOriginLoad, FileType
<1> HIDE DEF g
<1>4. Buffered(g) /\ Image(g) = Image(f) /\ Position(g) = p /\ ModPos(g) = ModPos(f)
  BY <1>3 DEF Buffered, Image, Position, ModPos, p
<1>5. Whole(g)
  BY <1>1, <1>2, <1>3, <1>4 DEF Whole, Sized
<1> QED BY <1>4, <1>5 DEF p, g

\* A file that is opened is empty, and so is one that is not.
LEMMA InitOK ==
    /\ Whole(InitBuffFile) /\ Image(InitBuffFile) = << >> /\ Position(InitBuffFile) = 0
    /\ Whole(OpenBuffFile(InitBuffFile)) /\ Image(OpenBuffFile(InitBuffFile)) = << >>
    /\ Position(OpenBuffFile(InitBuffFile)) = 0
<1> DEFINE f == InitBuffFile
           g == OpenBuffFile(f)
<1>1. BlockSize \in Nat \ {0}
  BY BlockSizeAssumption
<1>2. << >> \in Seq(Cells) /\ Len(<< >>) = 0
  OBVIOUS
<1>3. f \in FileType /\ f.buffer = << >> /\ f.disk = << >> /\ f.fpos = 0 /\ f.origin = 0 /\ f.bufpos = 0
  BY <1>2 DEF InitBuffFile, FileType
<1> HIDE DEF f
<1>4. ~Buffered(f) /\ Image(f) = << >> /\ Position(f) = 0
  BY <1>3 DEF Buffered, Image, Position
<1>5. Whole(f)
  BY <1>2, <1>3, <1>4 DEF Whole, Sized
<1> DEFINE b == [j \in 1 .. BlockSize |-> Zero]
<1>6. b \in Seq(Cells) /\ Len(b) = BlockSize
  <2>1. b \in [1 .. BlockSize -> Cells]
    BY DEF Cells
  <2> HIDE DEF b
  <2> QED BY <1>1, <2>1, FunctionIsSeq
<1>7. /\ g \in FileType /\ g.buffer = b /\ g.disk = << >> /\ g.fpos = 0 /\ g.origin = 0 /\ g.bufpos = 0
  <2>1. g = [f EXCEPT !.open = TRUE, !.disk = << >>, !.fpos = 0, !.buffer = b]
    BY DEF OpenBuffFile
  <2> HIDE DEF b, g
  <2> QED BY <2>1, <1>2, <1>3, <1>6 DEF FileType
<1> HIDE DEF b, g
<1>8. Buffered(g) /\ ModPos(g) = 0
  BY <1>1, <1>6, <1>7 DEF Buffered, ModPos
<1>9. SubSeq(g.buffer, 1, 0) = << >>
  BY <1>6, <1>7
<1>10. Image(g) = << >> /\ Position(g) = 0
  BY <1>7, <1>8, <1>9 DEF Image, Position
<1>11. Whole(g)
  BY <1>2, <1>6, <1>7, <1>8, <1>10 DEF Whole, Sized
<1> QED BY <1>4, <1>5, <1>10, <1>11 DEF f, g
-------------------------------------------------------------------------------
(* Writes that fail.  What is in the file is anybody's guess, but it is    *)
(* cells, and the buffer is whole or gone.                                 *)

LEMMA PendingType ==
    ASSUME NEW f, Sized(f), NEW s \in Seq(Cells)
    PROVE  Pending(f, s) \in Seq(Cells) /\ Chunk(f, s) \in Nat
<1>1. BlockSize \in Nat \ {0}
  BY BlockSizeAssumption
<1>2. CASE Buffered(f)
  <2> DEFINE held == SubSeq(f.buffer, 1, ModPos(f))
             w == held \o s
             n == Len(w) \div BlockSize
  <2>1. held \in Seq(Cells)
    BY <1>2, SizedBuffer
  <2>2. w \in Seq(Cells)
    BY <2>1, ConcatType
  <2>3. Pending(f, s) = SubSeq(w, 1, n * BlockSize)
    BY <1>2 DEF Pending
  <2> HIDE DEF w, held
  <2>4. Len(w) \in Nat
    BY <2>2
  <2>5. n * BlockSize \in 0 .. Len(w)
    <3>1. /\ Len(w) % BlockSize \in 0 .. BlockSize - 1
          /\ n * BlockSize \in Nat /\ n * BlockSize + (Len(w) % BlockSize) = Len(w)
      BY <1>1, <2>4, DivMod
    <3> HIDE DEF n
    <3> QED BY <2>4, <3>1
  <2> HIDE DEF n
  <2>6. SubSeq(w, 1, n * BlockSize) \in Seq(Cells)
    BY <2>2, <2>5, FirstCells
  <2> QED BY <1>1, <1>2, <2>3, <2>6 DEF Chunk
<1>3. CASE ~Buffered(f)
  BY <1>3 DEF Pending, Chunk
<1> QED BY <1>2, <1>3

LEMMA LosingSized ==
    ASSUME NEW f, Sized(f), NEW s \in Seq(Cells), NEW k \in Nat \ {0},
           k * Chunk(f, s) <= Len(Pending(f, s))
    PROVE  Sized(Losing(f, s, k))
<1> DEFINE p == Pending(f, s)
           c == Chunk(f, s)
           left == SubSeq(p, 1, (k - 1) * c) \o SubSeq(p, k * c + 1, Len(p))
           q == QWrite(f, left)
           held == SubSeq(f.buffer, 1, ModPos(f))
           b == IF Buffered(f) THEN AfterBlocks(f, held \o s) ELSE << >>
           e == IF Buffered(f) THEN f.bufpos + Len(s) ELSE f.bufpos
           g == Losing(f, s, k)
<1>1. f \in FileType /\ f.bufpos \in Nat /\ Len(s) \in Nat /\ << >> \in Seq(Cells)
  BY DEF Sized, FileType
<1>2. p \in Seq(Cells) /\ c \in Nat /\ k * c <= Len(p)
  BY PendingType
<1>3. g = [q EXCEPT !.bufpos = e, !.buffer = b]
  BY DEF Losing
<1> HIDE DEF p, c, g
<1>4. Len(p) \in Nat
  BY <1>2
<1>5. k * c \in 0 .. Len(p) /\ (k - 1) * c \in 0 .. Len(p)
  <2>1. k * c \in Nat /\ (k - 1) * c \in Nat /\ (k - 1) * c = k * c - c
    BY <1>2
  <2> QED BY <2>1, <1>2, <1>4
<1>6. SubSeq(p, 1, (k - 1) * c) \in Seq(Cells)
  <2> DEFINE i == (k - 1) * c
  <2>1. i \in 0 .. Len(p)
    BY <1>5
  <2> HIDE DEF i
  <2>2. SubSeq(p, 1, i) \in Seq(Cells)
    BY <1>2, <2>1, FirstCells
  <2> QED BY <2>2 DEF i
<1>7. SubSeq(p, k * c + 1, Len(p)) \in Seq(Cells)
  <2> DEFINE i == k * c
  <2>1. i \in 0 .. Len(p)
    BY <1>5
  <2> HIDE DEF i
  <2>2. SubSeq(p, i + 1, Len(p)) \in Seq(Cells)
    BY <1>2, <2>1, LastCells
  <2> QED BY <2>2 DEF i
<1>8. left \in Seq(Cells)
  BY <1>6, <1>7, ConcatType
<1> HIDE DEF left
<1>9. q \in FileType
  BY <1>1, <1>8, QWriteFields
<1>10. b \in Seq(Cells) /\ Len(b) \in {0, BlockSize}
  <2>1. CASE Buffered(f)
    <3>1. held \in Seq(Cells) /\ Len(f.buffer) = BlockSize
      BY <2>1, SizedBuffer
    <3> HIDE DEF held
    <3>2. held \o s \in Seq(Cells)
      BY <3>1, ConcatType
    <3> QED BY <1>1, <2>1, <3>1, <3>2, AfterBlocksOK
  <2>2. CASE ~Buffered(f)
    BY <2>2, <1>1
  <2> QED BY <2>1, <2>2
<1>11. e \in Nat
  BY <1>1
<1> HIDE DEF q, b, e
<1>12. g \in FileType /\ g.buffer = b
  BY <1>3, <1>9, <1>10, <1>11 DEF FileType
<1> QED BY <1>10, <1>12 DEF Sized, g

LEMMA ShortSized ==
    ASSUME NEW f, Sized(f), NEW s \in Seq(Cells), NEW k \in Nat \ {0},
           k * Chunk(f, s) <= Len(Pending(f, s)), NEW n \in 0 .. Chunk(f, s) - 1
    PROVE  Sized(Short(f, s, k, n))
<1> DEFINE p == Pending(f, s)
           c == Chunk(f, s)
           i == (k - 1) * c + n
           q == QWrite(f, SubSeq(p, 1, i))
           e == IF Buffered(f) THEN f.bufpos + Len(s) ELSE f.bufpos
           g == Short(f, s, k, n)
<1>1. f \in FileType /\ Len(f.buffer) \in {0, BlockSize} /\ f.bufpos \in Nat /\ Len(s) \in Nat
  BY DEF Sized, FileType
<1>2. p \in Seq(Cells) /\ c \in Nat /\ k * c <= Len(p) /\ n \in 0 .. c - 1
  BY PendingType
<1>3. g = [q EXCEPT !.bufpos = e]
  BY DEF Short
<1> HIDE DEF p, c, g
<1>4. Len(p) \in Nat
  BY <1>2
<1>5. i \in 0 .. Len(p)
  <2>1. k * c \in Nat /\ (k - 1) * c \in Nat /\ (k - 1) * c = k * c - c
    BY <1>2
  <2> QED BY <2>1, <1>2, <1>4
<1> HIDE DEF i
<1>6. SubSeq(p, 1, i) \in Seq(Cells)
  BY <1>2, <1>5, FirstCells
<1>7. q \in FileType /\ q.buffer = f.buffer
  BY <1>1, <1>6, QWriteFields
<1>8. e \in Nat
  BY <1>1
<1> HIDE DEF q, e
<1>9. g \in FileType /\ g.buffer = f.buffer
  BY <1>3, <1>7, <1>8 DEF FileType
<1> QED BY <1>1, <1>9 DEF Sized, g

LEMMA ClosedSized ==
    ASSUME NEW f, Sized(f), NEW lost \in BOOLEAN
    PROVE  Sized(Closed(f, lost))
<1>1. f \in FileType /\ f.disk \in Seq(Cells) /\ f.fpos \in Nat /\ << >> \in Seq(Cells) /\ Len(<< >>) = 0
  BY DEF Sized, FileType
<1>2. CASE ~f.open
  BY <1>2 DEF Closed
<1>3. CASE f.open /\ lost
  <2> DEFINE g == [f EXCEPT !.open = FALSE, !.buffer = << >>]
  <2>1. g \in FileType /\ g.buffer = << >>
    BY <1>1 DEF FileType
  <2>2. Closed(f, lost) = g
    BY <1>3 DEF Closed
  <2> HIDE DEF g
  <2> QED BY <1>1, <2>1, <2>2 DEF Sized
<1>4. CASE f.open /\ ~lost
  <2> DEFINE h == IF Buffered(f) THEN FlushBuffFile(f) ELSE f
             g == CloseBuffFile(f)
  <2>1. h \in FileType /\ Len(h.buffer) \in {0, BlockSize}
    <3>1. CASE Buffered(f)
      <4> DEFINE q == QWrite(f, SubSeq(f.buffer, 1, ModPos(f)))
      <4>1. q \in FileType
        BY <1>1, <3>1, SizedBuffer, QWriteFields
      <4>2. h = [q EXCEPT !.buffer = << >>]
        BY <3>1 DEF FlushBuffFile
      <4> HIDE DEF q, h
      <4>3. h \in FileType /\ h.buffer = << >>
        BY <1>1, <4>1, <4>2 DEF FileType
      <4> QED BY <1>1, <4>3
    <3>2. CASE ~Buffered(f)
      BY <3>2 DEF Sized
    <3> QED BY <3>1, <3>2
  <2>2. g = [h EXCEPT !.open = FALSE]
    BY DEF CloseBuffFile
  <2>3. Closed(f, lost) = g
    BY <1>4 DEF Closed
  <2> HIDE DEF h, g
  <2>4. g \in FileType /\ g.buffer = h.buffer
    BY <2>1, <2>2 DEF FileType
  <2> QED BY <2>1, <2>3, <2>4 DEF Sized
<1> QED BY <1>2, <1>3, <1>4

LEMMA ClosedWhole ==
    ASSUME NEW f, Whole(f)
    PROVE  /\ Whole(Closed(f, FALSE))
           /\ Image(Closed(f, FALSE)) = Image(f) /\ Position(Closed(f, FALSE)) = Position(f)
  BY CloseOK DEF Closed
-------------------------------------------------------------------------------
(* The inductive invariant.                                                *)

Phases == {"load", "write", "closed", "cleanup", "done"}

\* An abandoned link has reported an error; nothing is deleted before the end.
StageOK ==
    /\ curr \in Files /\ phase \in Phases /\ linkError \in BOOLEAN /\ deleted \in SUBSET Files
    /\ phase = "cleanup" => linkError
    /\ phase # "done" => deleted = {}

\* Before they are opened the files are untouched; until an error is reported
\* they are whole.
FilesOK ==
    /\ DOMAIN file = Files /\ file = [f \in Files |-> file[f]]
    /\ \A f \in Files : Sized(file[f])
    /\ phase = "load" => file = [f \in Files |-> InitBuffFile]
    /\ ~linkError => \A f \in Files : Whole(file[f])

IInv == StageOK /\ FilesOK

LEMMA InitInv == Init => IInv
<1> SUFFICES ASSUME Init PROVE IInv
  OBVIOUS
<1>1. \A f \in Files : file[f] = InitBuffFile
  BY DEF Init
<1>2. Whole(InitBuffFile) /\ Sized(InitBuffFile)
  BY InitOK DEF Whole
<1>3. FilesOK
  BY <1>1, <1>2 DEF Init, FilesOK
<1> QED BY <1>3 DEF Init, IInv, StageOK, Phases

LEMMA OpenOutFilesInv == ASSUME IInv, OpenOutFiles PROVE IInv'
<1>1. /\ file = [f \in Files |-> InitBuffFile] /\ curr \in Files /\ deleted = {}
      /\ curr' = curr /\ deleted' = deleted
  BY DEF IInv, StageOK, FilesOK, OpenOutFiles
<1>2. /\ Whole(InitBuffFile) /\ Sized(InitBuffFile)
      /\ Whole(OpenBuffFile(InitBuffFile)) /\ Sized(OpenBuffFile(InitBuffFile))
  BY InitOK DEF Whole
<1>3. CASE /\ file' = [f \in Files |-> OpenBuffFile(file[f])] /\ phase' = "write"
           /\ UNCHANGED linkError
  <2>1. \A f \in Files : file'[f] = OpenBuffFile(InitBuffFile)
    BY <1>1, <1>3
  <2>2. FilesOK'
    BY <1>2, <1>3, <2>1 DEF FilesOK
  <2> QED BY <1>1, <1>3, <2>2 DEF IInv, StageOK, Phases
<1>4. CASE /\ MayFail /\ linkError' = TRUE /\ phase' = "cleanup"
           /\ \E opened \in SUBSET Files \ {Files} :
                file' = [f \in Files |-> IF f \in opened THEN OpenBuffFile(file[f]) ELSE file[f]]
  <2>1. PICK opened \in SUBSET Files : file' = [f \in Files |-> IF f \in opened THEN OpenBuffFile(file[f]) ELSE file[f]]
    BY <1>4
  <2>2. \A f \in Files : file'[f] \in {InitBuffFile, OpenBuffFile(InitBuffFile)}
    BY <1>1, <2>1
  <2>3. \A f \in Files : Sized(file'[f])
    BY <1>2, <2>2
  <2>4. FilesOK'
    BY <1>4, <2>1, <2>3 DEF FilesOK
  <2> QED BY <1>1, <1>4, <2>4 DEF IInv, StageOK, Phases
<1> QED BY <1>3, <1>4 DEF OpenOutFiles

LEMMA SetOriginInv == ASSUME IInv, SetOrigin PROVE IInv'
<1> DEFINE g == SetOriginLoad(file[curr], Position(file[curr]))
<1>1. /\ curr \in Files /\ Whole(file[curr]) /\ Buffered(file[curr]) /\ phase = "write" /\ ~linkError
      /\ file' = [file EXCEPT ![curr] = g] /\ UNCHANGED <<curr, phase, linkError, deleted>>
  BY DEF IInv, StageOK, FilesOK, SetOrigin, Writing
<1>2. Whole(g)
  BY <1>1, SetOriginOK
<1> HIDE DEF g
<1>3. \A f \in Files : Whole(file'[f]) /\ Sized(file'[f])
  BY <1>1, <1>2 DEF IInv, FilesOK, Whole
<1>4. FilesOK'
  BY <1>1, <1>3 DEF IInv, FilesOK
<1> QED BY <1>1, <1>4 DEF IInv, StageOK

\* A request leaves a whole file, or an error and one that is at least sized.
LEMMA OutcomeInv ==
    ASSUME IInv, Writing, NEW s \in Seq(Cells), NEW whole, Whole(whole), Outcome(s, whole),
           UNCHANGED <<curr, deleted>>
    PROVE  IInv'
<1>1. /\ curr \in Files /\ Sized(file[curr]) /\ phase = "write" /\ ~linkError /\ deleted = {}
      /\ DOMAIN file = Files /\ \A f \in Files : Sized(file[f]) /\ Whole(file[f])
  BY DEF IInv, StageOK, FilesOK, Writing
<1>2. CASE file' = [file EXCEPT ![curr] = whole] /\ UNCHANGED <<linkError, phase>>
  <2>1. \A f \in Files : Whole(file'[f]) /\ Sized(file'[f])
    BY <1>1, <1>2 DEF Whole
  <2>2. FilesOK'
    BY <1>1, <1>2, <2>1 DEF IInv, FilesOK
  <2> QED BY <1>1, <1>2, <2>2 DEF IInv, StageOK
<1>3. CASE /\ MayFail /\ linkError' = TRUE
           /\ \E k \in 1 .. MaxLen :
                /\ k * Chunk(file[curr], s) <= Len(Pending(file[curr], s)) /\ s # << >>
                /\ \/ file' = [file EXCEPT ![curr] = Losing(@, s, k)] /\ UNCHANGED phase
                   \/ /\ \E n \in 0 .. Chunk(file[curr], s) - 1 :
                            file' = [file EXCEPT ![curr] = Short(@, s, k, n)]
                      /\ phase' = "cleanup"
  <2>1. PICK k \in 1 .. MaxLen :
                /\ k * Chunk(file[curr], s) <= Len(Pending(file[curr], s))
                /\ \/ file' = [file EXCEPT ![curr] = Losing(@, s, k)] /\ UNCHANGED phase
                   \/ /\ \E n \in 0 .. Chunk(file[curr], s) - 1 :
                            file' = [file EXCEPT ![curr] = Short(@, s, k, n)]
                      /\ phase' = "cleanup"
    BY <1>3
  <2>2. k \in Nat \ {0}
    OBVIOUS
  <2>3. phase' \in {"write", "cleanup"} /\ DOMAIN file' = Files /\ file' = [f \in Files |-> file'[f]]
    BY <1>1, <2>1 DEF IInv, FilesOK
  <2>4. \A f \in Files : Sized(file'[f])
    <3>1. CASE file' = [file EXCEPT ![curr] = Losing(@, s, k)]
      <4>1. Sized(Losing(file[curr], s, k))
        BY <1>1, <2>1, <2>2, LosingSized
      <4> QED BY <1>1, <3>1, <4>1
    <3>2. CASE \E n \in 0 .. Chunk(file[curr], s) - 1 : file' = [file EXCEPT ![curr] = Short(@, s, k, n)]
      <4>1. PICK n \in 0 .. Chunk(file[curr], s) - 1 : file' = [file EXCEPT ![curr] = Short(@, s, k, n)]
        BY <3>2
      <4>2. Sized(Short(file[curr], s, k, n))
        BY <1>1, <2>1, <2>2, ShortSized
      <4> QED BY <1>1, <4>1, <4>2
    <3> QED BY <2>1, <3>1, <3>2
  <2>5. FilesOK'
    BY <1>3, <2>3, <2>4 DEF FilesOK
  <2> QED BY <1>1, <1>3, <2>3, <2>5 DEF IInv, StageOK, Phases
<1> QED BY <1>2, <1>3 DEF Outcome

\* Closing: the files that were written well stay so; the others are lost.
LEMMA CloseOutFilesOK ==
    ASSUME IInv, CloseOutFiles, phase' # "load"
    PROVE  FilesOK' /\ linkError' \in BOOLEAN /\ (linkError => linkError')
<1>1. /\ linkError \in BOOLEAN /\ \A f \in Files : Sized(file[f])
      /\ ~linkError => \A f \in Files : Whole(file[f])
  BY DEF IInv, StageOK, FilesOK
<1>2. PICK lost \in SUBSET Files :
         /\ file' = [f \in Files |-> Closed(file[f], f \in lost)]
         /\ linkError' = (linkError \/ lost # {})
  BY DEF CloseOutFiles
<1>3. \A f \in Files : Sized(file'[f])
  <2> TAKE f \in Files
  <2> DEFINE gone == f \in lost
  <2>1. file'[f] = Closed(file[f], gone) /\ gone \in BOOLEAN
    BY <1>2
  <2> HIDE DEF gone
  <2> QED BY <1>1, <2>1, ClosedSized
<1>4. ~linkError' => \A f \in Files : Whole(file'[f])
  <2> SUFFICES ASSUME ~linkError', NEW f \in Files PROVE Whole(file'[f])
    OBVIOUS
  <2>1. lost = {} /\ ~linkError
    BY <1>1, <1>2
  <2> DEFINE gone == f \in lost
  <2>2. file'[f] = Closed(file[f], gone) /\ gone = FALSE
    BY <1>2, <2>1
  <2> HIDE DEF gone
  <2>3. Whole(file[f])
    BY <1>1, <2>1
  <2> QED BY <2>2, <2>3, ClosedWhole
<1>5. FilesOK'
  BY <1>2, <1>3, <1>4 DEF FilesOK
<1> QED BY <1>1, <1>2, <1>5

LEMMA FiniLoadFileInv == ASSUME IInv, FiniLoadFile PROVE IInv'
<1>1. phase' = "closed" /\ UNCHANGED <<curr, deleted>> /\ CloseOutFiles /\ phase = "write"
  BY DEF FiniLoadFile
<1>2. FilesOK' /\ linkError' \in BOOLEAN
  BY <1>1, CloseOutFilesOK
<1> QED BY <1>1, <1>2 DEF IInv, StageOK, Phases

LEMMA FreeOutFilesInv == ASSUME IInv, FreeOutFiles PROVE IInv'
<1>1. /\ phase' = "done" /\ curr' = curr /\ CloseOutFiles
      /\ deleted' = IF linkError' THEN Files ELSE {}
  BY DEF FreeOutFiles
<1>2. FilesOK' /\ linkError' \in BOOLEAN
  BY <1>1, CloseOutFilesOK
<1> QED BY <1>1, <1>2 DEF IInv, StageOK, Phases

LEMMA WriteInv ==
    ASSUME IInv, NEW s \in Seq(Cells), Write(s)
    PROVE  IInv'
<1> DEFINE g == WriteLoad(file[curr], s)
<1>1. Writing /\ Outcome(s, g) /\ UNCHANGED <<curr, deleted>>
  BY DEF Write, Put
<1>2. Whole(file[curr])
  BY <1>1 DEF IInv, StageOK, FilesOK, Writing
<1>3. Whole(g)
  BY <1>2, WriteLoadOK
<1> HIDE DEF g
<1> QED BY <1>1, <1>3, OutcomeInv

LEMMA PadInv ==
    ASSUME IInv, NEW n \in Nat, Pad(n)
    PROVE  IInv'
<1> DEFINE g == PadLoad(file[curr], n)
           s == PadCells(n)
<1>1. Writing /\ Outcome(s, g) /\ UNCHANGED <<curr, deleted>>
  BY DEF Pad, Put
<1>2. curr \in Files /\ Whole(file[curr])
  BY <1>1 DEF IInv, StageOK, FilesOK, Writing
<1>3. s \in Seq(Cells) /\ g = WriteLoad(file[curr], s)
  BY <1>2, PadCellsOK
<1>4. Whole(g)
  BY <1>2, <1>3, WriteLoadOK
<1> HIDE DEF g, s
<1> QED BY <1>1, <1>3, <1>4, OutcomeInv

\* NullAlign asks for a padding it can get.
LEMMA AlignIsPad ==
    ASSUME IInv, NEW n \in Nat \ {0}, Align(n)
    PROVE  \E m \in Nat : Pad(m)
<1> DEFINE p == PosLoad(file[curr])
           m == AlignPad(p, n)
<1>1. curr \in Files /\ Sized(file[curr])
  BY DEF IInv, StageOK, FilesOK
<1>2. p \in Int
  BY <1>1, ImageType DEF PosLoad
<1> HIDE DEF p
<1>3. m \in Nat
  BY <1>2, AlignPadType
<1>4. Pad(m)
  BY DEF Align, m, p
<1> HIDE DEF m
<1> QED BY <1>3, <1>4

LEMMA SeekInv ==
    ASSUME IInv, NEW offset \in Nat, Seek(offset)
    PROVE  IInv'
<1> DEFINE f == file[curr]
           to == offset + f.origin
           g == SeekLoad(f, offset)
           s == Skipped(f, to - f.bufpos)
<1>1. Writing /\ UNCHANGED <<curr, deleted>>
  BY DEF Seek
<1>2. IF Buffered(f) /\ to >= f.bufpos THEN Outcome(s, g) ELSE Outcome(<< >>, g)
  BY DEF Seek
<1>3. Whole(f) /\ Sized(f)
  BY <1>1 DEF IInv, StageOK, FilesOK, Writing, Whole
<1>4. to \in Nat /\ f.bufpos \in Nat
  BY <1>3 DEF Sized, FileType
<1>5. Whole(g)
  BY <1>3, SeekLoadOK
<1>6. CASE Buffered(f) /\ to >= f.bufpos
  <2>1. to - f.bufpos \in Nat
    BY <1>4, <1>6
  <2>2. s \in Seq(Cells)
    BY <1>3, <1>6, <2>1, SkippedOK
  <2>3. Outcome(s, g)
    BY <1>2, <1>6
  <2> HIDE DEF s, g
  <2> QED BY <1>1, <1>5, <2>2, <2>3, OutcomeInv
<1>7. CASE ~(Buffered(f) /\ to >= f.bufpos)
  <2>1. Outcome(<< >>, g) /\ << >> \in Seq(Cells)
    BY <1>2, <1>7
  <2> HIDE DEF g
  <2> QED BY <1>1, <1>5, <2>1, OutcomeInv
<1> QED BY <1>6, <1>7

LEMMA SeekEndInv ==
    ASSUME IInv, NEW offset \in Nat, SeekEnd(offset)
    PROVE  IInv'
<1> DEFINE g == SeekEndLoad(file[curr], offset)
<1>1. /\ Writing /\ file' = [file EXCEPT ![curr] = g]
      /\ UNCHANGED <<curr, phase, linkError, deleted>>
  BY DEF SeekEnd
<1>2. curr \in Files /\ Whole(file[curr])
  BY <1>1 DEF IInv, StageOK, FilesOK, Writing
<1>3. Whole(g)
  BY <1>2, SeekEndLoadOK
<1> HIDE DEF g
<1>4. phase = "write" /\ ~linkError
  BY <1>1 DEF Writing
<1>5. \A f \in Files : Whole(file'[f]) /\ Sized(file'[f])
  BY <1>1, <1>2, <1>3, <1>4 DEF IInv, FilesOK, Whole
<1>6. FilesOK'
  BY <1>1, <1>4, <1>5 DEF IInv, FilesOK
<1> QED BY <1>1, <1>6 DEF IInv, StageOK

\* Steps that leave the files alone.
LEMMA OtherInv ==
    ASSUME IInv, Switch \/ Error \/ CheckErr
    PROVE  IInv'
<1>1. file' = file /\ deleted' = deleted /\ phase # "done"
  BY DEF Switch, Writing, Error, CheckErr
<1>2. curr' \in Files /\ phase' \in Phases /\ linkError' \in BOOLEAN /\ (linkError => linkError')
  BY DEF IInv, StageOK, Phases, Switch, Writing, Error, CheckErr
<1>3. (phase' = "load" => phase = "load") /\ (phase' = "cleanup" => linkError')
  BY DEF IInv, StageOK, Switch, Writing, Error, CheckErr
<1>4. FilesOK'
  BY <1>1, <1>2, <1>3 DEF IInv, FilesOK
<1>5. StageOK'
  BY <1>1, <1>2, <1>3 DEF IInv, StageOK
<1> QED BY <1>4, <1>5 DEF IInv

\* The requests, with what Next says of their sizes.
LEMMA Sizes ==
    /\ \A n \in 1 .. MaxLen : n \in Nat \ {0}
    /\ \A n \in 0 .. MaxLen : n \in Nat
    /\ \A n \in 1 .. MaxLen : \A s \in [1 .. n -> Data] : s \in Seq(Cells)
<1>1. \A n \in 1 .. MaxLen : n \in Nat \ {0}
  OBVIOUS
<1>2. ASSUME NEW n \in 1 .. MaxLen, NEW s \in [1 .. n -> Data] PROVE s \in Seq(Cells)
  <2>1. s \in [1 .. n -> Cells] /\ n \in Nat
    BY DEF Cells
  <2> QED BY <2>1, FunctionIsSeq
<1> QED BY <1>1, <1>2

LEMMA NextInv == ASSUME IInv, [Next]_vars PROVE IInv'
<1>1. CASE OpenOutFiles
  BY <1>1, OpenOutFilesInv
<1>2. CASE SetOrigin
  BY <1>2, SetOriginInv
<1>3. CASE Switch \/ Error \/ CheckErr
  BY <1>3, OtherInv
<1>4. ASSUME NEW n \in 1 .. MaxLen, NEW s \in [1 .. n -> Data], Write(s) PROVE IInv'
  BY <1>4, Sizes, WriteInv
<1>5. ASSUME NEW n \in 0 .. MaxLen, Pad(n) PROVE IInv'
  BY <1>5, Sizes, PadInv
<1>6. ASSUME NEW n \in 1 .. MaxLen, Align(n) PROVE IInv'
  BY <1>6, Sizes, AlignIsPad, PadInv
<1>7. ASSUME NEW offset \in 0 .. maxPos[curr], Seek(offset) PROVE IInv'
  BY <1>7, SeekInv
<1>8. ASSUME NEW offset \in 0 .. MaxLen, SeekEnd(offset) PROVE IInv'
  BY <1>8, SeekEndInv
<1>9. CASE FiniLoadFile
  BY <1>9, FiniLoadFileInv
<1>10. CASE FreeOutFiles
  BY <1>10, FreeOutFilesInv
<1>11. CASE UNCHANGED vars
  BY <1>11 DEF vars, IInv, StageOK, FilesOK
<1> QED BY <1>1, <1>2, <1>3, <1>4, <1>5, <1>6, <1>7, <1>8, <1>9, <1>10, <1>11 DEF Next

\* TypeOK says the origin is behind the position, as PosLoad shows it.
LEMMA InvTyped == IInv => TypeOK
<1> SUFFICES ASSUME IInv PROVE TypeOK
  OBVIOUS
<1>1. file \in [Files -> FileType] /\ \A f \in Files : Len(file[f].buffer) \in {0, BlockSize}
  BY DEF IInv, FilesOK, Sized
<1>2. ~linkError => \A f \in Files : PosLoad(file[f]) >= 0
  <2> SUFFICES ASSUME ~linkError, NEW f \in Files PROVE PosLoad(file[f]) >= 0
    OBVIOUS
  <2>1. Whole(file[f]) /\ Sized(file[f])
    BY DEF IInv, FilesOK
  <2>2. Position(file[f]) \in Nat /\ file[f].origin \in Nat
    BY <2>1, ImageType
  <2> QED BY <2>1, <2>2 DEF Whole, PosLoad
<1> QED BY <1>1, <1>2 DEF IInv, StageOK, Phases, TypeOK

\* Every variable keeps its type, a buffer is whole or gone (WriteBuffer,
\* FlushBuffFile), and until an error is reported PosLoad tells no caller a
\* position before the origin.
THEOREM FilesTyped == Spec => []TypeOK
<1>1. Spec => []IInv
  BY InitInv, NextInv, PTL DEF Spec
<1> QED BY <1>1, InvTyped, PTL
-------------------------------------------------------------------------------
(* LoadFile implements SeekFile.                                           *)

\* The images, positions and states of the files, as SeekFile sees them.
Images == [f \in Files |-> Image(file[f])]
Places == [f \in Files |-> Position(file[f])]
Status == [f \in Files |-> IF f \in deleted THEN "deleted"
                           ELSE IF phase = "done" THEN "kept"
                           ELSE IF phase = "load" THEN "absent" ELSE "open"]

LEMMA InitMaps == Init => Store!Init
<1> SUFFICES ASSUME Init PROVE Store!Init
  OBVIOUS
<1>1. \A f \in Files : file[f] = InitBuffFile /\ f \notin deleted
  BY DEF Init
<1>2. phase = "load" /\ linkError = FALSE /\ request = [op |-> "none"]
  BY DEF Init
<1>3. [f \in Files |-> Image(file[f])] = [f \in Files |-> << >>]
  BY <1>1, InitOK
<1>4. [f \in Files |-> Position(file[f])] = [f \in Files |-> 0]
  BY <1>1, InitOK
<1>5. Status = [f \in Files |-> "absent"]
  BY <1>1, <1>2 DEF Status
<1> QED BY <1>2, <1>3, <1>4, <1>5 DEF Store!Init, Store!NoRequest, Status

\* A reported error: nothing becomes a file the link keeps.
LEMMA FailMaps ==
    ASSUME IInv, [Next]_vars, linkError'
    PROVE  Store!Fail \/ UNCHANGED vars
<1>1. linkError' = TRUE
  BY NextInv DEF IInv, StageOK
<1>2. CASE FreeOutFiles
  <2>1. deleted' = Files
    BY <1>1, <1>2 DEF FreeOutFiles
  <2>2. \A f \in Files : Status'[f] # "kept"
    BY <2>1 DEF Status
  <2> QED BY <1>1, <2>2 DEF Store!Fail, Status
<1>3. CASE phase' # "done"
  <2>1. \A f \in Files : Status'[f] # "kept"
    BY <1>3 DEF Status
  <2> QED BY <1>1, <2>1 DEF Store!Fail, Status
<1>4. CASE ~FreeOutFiles /\ phase' = "done"
  BY <1>4
  DEF Next, Switch, SetOrigin, Write, Pad, Align, Put, Outcome, Writing, Seek, SeekEnd, OpenOutFiles, Error, CheckErr,
      FiniLoadFile, vars
<1> QED BY <1>2, <1>3, <1>4

\* The requests on a file that is open.
LEMMA PutMaps ==
    ASSUME IInv, Writing, NEW s \in Seq(Cells),
           file' = [file EXCEPT ![curr] = file'[curr]], UNCHANGED <<phase, linkError, deleted>>,
           Laid(Image(file[curr]), Position(file[curr]), s, Image(file'[curr])),
           Position(file'[curr]) = Position(file[curr]) + Len(s)
    PROVE  Store!Put(curr, s)
<1>1. /\ curr \in Files /\ phase = "write" /\ deleted = {} /\ DOMAIN file = Files
  BY DEF IInv, StageOK, FilesOK, Writing
<1>2. Status = [f \in Files |-> "open"] /\ Status' = Status
  BY <1>1 DEF Status
<1>3. Places' = [Places EXCEPT ![curr] = Places[curr] + Len(s)]
  BY <1>1 DEF Places
<1>4. Images' = [Images EXCEPT ![curr] = Images'[curr]]
  BY <1>1 DEF Images
<1>5. /\ Places[curr] = Position(file[curr]) /\ Images[curr] = Image(file[curr])
      /\ Places'[curr] = Position(file[curr]) + Len(s) /\ Images'[curr] = Image(file'[curr])
  BY <1>1 DEF Places, Images
<1>6. /\ Len(Images'[curr]) = IF s # << >> /\ Places'[curr] > Len(Images[curr]) THEN Places'[curr] ELSE Len(Images[curr])
      /\ \A i \in DOMAIN Images[curr] : i \notin Places[curr] + 1 .. Places'[curr] => Images'[curr][i] = Images[curr][i]
      /\ \A k \in DOMAIN s : Images'[curr][Places[curr] + k] = s[k]
  BY <1>5 DEF Laid
<1>7. Status[curr] = "open"
  BY <1>1, <1>2
<1>8. Status' = Status /\ linkError' = linkError
  BY <1>2
<1> QED BY <1>3, <1>4, <1>6, <1>7, <1>8 DEF Store!Put, Status, Images, Places

LEMMA MoveMaps ==
    ASSUME IInv, Writing, NEW p,
           file' = [file EXCEPT ![curr] = file'[curr]], UNCHANGED <<phase, linkError, deleted>>,
           Moved(Image(file[curr]), p, Image(file'[curr])),
           Position(file'[curr]) = p
    PROVE  Store!Move(curr, p)
<1>1. /\ curr \in Files /\ phase = "write" /\ deleted = {} /\ DOMAIN file = Files
  BY DEF IInv, StageOK, FilesOK, Writing
<1>2. Status = [f \in Files |-> "open"] /\ Status' = Status
  BY <1>1 DEF Status
<1>3. Places' = [Places EXCEPT ![curr] = p]
  BY <1>1 DEF Places
<1>4. Images' = [Images EXCEPT ![curr] = Images'[curr]]
  BY <1>1 DEF Images
<1>5. Images[curr] = Image(file[curr]) /\ Images'[curr] = Image(file'[curr])
  BY <1>1 DEF Images
<1>6. Store!IsPrefix(Images[curr], Images'[curr]) /\ Len(Images'[curr]) \in {Len(Images[curr]), p}
  BY <1>5 DEF Moved
<1>7. Status[curr] = "open"
  BY <1>1, <1>2
<1>8. Status' = Status /\ linkError' = linkError
  BY <1>2
<1> QED BY <1>3, <1>4, <1>6, <1>7, <1>8 DEF Store!Move, Status, Images, Places

\* A request whose writes succeed leaves what it was to leave.
LEMMA OutcomeWhole ==
    ASSUME IInv, NEW s, NEW whole, Writing, Outcome(s, whole), ~linkError'
    PROVE  /\ file' = [file EXCEPT ![curr] = whole] /\ file'[curr] = whole
           /\ file' = [file EXCEPT ![curr] = file'[curr]]
           /\ UNCHANGED <<linkError, phase>> /\ Whole(file[curr]) /\ curr \in Files /\ ~linkError
<1>1. curr \in Files /\ DOMAIN file = Files /\ ~linkError /\ Whole(file[curr])
  BY DEF IInv, StageOK, FilesOK, Writing
<1>2. file' = [file EXCEPT ![curr] = whole] /\ UNCHANGED <<linkError, phase>>
  BY DEF Outcome
<1> QED BY <1>1, <1>2

LEMMA WriteMaps ==
    ASSUME IInv, NEW s \in Seq(Cells), Write(s), ~linkError'
    PROVE  Store!Next
<1> DEFINE g == WriteLoad(file[curr], s)
<1>1. Writing /\ Outcome(s, g) /\ UNCHANGED <<curr, deleted>>
      /\ request' = [op |-> "write", file |-> curr, cells |-> s]
  BY DEF Write, Put
<1> HIDE DEF g
<1>2. /\ file'[curr] = g /\ file' = [file EXCEPT ![curr] = file'[curr]]
      /\ UNCHANGED <<linkError, phase>> /\ Whole(file[curr]) /\ curr \in Files /\ ~linkError
  BY <1>1, OutcomeWhole
<1>3. /\ Laid(Image(file[curr]), Position(file[curr]), s, Image(file'[curr]))
      /\ Position(file'[curr]) = Position(file[curr]) + Len(s)
  BY <1>2, WriteLoadOK DEF g
<1>4. Store!Put(curr, s)
  BY <1>1, <1>2, <1>3, PutMaps
<1>5. Store!Write(curr)
  BY <1>1, <1>4 DEF Store!Write
<1> QED BY <1>2, <1>5 DEF Store!Next

LEMMA PadMaps ==
    ASSUME IInv, NEW n \in Nat, Pad(n), ~linkError'
    PROVE  Store!Next
<1> DEFINE g == PadLoad(file[curr], n)
           s == PadCells(n)
<1>1. Writing /\ Outcome(s, g) /\ UNCHANGED <<curr, deleted>>
      /\ request' = [op |-> "pad", file |-> curr, size |-> n]
  BY DEF Pad, Put
<1> HIDE DEF g, s
<1>2. /\ file'[curr] = g /\ file' = [file EXCEPT ![curr] = file'[curr]]
      /\ UNCHANGED <<linkError, phase>> /\ Whole(file[curr]) /\ curr \in Files /\ ~linkError
  BY <1>1, OutcomeWhole
<1>3. /\ s \in Seq(Cells) /\ Len(s) = n /\ g = WriteLoad(file[curr], s)
      /\ \E c \in {FillChar, Zero} : s = [i \in 1 .. n |-> c]
  BY <1>2, PadCellsOK DEF g, s
<1>4. /\ Laid(Image(file[curr]), Position(file[curr]), s, Image(file'[curr]))
      /\ Position(file'[curr]) = Position(file[curr]) + Len(s)
  BY <1>2, <1>3, WriteLoadOK
<1>5. PICK t \in Seq(Cells) : t = s
  BY <1>3
<1>6. Store!Put(curr, t)
  BY <1>1, <1>2, <1>3, <1>4, <1>5, PutMaps
<1>7. PICK c \in {FillChar, Zero} : t = [i \in 1 .. n |-> c]
  BY <1>3, <1>5
<1>8. Store!Put(curr, [i \in 1 .. n |-> c])
  BY <1>6, <1>7
<1>9. Store!Pad(curr)
  BY <1>1, <1>8 DEF Store!Pad
<1> QED BY <1>2, <1>9 DEF Store!Next

LEMMA SeekMaps ==
    ASSUME IInv, NEW offset \in Nat, Seek(offset), ~linkError'
    PROVE  Store!Next
<1> DEFINE f == file[curr]
           to == offset + f.origin
           g == SeekLoad(f, offset)
           s == Skipped(f, to - f.bufpos)
<1>1. /\ Writing /\ UNCHANGED <<curr, deleted>>
      /\ request' = [op |-> "seek", file |-> curr, to |-> to]
  BY DEF Seek
<1>2. \E t : Outcome(t, g)
  <2>1. CASE Buffered(f) /\ to >= f.bufpos
    <3>1. Outcome(s, g)
      BY <2>1 DEF Seek
    <3> HIDE DEF s, g
    <3> QED BY <3>1
  <2>2. CASE ~(Buffered(f) /\ to >= f.bufpos)
    <3>1. Outcome(<< >>, g)
      BY <2>2 DEF Seek
    <3> HIDE DEF g
    <3> QED BY <3>1
  <2> QED BY <2>1, <2>2
<1>3. PICK t : Outcome(t, g)
  BY <1>2
<1> HIDE DEF g
<1>4. /\ file'[curr] = g /\ file' = [file EXCEPT ![curr] = file'[curr]]
      /\ UNCHANGED <<linkError, phase>> /\ Whole(f) /\ curr \in Files /\ ~linkError
  BY <1>1, <1>3, OutcomeWhole
<1>5. Moved(Image(f), to, Image(file'[curr])) /\ Position(file'[curr]) = to
  BY <1>4, SeekLoadOK DEF g
<1>6. PICK p : p = to
  OBVIOUS
<1>7. Store!Move(curr, p)
  BY <1>1, <1>4, <1>5, <1>6, MoveMaps
<1>8. request'.op = "seek" /\ request'.file = curr /\ request'.to = p
  BY <1>1, <1>6
<1>9. Store!Seek(curr)
  BY <1>7, <1>8 DEF Store!Seek
<1> QED BY <1>4, <1>9 DEF Store!Next

LEMMA SeekEndMaps ==
    ASSUME IInv, NEW offset \in Nat, SeekEnd(offset), ~linkError'
    PROVE  Store!Next
<1> DEFINE f == file[curr]
           g == SeekEndLoad(f, offset)
           to == Len(Image(f)) + offset
<1>1. /\ Writing /\ file' = [file EXCEPT ![curr] = g]
      /\ UNCHANGED <<curr, phase, linkError, deleted>>
      /\ request' = [op |-> "seekend", file |-> curr, to |-> offset]
  BY DEF SeekEnd
<1>2. curr \in Files /\ DOMAIN file = Files /\ Whole(f) /\ ~linkError /\ phase = "write"
  BY <1>1 DEF IInv, StageOK, FilesOK, Writing
<1>3. Moved(Image(f), to, Image(g)) /\ Position(g) = to
  BY <1>2, SeekEndLoadOK
<1> HIDE DEF g
<1>4. file'[curr] = g /\ file' = [file EXCEPT ![curr] = file'[curr]]
  BY <1>1, <1>2
<1>5. PICK p : p = to
  OBVIOUS
<1>6. Store!Move(curr, p)
  BY <1>1, <1>3, <1>4, <1>5, MoveMaps
<1>7. Images[curr] = Image(f)
  BY <1>2 DEF Images
<1>8. Store!Move(curr, Len(Images[curr]) + request'.to)
  BY <1>1, <1>5, <1>6, <1>7
<1>9. Store!SeekEnd(curr)
  BY <1>1, <1>8 DEF Store!SeekEnd, Images
<1> QED BY <1>2, <1>9 DEF Store!Next

LEMMA OpenMaps ==
    ASSUME IInv, OpenOutFiles, ~linkError'
    PROVE  Store!Next
<1>1. /\ phase = "load" /\ ~linkError /\ phase' = "write" /\ UNCHANGED <<linkError, deleted, request>>
      /\ file' = [f \in Files |-> OpenBuffFile(file[f])]
      /\ deleted = {} /\ file = [f \in Files |-> InitBuffFile]
  BY DEF OpenOutFiles, IInv, StageOK, FilesOK
<1>2. \A f \in Files : file[f] = InitBuffFile /\ file'[f] = OpenBuffFile(InitBuffFile)
  BY <1>1
<1>3. Images' = Images /\ Places' = Places
  BY <1>2, InitOK DEF Images, Places
<1>4. Status = [f \in Files |-> "absent"] /\ Status' = [f \in Files |-> "open"]
  BY <1>1 DEF Status
<1>5. Store!Open
  BY <1>1, <1>3, <1>4 DEF Store!Open, Images, Places, Status
<1> QED BY <1>1, <1>5 DEF Store!Next

\* Closing without a loss changes no image.
LEMMA CloseKeeps ==
    ASSUME IInv, CloseOutFiles, ~linkError'
    PROVE  Images' = Images /\ Places' = Places /\ ~linkError
<1>1. PICK lost \in SUBSET Files :
         /\ file' = [f \in Files |-> Closed(file[f], f \in lost)]
         /\ linkError' = (linkError \/ lost # {})
  BY DEF CloseOutFiles
<1>2. lost = {} /\ ~linkError
  BY <1>1
<1>3. \A f \in Files : Image(file'[f]) = Image(file[f]) /\ Position(file'[f]) = Position(file[f])
  <2> TAKE f \in Files
  <2> DEFINE gone == f \in lost
  <2>1. file'[f] = Closed(file[f], gone) /\ gone = FALSE
    BY <1>1, <1>2
  <2> HIDE DEF gone
  <2>2. Whole(file[f])
    BY <1>2 DEF IInv, FilesOK
  <2> QED BY <2>1, <2>2, ClosedWhole
<1> QED BY <1>2, <1>3 DEF Images, Places

LEMMA FiniMaps ==
    ASSUME IInv, FiniLoadFile, ~linkError'
    PROVE  UNCHANGED Store!vars
<1>1. /\ phase = "write" /\ CloseOutFiles /\ phase' = "closed" /\ UNCHANGED <<deleted, request>>
  BY DEF FiniLoadFile
<1>2. Images' = Images /\ Places' = Places /\ ~linkError
  BY <1>1, CloseKeeps
<1>3. linkError' = linkError
  <2>1. linkError \in BOOLEAN /\ linkError' \in BOOLEAN
    BY FiniLoadFileInv DEF IInv, StageOK
  <2> QED BY <1>2, <2>1
<1>4. Status' = Status
  BY <1>1 DEF Status
<1> QED BY <1>1, <1>2, <1>3, <1>4 DEF Store!vars, Images, Places, Status

LEMMA FreeMaps ==
    ASSUME IInv, FreeOutFiles, ~linkError'
    PROVE  Store!Keep
<1>1. /\ phase \in {"closed", "cleanup"} /\ CloseOutFiles /\ phase' = "done" /\ deleted' = {}
      /\ UNCHANGED request
  BY DEF FreeOutFiles
<1>2. Images' = Images /\ Places' = Places /\ ~linkError
  BY <1>1, CloseKeeps
<1>3. linkError' = linkError
  <2>1. linkError \in BOOLEAN /\ linkError' \in BOOLEAN
    BY FreeOutFilesInv DEF IInv, StageOK
  <2> QED BY <1>2, <2>1
<1>4. deleted = {}
  BY <1>1 DEF IInv, StageOK
<1>5. \A f \in Files : Status[f] # "deleted"
  BY <1>4 DEF Status
<1>6. Status' = [f \in Files |-> "kept"]
  BY <1>1 DEF Status
<1> QED BY <1>1, <1>2, <1>3, <1>5, <1>6 DEF Store!Keep, Images, Places, Status

LEMMA SetOriginMaps ==
    ASSUME IInv, SetOrigin, ~linkError'
    PROVE  UNCHANGED Store!vars
<1> DEFINE p == Position(file[curr])
           g == SetOriginLoad(file[curr], p)
<1>1. /\ curr \in Files /\ DOMAIN file = Files /\ Whole(file[curr]) /\ Buffered(file[curr])
      /\ file' = [file EXCEPT ![curr] = g] /\ UNCHANGED <<phase, linkError, deleted, request>>
  BY DEF IInv, StageOK, FilesOK, SetOrigin, Writing
<1>2. Image(g) = Image(file[curr]) /\ Position(g) = Position(file[curr])
  BY <1>1, SetOriginOK
<1> HIDE DEF g
<1>3. \A f \in Files : Image(file'[f]) = Image(file[f]) /\ Position(file'[f]) = Position(file[f])
  BY <1>1, <1>2
<1>4. Images' = Images /\ Places' = Places
  BY <1>3 DEF Images, Places
<1>5. Status' = Status
  BY <1>1 DEF Status
<1> QED BY <1>1, <1>4, <1>5 DEF Store!vars, Images, Places, Status

LEMMA SameMaps ==
    ASSUME UNCHANGED vars \/ Switch
    PROVE  UNCHANGED Store!vars
<1>1. UNCHANGED <<file, phase, linkError, deleted, request>>
  BY DEF vars, Switch
<1> QED BY <1>1 DEF Store!vars

LEMMA NextMaps == ASSUME IInv, [Next]_vars PROVE [Store!Next]_(Store!vars)
<1>1. CASE linkError'
  <2>1. Store!Fail \/ UNCHANGED vars
    BY <1>1, FailMaps
  <2> QED BY <2>1, SameMaps DEF Store!Next
<1>2. CASE ~linkError'
  <2>1. CASE OpenOutFiles
    BY <1>2, <2>1, OpenMaps
  <2>2. CASE SetOrigin
    BY <1>2, <2>2, SetOriginMaps
  <2>3. CASE UNCHANGED vars \/ Switch
    BY <2>3, SameMaps
  <2>4. ASSUME NEW n \in 1 .. MaxLen, NEW s \in [1 .. n -> Data], Write(s) PROVE Store!Next
    BY <1>2, <2>4, Sizes, WriteMaps
  <2>5. ASSUME NEW n \in 0 .. MaxLen, Pad(n) PROVE Store!Next
    BY <1>2, <2>5, Sizes, PadMaps
  <2>6. ASSUME NEW n \in 1 .. MaxLen, Align(n) PROVE Store!Next
    BY <1>2, <2>6, Sizes, AlignIsPad, PadMaps
  <2>7. ASSUME NEW offset \in 0 .. maxPos[curr], Seek(offset) PROVE Store!Next
    BY <1>2, <2>7, SeekMaps
  <2>8. ASSUME NEW offset \in 0 .. MaxLen, SeekEnd(offset) PROVE Store!Next
    BY <1>2, <2>8, SeekEndMaps
  <2>9. CASE FiniLoadFile
    BY <1>2, <2>9, FiniMaps
  <2>10. CASE FreeOutFiles
    BY <1>2, <2>10, FreeMaps DEF Store!Next
  <2>11. ASSUME CheckErr PROVE FALSE
    BY <1>2, <2>11 DEF CheckErr
  <2>12. ASSUME Error PROVE FALSE
    BY <1>2, <2>12 DEF Error
  <2> QED BY <2>1, <2>2, <2>3, <2>4, <2>5, <2>6, <2>7, <2>8, <2>9, <2>10, <2>11, <2>12 DEF Next
<1> QED BY <1>1, <1>2

\* The buffer cannot be seen: whatever mix of WriteLoad, PadLoad, NullAlign,
\* SeekLoad and SeekEndLoad the writers of the formats make, on any number of
\* files, with blocks of any size, and whichever write or open fails, the
\* files are those of SeekFile.
THEOREM BufferInvisible == Spec => ImplementsFile
<1>1. Spec => []IInv
  BY InitInv, NextInv, PTL DEF Spec
<1> QED BY <1>1, InitMaps, NextMaps, PTL DEF Spec, ImplementsFile, Store!Spec
===============================================================================
