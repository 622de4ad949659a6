------------------------------ MODULE VirtStore ------------------------------
(***************************************************************************)
(* What virtmem.c promises its callers, without memory, spill file or      *)
(* swapping: a set of storage units (4K pages and 32K subpages), each      *)
(* holding the cells last put there, read and written by requests that     *)
(* run from unit to unit.  VirtMem implements this specification.          *)
(***************************************************************************)
EXTENDS Naturals

CONSTANTS Units,       \* every unit an address can name
          After(_),    \* the unit that follows a unit in the address space
          Offsets,     \* offsets inside a unit
          MaxLen,      \* longest request
          Cell, Zero, Junk

VARIABLES size,        \* cells in each unit, 0 before it is allocated
          content,     \* the cells of each unit, Unset before the first use
          op,          \* the request being served, "idle" between requests
          cur, off,    \* where the request is
          len,         \* cells still to transfer
          pos,         \* cells transferred
          buf,         \* the caller's buffer
          same         \* the value CompareInfo returns

vars == <<size, content, op, cur, off, len, pos, buf, same>>
request == <<op, cur, off, len, pos, buf, same>>

\* The content of a unit nobody has used.
Unset == <<>>
Index == 0 .. MaxLen - 1

Init ==
    /\ size = [u \in Units |-> 0]
    /\ content = [u \in Units |-> Unset]
    /\ op = "idle" /\ cur \in Units /\ off = 0 /\ len = 0 /\ pos = 0
    /\ buf = [k \in Index |-> Junk] /\ same = TRUE

\* AllocStg: units that were free get a size, nothing else changes.
Allocate ==
    /\ op = "idle"
    /\ size' \in [Units -> Nat]
    /\ \A u \in Units : size[u] # 0 => size'[u] = size[u]
    /\ UNCHANGED <<content, request>>

\* ReadInfo, PutInfo, PutNulls, CompareInfo, and CopyInfo's two halves.
Begin ==
    /\ op = "idle"
    /\ op' \in {"load", "save", "null", "cmp", "copy"}
    /\ cur' \in Units /\ off' \in Nat /\ len' \in Nat
    /\ pos' = 0 /\ buf' \in [Index -> Cell] /\ same' = TRUE
    /\ UNCHANGED <<size, content>>

\* The second half of CopyInfo puts at the target what the first half read.
CopyBack ==
    /\ op = "copied"
    /\ op' = "save" /\ pos' = 0
    /\ cur' \in Units /\ off' \in Nat /\ len' \in Nat
    /\ UNCHANGED <<size, content, buf, same>>

\* First use of a unit: its cells are all zero, or unspecified.
FirstUse ==
    /\ op # "idle"
    /\ \E u \in Units, c \in {Zero, Junk} :
          /\ size[u] # 0 /\ content[u] = Unset
          /\ content' = [content EXCEPT ![u] = [i \in Offsets |-> IF i < size[u] THEN c ELSE Junk]]
    /\ UNCHANGED <<size, request>>

\* The cells of the current unit the request covers: all that is left of the
\* request, or up to the end of the unit.
Part == IF off + len <= size[cur] THEN len ELSE size[cur] - off

Moved(i) == i >= off /\ i < off + Part

Stored(i) == IF op = "null" THEN Zero ELSE buf[pos + i - off]

Matches == \A i \in Offsets : Moved(i) => content[cur][i] = buf[pos + i - off]

\* One turn of ScanNodes: the current unit's part of the request.
Transfer ==
    /\ op \in {"load", "save", "null", "cmp", "copy"}
    /\ content[cur] # Unset
    /\ content' = IF op \in {"save", "null"}
                  THEN [content EXCEPT ![cur] =
                          [i \in Offsets |-> IF Moved(i) THEN Stored(i) ELSE content[cur][i]]]
                  ELSE content
    /\ buf' = IF op \in {"load", "copy"}
              THEN [k \in Index |-> IF k >= pos /\ k < pos + Part
                                    THEN content[cur][k - pos + off] ELSE buf[k]]
              ELSE buf
    /\ same' = (op = "cmp" => Matches)
    /\ IF off + len <= size[cur] \/ ~same'
       THEN /\ op' = IF op = "copy" THEN "copied" ELSE "done"
            /\ UNCHANGED <<cur, off, len, pos>>
       ELSE /\ cur' = After(cur) /\ off' = 0
            /\ len' = len - Part /\ pos' = pos + Part
            /\ op' = op
    /\ UNCHANGED size

\* The request returns: its buffer and result are the caller's.
Idle ==
    /\ op' = "idle" /\ cur' \in Units /\ off' = 0 /\ len' = 0 /\ pos' = 0
    /\ buf' = [k \in Index |-> Junk] /\ same' = TRUE

Return == op = "done" /\ Idle /\ UNCHANGED <<size, content>>

\* The next link job, or a fatal error: no storage at all.
Relink ==
    /\ size' = [u \in Units |-> 0]
    /\ content' = [u \in Units |-> Unset]
    /\ Idle

Next == Allocate \/ Begin \/ CopyBack \/ FirstUse \/ Transfer \/ Return \/ Relink

Spec == Init /\ [][Next]_vars
==============================================================================
