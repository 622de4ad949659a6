------------------------------- MODULE SeekFile -------------------------------
(***************************************************************************)
(* What c/loadfile.c promises the writers of the formats: files one can    *)
(* write, pad and seek in as if there were no buffer, where a byte once    *)
(* written changes only when it is written again, and where a file the     *)
(* link keeps holds everything that was written to it.                     *)
(* What a seek beyond the end leaves in between is not promised.           *)
(***************************************************************************)
EXTENDS Naturals, Sequences, SequencesExt

CONSTANTS Files,
          Padding    \* the cells padding may consist of

VARIABLES image,     \* the content of each file
          at,        \* the position of each file
          status,    \* "absent", "open", "kept" or "deleted"
          failed,    \* an error was reported: the link keeps no file
          request    \* the last request: its kind, its file, its cells or position

vars == <<image, at, status, failed, request>>
NoRequest == [op |-> "none"]

Init ==
    /\ image = [f \in Files |-> << >>] /\ at = [f \in Files |-> 0]
    /\ status = [f \in Files |-> "absent"]
    /\ failed = FALSE /\ request = NoRequest

Open ==
    /\ status = [f \in Files |-> "absent"]
    /\ status' = [f \in Files |-> "open"]
    /\ UNCHANGED <<image, at, failed, request>>

\* The cells s go to the position of f, and nowhere else.
Put(f, s) ==
    /\ status[f] = "open"
    /\ at' = [at EXCEPT ![f] = at[f] + Len(s)]
    /\ image' = [image EXCEPT ![f] = image'[f]]
    /\ Len(image'[f]) = IF s # << >> /\ at'[f] > Len(image[f]) THEN at'[f] ELSE Len(image[f])
    /\ \A i \in DOMAIN image[f] : i \notin at[f] + 1 .. at'[f] => image'[f][i] = image[f][i]
    /\ \A k \in DOMAIN s : image'[f][at[f] + k] = s[k]
    /\ UNCHANGED <<status, failed>>

Write(f) ==
    /\ request'.op = "write" /\ request'.file = f
    /\ Put(f, request'.cells)

Pad(f) ==
    /\ request'.op = "pad" /\ request'.file = f
    /\ \E c \in Padding : Put(f, [i \in 1 .. request'.size |-> c])

\* A seek changes no byte; it may lengthen the file up to the new position.
Move(f, p) ==
    /\ status[f] = "open"
    /\ at' = [at EXCEPT ![f] = p]
    /\ image' = [image EXCEPT ![f] = image'[f]]
    /\ IsPrefix(image[f], image'[f])
    /\ Len(image'[f]) \in {Len(image[f]), p}
    /\ UNCHANGED <<status, failed>>

Seek(f) ==
    /\ request'.op = "seek" /\ request'.file = f
    /\ Move(f, request'.to)

SeekEnd(f) ==
    /\ request'.op = "seekend" /\ request'.file = f
    /\ Move(f, Len(image[f]) + request'.to)

\* A reported error; after it only one thing is promised: no file is kept.
Fail ==
    /\ failed' = TRUE
    /\ \A f \in Files : status'[f] = "kept" => status[f] = "kept"

Keep ==
    /\ ~failed /\ \A f \in Files : status[f] # "deleted"
    /\ status' = [f \in Files |-> "kept"]
    /\ UNCHANGED <<image, at, failed, request>>

Next ==
    \/ ~failed /\ (Open \/ \E f \in Files : Write(f) \/ Pad(f) \/ Seek(f) \/ SeekEnd(f))
    \/ Fail \/ Keep

Spec == Init /\ [][Next]_vars
===============================================================================
