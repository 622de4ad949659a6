------------------------------ MODULE MCFixups ------------------------------
(* Fixups with code in two groups, and far calls optimised, for TLC.         *)
EXTENDS Fixups

CallsAndOthers(f, s) ==
    {[op |-> o, kind |-> IF o = "push" THEN "none" ELSE "far", to |-> [seg |-> s, ext |-> TRUE],
      frame |-> "target", addend |-> 0] : o \in {"push", "call far"}}

(* The second group starts with a segment of four cells.                     *)
TwoCodeGroups(f) ==
    LET grp(seg, linear) == [seg |-> seg, off |-> 0, linear |-> linear] IN
    {[groups |-> IF f = "dos" THEN <<grp(1, 4), grp(7, 28)>> ELSE <<grp(1, 4), grp(2, 28)>>,
      group |-> <<1, 2>>, delta |-> <<0, 4>>, own |-> FALSE]}
FarCallsOn(l) == {TRUE}
Nearby(x) == {0, 5}
=============================================================================
