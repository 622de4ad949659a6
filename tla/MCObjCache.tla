------------------------------ MODULE MCObjCache ------------------------------
(* Three files for TLC: an object file, a library that may also be named in a *)
(* FILE directive, and one more library.                                      *)
EXTENDS ObjCache

CONSTANTS obj, omf, ar

AllFiles == <<obj, omf, ar>>
Lengths == [f \in {obj, omf, ar} |-> CASE f = omf -> 3 [] f = ar -> 2 [] OTHER -> 3]
Dicts == [f \in {obj, omf, ar} |-> 1]
DictSizes == [f \in {obj, omf, ar} |-> 2]
LibList == <<omf, ar>>
===============================================================================
