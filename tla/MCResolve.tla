------------------------------ MODULE MCResolve ------------------------------
(* Instances of Resolve for TLC. *)
EXTENDS Resolve, TLC

(* Names of one length: nothing is cut off. *)
SameLength(r, t) == r

NoAliases == {}

(* Two aliases of each other. *)
CONSTANTS n1, n2, n3
Circle == {<<n1, n2>>, <<n2, n1>>}
=============================================================================
