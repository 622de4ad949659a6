------------------------------ MODULE MCLoadDos ------------------------------
(* LoadDos with the layouts of MCDosLayouts, for TLC. *)
EXTENDS LoadDos, MCDosLayouts
==============================================================================
