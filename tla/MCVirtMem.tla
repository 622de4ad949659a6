------------------------------ MODULE MCVirtMem ------------------------------
(* A small instance of VirtMem for TLC; for more, see MCVirt.                *)
EXTENDS VirtMem

\* A one-cell (tiny) block and a two-page block whose last page is short.
PageSizes == {1, 3}
==============================================================================
