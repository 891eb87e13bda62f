--------------------------- MODULE MCSidecarClient ---------------------------
(* Small instances of SidecarClient for TLC.                               *)
EXTENDS SidecarClient, TLC

Symmetry == Permutations(Calls)
===============================================================================
