--------------------------- MODULE MCThreadSlots ---------------------------
(***************************************************************************)
(* Instances of ThreadSlots for TLC: root messages r1..r3, and m, a root   *)
(* that is a slash command.                                                *)
(***************************************************************************)
EXTENDS ThreadSlots

CONSTANTS r1, r2, r3, m
=============================================================================
