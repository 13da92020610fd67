-------------------------- MODULE MCMemoryManager --------------------------
(* Instances of MemoryManager for TLC. *)
EXTENDS MemoryManager

CONSTANTS u1, s1, s2, x, y

\* Each text is like itself only.
MCLike == {<<t, t>> : t \in Text}

=============================================================================
