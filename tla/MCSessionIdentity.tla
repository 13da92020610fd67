------------------------- MODULE MCSessionIdentity -------------------------
(***************************************************************************)
(* Instances of SessionIdentity for TLC.                                   *)
(***************************************************************************)
EXTENDS SessionIdentity

=============================================================================
