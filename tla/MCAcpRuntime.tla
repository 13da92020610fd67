---------------------------- MODULE MCAcpRuntime ----------------------------
(***************************************************************************)
(* Instances of AcpRuntime for TLC.                                        *)
(***************************************************************************)
EXTENDS AcpRuntime
=============================================================================
