-------------------------- MODULE MCSessionWorker --------------------------
(***************************************************************************)
(* Instances of SessionWorker for TLC: one session, or two that share the  *)
(* directory p1.  A configuration chooses which of the messages t1..t3 go  *)
(* to s2 (the others go to s1) and which sessions run ACP.                 *)
(***************************************************************************)
EXTENDS SessionWorker

CONSTANTS
  s1, s2, t1, t2, t3, p1,
  Second    \* messages routed to s2

MCPathOf == [s \in Session |-> p1]
MCOwnerOf == [t \in Task |-> IF t \in Second THEN s2 ELSE s1]
=============================================================================
