---------------------------- MODULE MCScheduler ----------------------------
(***************************************************************************)
(* Instances of Scheduler for TLC.  As in the rows /schedule creates, only *)
(* a task of type once has a last run.                                     *)
(***************************************************************************)
EXTENDS Scheduler

CONSTANTS
  o, e, w,   \* tasks of type once: without an offset, east and west of UTC
  c, h       \* one of type cron, and one with an interval that overflows

NoLimit == [t \in Task |-> 0]
=============================================================================
