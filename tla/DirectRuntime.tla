--------------------------- MODULE DirectRuntime ---------------------------
(***************************************************************************)
(* DirectClaudeRuntime: every execute() spawns `claude --print`, with      *)
(* --resume if the object knows a session id, and reads its events until   *)
(* a result, an error, the end of the output, the stop flag or the         *)
(* deadline.  Flag and deadline are looked at only when a line arrives.    *)
(*                                                                         *)
(* Only what the module's users can tell apart is kept: ids are numbered   *)
(* as the agent mints them, 0 is None, text is left out.  A process that   *)
(* is gone is one whose output has been read to its end.                   *)
(***************************************************************************)
EXTENDS Naturals

VARIABLES
  actual,   \* _actual_id
  flag,     \* _cancel_flag
  at,       \* where execute() is suspended: spawn, feed, read
  proc,     \* its process: up, told (SIGTERM sent), gone
  resume,   \* the id passed with --resume
  talk,     \* the id the process reports
  late,     \* the deadline has passed
  minted    \* number of ids minted so far

executeVars == <<at, proc, resume, talk, late>>
runtimeVars == <<actual, flag, executeVars, minted>>

RuntimeTypeOK ==
  /\ actual \in 0..minted
  /\ flag \in BOOLEAN
  /\ at \in {"none", "spawn", "feed", "read"}
  /\ proc \in {"none", "up", "told", "gone"}
  /\ resume \in 0..minted
  /\ talk \in 0..minted
  /\ late \in BOOLEAN
  /\ minted \in Nat
  /\ at \in {"none", "spawn"} <=> proc = "none"
  /\ at \in {"none", "spawn"} <=> talk = 0

NewRuntime ==
  /\ actual = 0
  /\ flag = FALSE
  /\ at = "none"
  /\ proc = "none"
  /\ resume = 0
  /\ talk = 0
  /\ late = FALSE

\* A new object in a new process; execute() of the old one is gone with it.
Renewed ==
  /\ actual' = 0
  /\ flag' = FALSE
  /\ at' = "none"
  /\ proc' = "none"
  /\ resume' = 0
  /\ talk' = 0
  /\ late' = FALSE
  /\ UNCHANGED minted

-----------------------------------------------------------------------------
(* execute() *)

\* Up to create_subprocess_exec, for an object whose id is id.
Execute(id) ==
  /\ at = "none"
  /\ actual' = id
  /\ resume' = id
  /\ flag' = FALSE
  /\ at' = "spawn"
  /\ UNCHANGED <<proc, talk, late, minted>>

\* The agent goes on with the conversation it resumes, under its id or under
\* a new one, or it starts one.
Spawned ==
  /\ at = "spawn"
  /\ at' = "feed"
  /\ proc' = "up"
  /\ \/ resume # 0 /\ talk' = resume /\ UNCHANGED minted
     \/ talk' = minted + 1 /\ minted' = minted + 1
  /\ UNCHANGED <<actual, flag, resume, late>>

\* The prompt is written; the deadline counts from here.
Fed ==
  /\ at = "feed"
  /\ at' = "read"
  /\ UNCHANGED <<actual, flag, proc, resume, talk, late, minted>>

\* The finally clause, and what it leaves behind.
Ended ==
  /\ at' = "none"
  /\ proc' = "none"
  /\ resume' = 0
  /\ talk' = 0
  /\ late' = FALSE
  /\ UNCHANGED <<flag, minted>>

\* The process cannot be spawned, or closed its stdin.
Broken ==
  /\ at = "spawn" \/ (at = "feed" /\ proc = "gone")
  /\ Ended
  /\ UNCHANGED actual

Reading == at = "read" /\ proc # "gone"
Undisturbed == Reading /\ ~flag /\ ~late

\* The system event names the session.
System ==
  /\ Undisturbed
  /\ actual # talk
  /\ actual' = talk
  /\ UNCHANGED <<flag, executeVars, minted>>

\* The result event names it again, whether it reports success or an error.
Result ==
  /\ Undisturbed
  /\ Ended
  /\ actual' = talk

\* A line arrives and finds the flag: SIGTERM, and the text so far is returned.
Interrupted ==
  /\ Reading
  /\ flag
  /\ Ended
  /\ UNCHANGED actual

\* A line arrives after the deadline: SIGTERM and TaskTimeoutError.
OvertimeNever == FALSE /\ Ended /\ UNCHANGED actual
Overtime ==
  /\ Reading
  /\ ~flag
  /\ late
  /\ Ended
  /\ UNCHANGED actual

\* The output ends without a result: the text so far is returned.
Eof ==
  /\ at = "read"
  /\ proc = "gone"
  /\ Ended
  /\ UNCHANGED actual

-----------------------------------------------------------------------------
(* Others *)

Terminate == proc' = IF proc = "up" THEN "told" ELSE proc

\* cancel(): raise the flag and send SIGTERM to the process there is.
Cancel ==
  /\ flag' = TRUE
  /\ Terminate
  /\ UNCHANGED <<actual, at, resume, talk, late, minted>>

\* stop(): terminate the process there is; during the spawn there is none.
Stop ==
  /\ Terminate
  /\ UNCHANGED <<actual, flag, at, resume, talk, late, minted>>

\* The environment: the process exits, the clock passes the deadline.
Exit ==
  /\ proc \in {"up", "told"}
  /\ proc' = "gone"
  /\ UNCHANGED <<actual, flag, at, resume, talk, late, minted>>

Deadline ==
  /\ at = "read"
  /\ ~late
  /\ late' = TRUE
  /\ UNCHANGED <<actual, flag, at, proc, resume, talk, minted>>

=============================================================================
