----------------------------- MODULE Scheduler -----------------------------
(***************************************************************************)
(* The scheduler: rows of the table scheduled_tasks, the polling loop of   *)
(* SchedulerEngine and the /schedule commands of the users.                *)
(*                                                                         *)
(* A tick works on a snapshot of the due rows.  Every dispatch and every   *)
(* statement is awaited, so commands change the rows under the tick, and a *)
(* crash may separate a dispatch from the update that records it.          *)
(***************************************************************************)
EXTENDS Naturals

CONSTANTS
  Task,       \* ids of scheduled tasks
  Once,       \* those of type once; the others repeat
  Cron,       \* those of type cron
  Huge,       \* those of type interval whose next time no datetime can hold
  East, West, \* those whose "at" was written with an offset from UTC
  MaxRuns,    \* max_runs of a task, 0 for None
  MaxBroken,  \* bound: ticks that crashes and database errors end
  NoTask      \* the engine works on no task

ASSUME SchedulerAssumption ==
  /\ Once \cup Cron \cup Huge \subseteq Task
  /\ (Once \cap Cron) \cup (Huge \cap (Once \cup Cron)) = {}
  /\ East \cup West \subseteq Once
  /\ East \cap West = {}
  /\ MaxRuns \in [Task -> Nat]
  /\ MaxBroken \in Nat
  /\ NoTask \notin Task

VARIABLES
  status,    \* status of the row, or "new" before and "deleted" after it
  next,      \* next_run_at, as the clock has it: see Times
  count,     \* run_count
  stage,     \* the await of the engine
  due,       \* tasks of the snapshot that are still to do
  seen,      \* next_run_at and run_count of the tasks in the snapshot
  current,   \* the task of the snapshot the engine works on
  fired,     \* history: dispatches of a task that has a limit
  lost,      \* history: dispatches that were not recorded
  broken,    \* history: ticks that a crash or a database error ended
  touched    \* history: tasks whose status a user set after their last run

rowVars == <<status, next, count>>
tickVars == <<stage, due, seen, current>>
historyVars == <<fired, lost, broken, touched>>
vars == <<rowVars, tickVars, historyVars>>

Stored == {"active", "paused", "done"}

\* In the future, due, past the grace period, NULL.  Two more as list_due
\* compares the texts of the times, where an offset counts as if it were none:
\* a time west of UTC is past as a text before it is due ("early"), a time east
\* of it long after ("stale").
Times == {"later", "early", "due", "overdue", "stale", "null"}

\* Runs after which the task must be over, 0 if it never is.
LastRun(t) == IF t \in Once THEN 1 ELSE MaxRuns[t]

\* What the engine knows of a task outside a tick.
Unseen == [next |-> "null", count |-> 0]

TypeOK ==
  /\ status \in [Task -> Stored \cup {"new", "deleted"}]
  /\ next \in [Task -> Times]
  /\ count \in [Task -> Nat]
  /\ stage \in {"sleep", "pick", "dispatch", "update"}
  /\ due \subseteq Task
  /\ seen \in [Task -> [next : Times, count : Nat]]
  /\ current \in Task \cup {NoTask}
  /\ current = NoTask <=> stage \in {"sleep", "pick"}
  /\ fired \in [Task -> Nat]
  /\ lost \in [Task -> Nat]
  /\ broken \in Nat
  /\ touched \subseteq Task

Init ==
  /\ status = [t \in Task |-> "new"]
  /\ next = [t \in Task |-> "null"]
  /\ count = [t \in Task |-> 0]
  /\ stage = "sleep"
  /\ due = {}
  /\ seen = [t \in Task |-> Unseen]
  /\ current = NoTask
  /\ fired = [t \in Task |-> 0]
  /\ lost = [t \in Task |-> 0]
  /\ broken = 0
  /\ touched = {}

-----------------------------------------------------------------------------
(* The commands of the users, and time *)

Moments(t) ==
  {"later", "due", "overdue"}
  \cup (IF t \in West THEN {"early"} ELSE {})
  \cup (IF t \in East THEN {"stale"} ELSE {})

\* "at" may name a moment in the past, "every" starts at once.
Create(t) ==
  /\ status[t] = "new"
  /\ status' = [status EXCEPT ![t] = "active"]
  /\ \E when \in Moments(t) :
       next' = [next EXCEPT ![t] = when]
  /\ UNCHANGED <<count, tickVars, historyVars>>

\* pause and resume set the status whatever it was.
SetStatus(t, new) ==
  /\ status[t] \in Stored
  /\ status' = [status EXCEPT ![t] = new]
  /\ touched' = IF next[t] = "null" THEN touched \cup {t} ELSE touched
  /\ UNCHANGED <<next, count, tickVars, fired, lost, broken>>

Delete(t) ==
  /\ status[t] \in Stored
  /\ status' = [status EXCEPT ![t] = "deleted"]
  /\ UNCHANGED <<next, count, tickVars, historyVars>>

\* What follows what on the clock.
Clock(t) ==
  {<<"later", IF t \in West THEN "early" ELSE "due">>, <<"early", "due">>,
   <<"due", "overdue">>}
  \cup (IF t \in East THEN {<<"overdue", "stale">>} ELSE {})

Pass(t) ==
  /\ \E step \in Clock(t) :
       next[t] = step[1] /\ next' = [next EXCEPT ![t] = step[2]]
  /\ UNCHANGED <<status, count, tickVars, historyVars>>

-----------------------------------------------------------------------------
(* The engine.  A definition right before another one whose name it extends  *)
(* is a faulty variant of it that no specification uses.                     *)

\* list_due
Selected(t) ==
  /\ status[t] = "active"
  /\ next[t] \in IF t \in West THEN {"early", "due", "overdue"}
                 ELSE IF t \in East THEN {"stale"}
                 ELSE {"due", "overdue"}

Tick ==
  /\ stage = "sleep"
  /\ \E t \in Task : Selected(t)
  /\ due' = {t \in Task : Selected(t)}
  /\ seen' = [t \in Task |->
       IF Selected(t) THEN [next |-> next[t], count |-> count[t]] ELSE Unseen]
  /\ stage' = "pick"
  /\ UNCHANGED <<rowVars, current, historyVars>>

\* A task past the grace period is not dispatched, only updated.
Skipped(t) == seen[t].next \in {"overdue", "stale"}

Pick(t) ==
  /\ stage = "pick"
  /\ t \in due
  /\ due' = due \ {t}
  /\ current' = t
  /\ stage' = IF Skipped(t) THEN "update" ELSE "dispatch"
  /\ UNCHANGED <<rowVars, seen, historyVars>>

\* The dispatch may raise; the run counts all the same.
Dispatch ==
  /\ stage = "dispatch"
  /\ stage' = "update"
  /\ \/ fired' = [fired EXCEPT ![current] = IF LastRun(current) = 0 THEN 0
                                            ELSE @ + 1]
     \/ UNCHANGED fired
  /\ UNCHANGED <<rowVars, due, seen, current, lost, broken, touched>>

\* The limit, from the row as the snapshot saw it.
IsLastOffByOne(t) == LastRun(t) # 0 /\ seen[t].count >= LastRun(t)
IsLast(t) ==
  \/ t \in Once
  \/ MaxRuns[t] # 0 /\ seen[t].count + 1 >= MaxRuns[t]

\* compute_next_run also has no next time where croniter fails or is missing.
Ends(t) == {IsLast(t)} \cup (IF t \in Cron THEN {TRUE} ELSE {})

\* The next run is counted from now, never from the time that was missed.
NextRunFromOld(end) == IF end THEN "null" ELSE seen[current].next
NextRun(end) == IF end THEN "null" ELSE "later"

\* The next task of the snapshot, or sleep.
Proceed ==
  /\ stage' = IF due = {} THEN "sleep" ELSE "pick"
  /\ seen' = [seen EXCEPT ![current] = Unseen]
  /\ current' = NoTask
  /\ UNCHANGED <<due, broken>>

\* An exception ends the tick, run() polls again.
GiveUp ==
  /\ stage' = "sleep"
  /\ due' = {}
  /\ seen' = [t \in Task |-> Unseen]
  /\ current' = NoTask

Fails ==
  /\ broken < MaxBroken
  /\ broken' = broken + 1
  /\ GiveUp

\* update_after_run: an UPDATE of a row that may have been deleted or paused.
WriteRowUpserts(end) ==
  /\ status' = [status EXCEPT ![current] = IF end THEN "done" ELSE "active"]
  /\ next' = [next EXCEPT ![current] = NextRun(end)]
  /\ UNCHANGED count
WriteRowOnlyTime(end) ==
  /\ next' = [next EXCEPT ![current] = NextRun(end)]
  /\ UNCHANGED <<status, count>>
WriteRow(end) ==
  IF status[current] \in Stored
  THEN /\ status' = [status EXCEPT ![current] = IF end THEN "done" ELSE "active"]
       /\ next' = [next EXCEPT ![current] = NextRun(end)]
       /\ count' = [count EXCEPT ![current] =
            IF LastRun(current) = 0 THEN 0 ELSE @ + 1]
  ELSE UNCHANGED rowVars

\* After a dispatch the log is written, which may fail.
UpdateAfterRun ==
  /\ stage = "update"
  /\ current \notin Huge
  /\ \E end \in Ends(current) : WriteRow(end)
  /\ \/ Proceed
     \/ ~Skipped(current) /\ Fails
  /\ UNCHANGED <<fired, lost, touched>>

Lost ==
  lost' = [lost EXCEPT ![current] = IF LastRun(current) = 0 THEN 0 ELSE @ + 1]

\* compute_next_run overflows before the update, at every tick.
NextRunFails ==
  /\ stage = "update"
  /\ current \in Huge
  /\ Lost
  /\ GiveUp
  /\ UNCHANGED <<rowVars, fired, broken, touched>>

\* The statement fails.
UpdateFails ==
  /\ stage = "update"
  /\ current \notin Huge
  /\ Lost
  /\ Fails
  /\ UNCHANGED <<rowVars, fired, touched>>

\* The bot dies in a tick and starts again; the rows are on disk.
Crash ==
  /\ \/ current # NoTask /\ Lost
     \/ stage = "pick" /\ UNCHANGED lost
  /\ Fails
  /\ UNCHANGED <<rowVars, fired, touched>>

-----------------------------------------------------------------------------
Engine ==
  Tick \/ (\E t \in Task : Pick(t)) \/ Dispatch \/ UpdateAfterRun \/ NextRunFails

Next ==
  \/ Engine \/ UpdateFails \/ Crash
  \/ \E t \in Task :
       \/ Create(t) \/ Delete(t) \/ Pass(t)
       \/ SetStatus(t, "paused") \/ SetStatus(t, "active")

Spec == Init /\ [][Next]_vars

\* The polling loop goes on after every failure, and the clock goes on.
FairSpec == Spec /\ WF_vars(Engine) /\ \A t \in Task : WF_vars(Pass(t))
-----------------------------------------------------------------------------
(* Properties *)

\* A task that ends after some runs is dispatched no more often than that,
\* whatever users do to its row meanwhile; each extra dispatch repeats one
\* whose record a crash or a database error lost.
RunsBounded ==
  \A t \in Task : LastRun(t) # 0 => fired[t] <= LastRun(t) + lost[t]

\* Why the bound holds.  What a tick knows of its tasks is still true, a task
\* with a next time has a run left, and every dispatch but the current one is
\* counted in the row or lost.
InTick(t) == t \in due \cup {current}

NewUntouched ==
  \A t \in Task : status[t] = "new" => next[t] = "null" /\ count[t] = 0

SnapshotFresh ==
  /\ current \notin due
  /\ \A t \in Task : InTick(t) => seen[t].count = count[t] /\ next[t] # "null"

RunLeft ==
  \A t \in Task : LastRun(t) # 0 /\ next[t] # "null" => count[t] < LastRun(t)

FiredCounted ==
  \A t \in Task : LastRun(t) # 0 /\ (status[t] # "deleted" \/ InTick(t)) =>
    fired[t] <= count[t] + lost[t]
                + (IF current = t /\ stage = "update" THEN 1 ELSE 0)

SchedulerInv ==
  TypeOK /\ NewUntouched /\ SnapshotFresh /\ RunLeft /\ FiredCounted
  /\ RunsBounded

\* A task shown as running has a time to run at: a tick never leaves a row
\* active without next_run_at, which no later tick would select.  Only a user
\* who resumes a finished task makes such a row.
ActiveHasNext ==
  \A t \in Task : status[t] = "active" => next[t] # "null" \/ t \in touched

\* A task its user deleted never comes back: a tick that still has it in its
\* snapshot does not write the row again.
DeletedStays ==
  [][\A t \in Task : status[t] = "deleted" => status'[t] = "deleted"]_vars

\* next_run_at has passed, whatever list_due makes of it.
IsDue(t) == status[t] = "active" /\ next[t] \in {"due", "overdue", "stale"}

\* Whatever is due is dealt with: every due task is dispatched or skipped and
\* gets a new time, is done, or was paused or deleted, however many other tasks
\* are in the tick and however often the bot fails in between.  Only a row whose
\* next time overflows can hold up the others: each tick ends with it.
DueServed ==
  \A t \in Task : IsDue(t) ~> (~IsDue(t) \/ \E h \in Huge : IsDue(h))

(* A claim the code does not keep. *)

\* db.py 150: list_due returns the active tasks whose next_run_at <= now.
ListsDue == [][Tick => due' = {t \in Task : IsDue(t)}]_vars
=============================================================================
