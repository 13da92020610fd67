-------------------------- MODULE SessionIdentity --------------------------
(***************************************************************************)
(* Which conversation of the agent a task goes on with.  The id of the     *)
(* conversation is in the runtime object, in session.actual_id, in the     *)
(* StateStore and, up to memory_debounce_seconds later, in state.json.     *)
(* /new clears three of these in three steps; the janitor, /done and a     *)
(* timeout drop the runtime; a crash drops all but the file; the shutdown  *)
(* of main.py drains, stops and flushes.                                   *)
(*                                                                         *)
(* One session with the direct runtime is modelled, as ids are kept per    *)
(* context and project.  Its queue holds at most one message.              *)
(***************************************************************************)
EXTENDS DirectRuntime

CONSTANTS
  MaxTask,   \* bound: messages
  MaxNew,    \* bound: /new commands
  MaxCancel, \* bound: /stop and /done commands
  MaxBoot,   \* bound: restarts
  MaxFail    \* bound: failing writes of state.json

ASSUME IdentityAssumption ==
  /\ MaxTask \in Nat
  /\ MaxNew \in Nat
  /\ MaxCancel \in Nat
  /\ MaxBoot \in Nat
  /\ MaxFail \in Nat

VARIABLES
  pc,          \* the worker: idle, card (before the lock), exec, after
  queued,      \* messages in session.task_queue
  unfinished,  \* its count of messages without task_done()
  registered,  \* the registry still has the runtime object
  session,     \* session.actual_id
  new,         \* /new sends its confirmation
  mem,         \* actual_id in the store
  dirty,       \* the store's dirty flag
  disk,        \* actual_id in state.json
  loop,        \* the debounce loop runs
  phase,       \* life of the process, see Signal
  flushed,     \* the final flush succeeded
  count,       \* bounded events so far
  quiet,       \* history: no execute() since the /new began
  owed,        \* history: id the next task must not fall behind
  forgot,      \* history: newest id that a quiet /new has put an end to
  filed,       \* history: [owed, forgot] at the last write
  kept         \* history: id of a task that timed out just before

workerVars == <<pc, queued, unfinished>>
storeVars == <<mem, dirty, disk, loop>>
lifeVars == <<phase, flushed>>
historyVars == <<quiet, owed, forgot, filed, kept>>
vars == <<runtimeVars, workerVars, registered, session, new, storeVars,
          lifeVars, count, historyVars>>

Event == {"task", "new", "cancel", "boot", "fail"}
Limit == [e \in Event |->
            CASE e = "task"   -> MaxTask
              [] e = "new"    -> MaxNew
              [] e = "cancel" -> MaxCancel
              [] e = "boot"   -> MaxBoot
              [] e = "fail"   -> MaxFail]

TypeOK ==
  /\ RuntimeTypeOK
  /\ pc \in {"idle", "card", "exec", "after"}
  /\ queued \in 0..1
  /\ unfinished \in Nat
  /\ registered \in BOOLEAN
  /\ session \in 0..minted
  /\ new \in BOOLEAN
  /\ mem \in 0..minted
  /\ dirty \in BOOLEAN
  /\ disk \in 0..minted
  /\ loop \in BOOLEAN
  /\ phase \in {"up", "feishu", "drain", "stop", "close", "last", "exited"}
  /\ flushed \in BOOLEAN
  /\ count \in [Event -> Nat]
  /\ quiet \in BOOLEAN
  /\ owed \in 0..minted
  /\ forgot \in 0..minted
  /\ filed \in [owed : 0..minted, forgot : 0..minted]
  /\ kept \in 0..minted

Init ==
  /\ NewRuntime
  /\ minted = 0
  /\ pc = "idle"
  /\ queued = 0
  /\ unfinished = 0
  /\ registered = FALSE
  /\ session = 0
  /\ new = FALSE
  /\ mem = 0
  /\ dirty = FALSE
  /\ disk = 0
  /\ loop = TRUE
  /\ phase = "up"
  /\ flushed = FALSE
  /\ count = [e \in Event |-> 0]
  /\ quiet = FALSE
  /\ owed = 0
  /\ forgot = 0
  /\ filed = [owed |-> 0, forgot |-> 0]
  /\ kept = 0

Counted(e) ==
  /\ count[e] < Limit[e]
  /\ count' = [count EXCEPT ![e] = @ + 1]

-----------------------------------------------------------------------------
(* The store *)

\* save_project_actual_id
SaveUnmarked(id) == mem' = id /\ UNCHANGED <<dirty, disk, loop>>
Save(id) == mem' = id /\ dirty' = TRUE /\ UNCHANGED <<disk, loop>>

\* flush(): a write is complete or has not happened.
Flush ==
  /\ disk' = mem
  /\ dirty' = FALSE
  /\ filed' = [owed |-> owed, forgot |-> forgot]
  /\ UNCHANGED mem

\* One round of _debounce_loop, which an OSError ends.
Debounce ==
  /\ loop
  /\ dirty
  /\ phase # "exited"
  /\ \/ Flush /\ UNCHANGED <<loop, count>>
     \/ /\ Counted("fail")
        /\ loop' = FALSE
        /\ UNCHANGED <<mem, dirty, disk, filed>>
  /\ UNCHANGED <<runtimeVars, workerVars, registered, session, new, lifeVars,
                 quiet, owed, forgot, kept>>

-----------------------------------------------------------------------------
(* The worker *)

Alive == phase # "exited"
\* Commands come in until the WebSocket is closed.
Listening == phase \in {"up", "feishu"}

\* dispatch(): enqueue and make sure of a worker.  The scheduler and roots called
\* out of a line dispatch also after the WebSocket was closed.
Enqueue ==
  /\ Alive
  /\ queued = 0
  /\ Counted("task")
  /\ queued' = 1
  /\ unfinished' = unfinished + 1
  /\ UNCHANGED <<runtimeVars, pc, registered, session, new, storeVars,
                 lifeVars, historyVars>>

\* run(): the next message, its first card, the path lock.
Take ==
  /\ Alive
  /\ pc = "idle"
  /\ queued = 1
  /\ pc' = "card"
  /\ queued' = 0
  /\ UNCHANGED <<runtimeVars, unfinished, registered, session, new,
                 storeVars, lifeVars, count, historyVars>>

\* The id the runtime has, or a new object's None.
Remembered == IF registered THEN actual ELSE 0
\* ... or else the stored one, by restore_session().
ResumableNoStore == Remembered
Resumable == IF Remembered # 0 THEN Remembered ELSE mem

\* With the lock: get_or_create, restore the id, execute().
Begin ==
  /\ Alive
  /\ pc = "card"
  /\ Execute(Resumable)
  /\ pc' = "exec"
  /\ registered' = TRUE
  /\ session' = IF Remembered # 0
                THEN IF session = 0 THEN Remembered ELSE session
                ELSE IF mem # 0 THEN mem ELSE session
  /\ quiet' = FALSE
  /\ kept' = 0
  /\ UNCHANGED <<queued, unfinished, new, storeVars, lifeVars, count, owed,
                 forgot, filed>>

\* The session and the store learn the id of a task that ended well.  One
\* that ends before the runtimes are stopped must be resumable later.
Learned ==
  IF actual' = 0
  THEN UNCHANGED <<session, storeVars, owed>>
  ELSE /\ session' = actual'
       /\ Save(actual')
       /\ owed' = IF phase \in {"up", "feishu", "drain"} THEN actual' ELSE owed

\* execute() returns.
Return ==
  /\ Alive
  /\ Result \/ Interrupted \/ Eof
  /\ Learned
  /\ pc' = "after"
  /\ UNCHANGED <<queued, unfinished, registered, new, lifeVars, count, quiet,
                 forgot, filed, kept>>

\* execute() raises: an error event, no process, no stdin.
Raise ==
  /\ Alive
  /\ Result \/ Broken
  /\ pc' = "after"
  /\ UNCHANGED <<queued, unfinished, registered, session, new, storeVars,
                 lifeVars, count, historyVars>>

\* execute() raises TaskTimeoutError: the runtime is removed.
TimeOut ==
  /\ Alive
  /\ Overtime
  /\ registered' = FALSE
  /\ kept' = actual
  /\ pc' = "after"
  /\ UNCHANGED <<queued, unfinished, session, new, storeVars, lifeVars, count,
                 quiet, owed, forgot, filed>>

\* The last card is sent: task_done().
FinalSent ==
  /\ Alive
  /\ pc = "after"
  /\ pc' = "idle"
  /\ unfinished' = unfinished - 1
  /\ UNCHANGED <<runtimeVars, queued, registered, session, new, storeVars,
                 lifeVars, count, historyVars>>

\* Inside execute().
Inside ==
  /\ Alive
  /\ Spawned \/ Fed \/ System \/ Exit \/ Deadline
  /\ UNCHANGED <<workerVars, registered, session, new, storeVars, lifeVars,
                 count, historyVars>>

-----------------------------------------------------------------------------
(* Commands and the janitor *)

\* /new: the runtime is the registry's, if any.  Whatever was owed is not.
NewBeginKeepsRuntime ==
  /\ Listening
  /\ ~new
  /\ Counted("new")
  /\ session' = 0
  /\ new' = TRUE
  /\ quiet' = (at = "none")
  /\ owed' = 0
  /\ kept' = 0
  /\ UNCHANGED <<runtimeVars, workerVars, registered, storeVars, lifeVars,
                 forgot, filed>>
NewBegin ==
  /\ Listening
  /\ ~new
  /\ Counted("new")
  /\ session' = 0
  /\ actual' = IF registered THEN 0 ELSE actual
  /\ new' = TRUE
  /\ quiet' = (at = "none")
  /\ owed' = 0
  /\ kept' = 0
  /\ UNCHANGED <<flag, executeVars, minted, workerVars, registered, storeVars,
                 lifeVars, forgot, filed>>

\* The confirmation is sent, the stored id is cleared.
NewEnd ==
  /\ Alive
  /\ new
  /\ new' = FALSE
  /\ Save(0)
  /\ owed' = 0
  /\ kept' = 0
  /\ forgot' = IF quiet THEN minted ELSE forgot
  /\ quiet' = FALSE
  /\ UNCHANGED <<runtimeVars, workerVars, registered, session, lifeVars,
                 count, filed>>

\* /stop reaches the registered runtime.
StopCommand ==
  /\ Listening
  /\ registered
  /\ Counted("cancel")
  /\ Cancel
  /\ UNCHANGED <<workerVars, registered, session, new, storeVars, lifeVars,
                 historyVars>>

\* /done: cancel, drain the queue without task_done(), remove the runtime.
DoneCommand ==
  /\ Listening
  /\ Counted("cancel")
  /\ IF registered THEN Cancel ELSE UNCHANGED runtimeVars
  /\ queued' = 0
  /\ registered' = FALSE
  /\ UNCHANGED <<pc, unfinished, session, new, storeVars, lifeVars,
                 historyVars>>

\* The janitor: the last execute() began acp_idle_timeout_seconds ago; it may
\* still read, and the next task may already wait for the lock.
Reap ==
  /\ Alive
  /\ registered
  /\ at \in {"none", "read"}
  /\ registered' = FALSE
  /\ Stop
  /\ UNCHANGED <<workerVars, session, new, storeVars, lifeVars, count,
                 historyVars>>

-----------------------------------------------------------------------------
(* The life of the process *)

\* SIGTERM: sessions are marked, the WebSocket is being stopped.
Signal ==
  /\ phase = "up"
  /\ phase' = "feishu"
  /\ UNCHANGED <<runtimeVars, workerVars, registered, session, new,
                 storeVars, flushed, count, historyVars>>

\* stop_all() pops the runtimes and stops them.
StopAll ==
  /\ phase' = "stop"
  /\ registered' = FALSE
  /\ IF registered THEN Stop ELSE UNCHANGED runtimeVars
  /\ UNCHANGED <<workerVars, session, new, storeVars, flushed, count,
                 historyVars>>

\* A session whose queue is not empty is waited for.
FeishuStopped ==
  /\ phase = "feishu"
  /\ IF queued = 0
     THEN StopAll
     ELSE /\ phase' = "drain"
          /\ UNCHANGED <<runtimeVars, workerVars, registered, session, new,
                         storeVars, flushed, count, historyVars>>

\* join() returned, or 30 seconds passed.
Drained == phase = "drain" /\ StopAll

\* Every stop() returned, memory is flushed; acl_db.close() is awaited.
RuntimesStopped ==
  /\ phase = "stop"
  /\ phase' = "close"
  /\ UNCHANGED <<runtimeVars, workerVars, registered, session, new,
                 storeVars, flushed, count, historyVars>>

\* state_store.stop(): end the loop, flush in any case; an error is logged.
StoreStopped ==
  /\ phase = "close"
  /\ phase' = "last"
  /\ loop' = FALSE
  /\ \/ Flush /\ flushed' = TRUE /\ UNCHANGED count
     \/ Counted("fail") /\ UNCHANGED <<mem, dirty, disk, filed, flushed>>
  /\ UNCHANGED <<runtimeVars, workerVars, registered, session, new,
                 quiet, owed, forgot, kept>>

\* Scheduler and janitor are cancelled; then asyncio.run() ends the rest.
Exited ==
  /\ phase = "last"
  /\ phase' = "exited"
  /\ UNCHANGED <<runtimeVars, workerVars, registered, session, new,
                 storeVars, flushed, count, historyVars>>

\* A new process, after the old one ended or was killed: load() reads the
\* file, one it cannot read as a blank state.  What was saved after the last
\* write is lost.
Restart ==
  /\ Counted("boot")
  /\ Renewed
  /\ pc' = "idle"
  /\ queued' = 0
  /\ unfinished' = 0
  /\ registered' = FALSE
  /\ session' = 0
  /\ new' = FALSE
  /\ \/ mem' = disk /\ owed' = IF flushed THEN owed ELSE filed.owed
     \/ mem' = 0 /\ owed' = 0
  /\ dirty' = FALSE
  /\ loop' = TRUE
  /\ phase' = "up"
  /\ flushed' = FALSE
  /\ quiet' = FALSE
  /\ forgot' = filed.forgot
  /\ kept' = 0
  /\ UNCHANGED <<disk, filed>>

-----------------------------------------------------------------------------
WorkerStep == Take \/ Begin \/ FinalSent
ExecuteStep == Inside \/ Return \/ Raise \/ TimeOut
ShutdownStep ==
  FeishuStopped \/ Drained \/ RuntimesStopped \/ StoreStopped \/ Exited

Next ==
  \/ Enqueue \/ WorkerStep \/ ExecuteStep
  \/ NewBegin \/ NewEnd \/ StopCommand \/ DoneCommand \/ Reap
  \/ Debounce \/ Signal \/ ShutdownStep \/ Restart

Spec == Init /\ [][Next]_vars

\* The process is spawned and takes its prompt, the clock goes on, and a
\* process that is past its deadline writes a line or ends at some time.
\* Cards are sent.
Fairness ==
  /\ WF_vars(Alive /\ Spawned /\ Inside)
  /\ WF_vars(Alive /\ Fed /\ Inside)
  /\ WF_vars(Alive /\ Deadline /\ Inside)
  /\ WF_vars(TimeOut \/ (Return /\ (flag \/ proc = "gone")))
  /\ WF_vars(WorkerStep)

FairSpec == Spec /\ Fairness

-----------------------------------------------------------------------------
(* Properties *)

\* A task goes on from the last task of its session that ended well, or from
\* a later one, whatever happened in between: a janitor or a timeout that
\* dropped the runtime, a failed task, a restart; after a crash or a failed
\* write, from the last that was written.  Only /new, or a state.json that
\* cannot be read, ends a conversation.
ResumesLatest == at = "spawn" => resume >= owed

\* After a /new during which the session executed nothing, no task goes on
\* with a conversation from before it, neither from the runtime nor from the
\* store, nor after a restart once the cleared id was written.
NewForgets == at = "spawn" /\ resume # 0 => resume > forgot

\* Every place an id can be taken from is as new as the last good task and
\* newer than what was forgotten.
Held == registered \/ at # "none"
SourcesInv ==
  /\ Held /\ actual # 0 => actual >= owed /\ actual > forgot
  /\ talk # 0 => talk >= owed /\ talk > forgot
  /\ at # "none" => resume >= owed /\ (resume # 0 => resume > forgot)
  /\ mem >= owed /\ (mem # 0 => mem > forgot)

\* The file is as new as what it was written for, and current unless the
\* store is dirty or began blank; after the final flush nothing more is owed.
FileInv ==
  /\ disk >= filed.owed /\ (disk # 0 => disk > filed.forgot)
  /\ ~dirty => disk = mem \/ mem = 0
  /\ flushed => disk >= owed /\ phase \in {"last", "exited"}

\* The worker executes when the runtime does, a runtime that a quiet /new has
\* reset stays so, and each message the worker has or waits for is counted.
WorkerInv ==
  /\ pc = "exec" <=> at # "none"
  /\ new /\ quiet => at = "none" /\ (registered => actual = 0)
  /\ unfinished >= queued + (IF pc = "idle" THEN 0 ELSE 1)

IdentityInv == TypeOK /\ SourcesInv /\ FileInv /\ WorkerInv

\* Every execute() of the direct runtime ends although it looks at its
\* deadline only when a line arrives, unless the bot exits first.
ExecuteEnds == at # "none" ~> (at = "none" \/ phase = "exited")

\* worker.py on a timeout: "session.actual_id is preserved so the next
\* ensure_ready() will --resume the Claude Code session and maintain context".
ContextKept == [][Begin => resume' >= kept]_vars

=============================================================================
