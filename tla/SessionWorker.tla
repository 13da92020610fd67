--------------------------- MODULE SessionWorker ---------------------------
(***************************************************************************)
(* The task path of NextMe: the part of TaskDispatcher that enqueues a     *)
(* message and keeps a worker alive, the SessionWorker coroutine of every  *)
(* (user, project) session, the lock of the project directory, the         *)
(* permission future, and the /stop and /done commands that reach into a   *)
(* running session.                                                        *)
(*                                                                         *)
(* Everything runs on one asyncio loop, so code between two awaits is one  *)
(* step and every await is a point where the other coroutines may run.     *)
(* pc[s] is the await at which the worker of session s is suspended.       *)
(***************************************************************************)
EXTENDS Naturals, Sequences, Functions

CONSTANTS
  Session,      \* sessions: one per (context_id, project)
  Task,         \* messages users will send
  Path,         \* canonical project directories
  PathOf,       \* the directory of a session
  OwnerOf,      \* the session a message is routed to
  AcpSession,   \* sessions whose executor is an ACP subprocess
  Capacity,     \* task_queue_capacity
  MaxAsk,       \* bound: permission requests per session
  Fragile,      \* bound: messages whose processing may raise outside execute()
  Command,      \* bound: which of "stop", "done", "reap" occur
  NoTask, NoSession

ASSUME ConstantsAssumption ==
  /\ PathOf \in [Session -> Path]
  /\ OwnerOf \in [Task -> Session]
  /\ AcpSession \subseteq Session
  /\ Capacity \in Nat \ {0}
  /\ MaxAsk \in Nat
  /\ Fragile \subseteq Task
  /\ NoTask \notin Task
  /\ NoSession \notin Session

VARIABLES
  arrived,    \* tasks dispatch() has seen
  acking,     \* dispatch() suspended between put_nowait and _ensure_worker
  queue,      \* session.task_queue
  pending,    \* session.pending_tasks, as a set
  active,     \* session.active_task
  status,     \* session.status
  canceled,   \* tasks whose canceled attribute is set on the queued object
  local,      \* the worker's task object: the queued one, or a copy
  pc,         \* where the worker coroutine is suspended
  contended,  \* sessions whose worker found the lock taken (lock_contended)
  holder,     \* owner of the asyncio.Lock of a path
  waiters,    \* its FIFO of suspended acquirers
  future,     \* the permission future the worker awaits
  asked,      \* number of permission cards sent by a session
  cards,      \* those whose buttons can still be clicked
  gone,       \* sessions whose runtime was stopped while execute() runs
  closing,    \* progress of a /done on the session
  shown,      \* terminal notices sent for a task
  dropped     \* tasks whose exception went to the log and to nobody else

vars == <<arrived, acking, queue, pending, active, status, canceled, local,
          pc, contended, holder, waiters, future, asked, cards, gone, closing,
          shown, dropped>>

lockVars == <<holder, waiters>>
askVars  == <<future, asked, cards>>
dispatchVars == <<arrived, acking>>
queueVars == <<queue, pending>>

Status  == {"idle", "waiting_lock", "executing", "waiting_permission",
            "done", "canceled"}
Outcome == {"full", "result", "cancelled", "failed"}

\* Suspension points inside "async with path_lock", and all those with a task.
Critical == {"update", "ready", "run", "ask", "perm", "abort", "evict",
             "report"}
Busy     == {"card", "wait", "final"} \cup Critical
PC       == {"none", "get"} \cup Busy

\* Those at which the active task has not got its terminal notice yet.
Unreported == {"card", "wait", "update", "ready", "run", "ask", "perm", "evict"}

TypeOK ==
  /\ arrived \subseteq Task
  /\ acking \subseteq Task
  /\ queue \in [Session -> Seq(Task)]
  /\ \A s \in Session : Len(queue[s]) <= Capacity
  /\ pending \in [Session -> SUBSET Task]
  /\ active \in [Session -> Task \cup {NoTask}]
  /\ status \in [Session -> Status]
  /\ canceled \subseteq Task
  /\ local \in [Session -> {"shared", "clear", "set"}]
  /\ pc \in [Session -> PC]
  /\ contended \subseteq Session
  /\ holder \in [Path -> Session \cup {NoSession}]
  /\ waiters \in [Path -> Seq(Session)]
  /\ future \in [Session -> {"none", "pending", "allow", "deny", "cancelled"}]
  /\ asked \in [Session -> 0..MaxAsk]
  /\ cards \in [Session -> SUBSET (1..MaxAsk)]
  /\ gone \subseteq Session
  /\ closing \in [Session -> {"none", "cancel", "stop"}]
  /\ shown \in [Task -> Seq(Outcome)]
  /\ dropped \subseteq Task

Init ==
  /\ arrived = {}
  /\ acking = {}
  /\ queue = [s \in Session |-> <<>>]
  /\ pending = [s \in Session |-> {}]
  /\ active = [s \in Session |-> NoTask]
  /\ status = [s \in Session |-> "idle"]
  /\ canceled = {}
  /\ local = [s \in Session |-> "shared"]
  /\ pc = [s \in Session |-> "none"]
  /\ contended = {}
  /\ holder = [p \in Path |-> NoSession]
  /\ waiters = [p \in Path |-> <<>>]
  /\ future = [s \in Session |-> "none"]
  /\ asked = [s \in Session |-> 0]
  /\ cards = [s \in Session |-> {}]
  /\ gone = {}
  /\ closing = [s \in Session |-> "none"]
  /\ shown = [t \in Task |-> <<>>]
  /\ dropped = {}

-----------------------------------------------------------------------------
(* Helpers.  A definition right before another one whose name it extends    *)
(* (LockFreeIgnoringHolder, EndTaskEndsWorker, ...) is a faulty variant of  *)
(* it: no specification uses it, the mutation runs do.                      *)

InQueue(t) == t \in Range(queue[OwnerOf[t]])

\* The canceled attribute of the object _execute_task holds.
LocalCanceled(s) == \/ local[s] = "set"
                    \/ local[s] = "shared" /\ active[s] \in canceled

\* dataclasses.replace copies the flag as it is now; later writes to the
\* queued object do not reach the copy.
CopyOfTask(s) == IF active[s] \in canceled THEN "set" ELSE "clear"

Goto(s, label) == pc' = [pc EXCEPT ![s] = label]
NotifyUnlessCanceled(s, outcome) ==
  shown' = IF active[s] \in canceled
           THEN shown ELSE [shown EXCEPT ![active[s]] = Append(@, outcome)]
Notify(s, outcome) ==
  shown' = [shown EXCEPT ![active[s]] = Append(@, outcome)]

\* task_queue is a bounded asyncio.Queue.
HasRoom(s) == Len(queue[s]) < Capacity

\* asyncio.Lock: an acquirer takes a free lock only when nobody is queued;
\* release frees it and wakes the first waiter, which is not yet the owner.
LockFreeIgnoringHolder(p) == waiters[p] = <<>>
LockFree(p) == holder[p] = NoSession /\ waiters[p] = <<>>
ReleaseUnlessCanceled(s) ==
  /\ holder' = [holder EXCEPT ![PathOf[s]] = IF active[s] \in canceled
                                             THEN @ ELSE NoSession]
  /\ UNCHANGED waiters
Release(s) == /\ holder' = [holder EXCEPT ![PathOf[s]] = NoSession]
              /\ UNCHANGED waiters

\* First statements under the lock: a worker that showed the waiting card
\* updates it, unless sending that card had failed.  This is the last use of
\* lock_contended.
EnterLock(s) ==
  /\ holder' = [holder EXCEPT ![PathOf[s]] = s]
  /\ status' = [status EXCEPT ![s] = "executing"]
  /\ contended' = contended \ {s}
  /\ \E messageSent \in BOOLEAN :
       Goto(s, IF s \in contended /\ messageSent THEN "update" ELSE "ready")

\* session.cancel_permission()
CancelPermissionDropsFuture(s) ==
  future' = [future EXCEPT ![s] = IF @ = "pending" THEN "none" ELSE @]
CancelPermission(s) ==
  future' = [future EXCEPT ![s] = IF @ = "pending" THEN "cancelled" ELSE @]

\* The finally block of run(), after which the coroutine is at "next"; the
\* frame of _execute_task and its use of the runtime are over.
EndTaskEndsWorker(s, next) ==
  /\ active' = [active EXCEPT ![s] = NoTask]
  /\ status' = [status EXCEPT ![s] = "idle"]
  /\ local' = [local EXCEPT ![s] = "shared"]
  /\ gone' = gone \ {s}
  /\ Goto(s, "none")
EndTask(s, next) ==
  /\ active' = [active EXCEPT ![s] = NoTask]
  /\ status' = [status EXCEPT ![s] = "idle"]
  /\ local' = [local EXCEPT ![s] = "shared"]
  /\ gone' = gone \ {s}
  /\ Goto(s, next)

-----------------------------------------------------------------------------
(* Dispatcher *)

\* put_nowait and the notices that follow; a full queue refuses the task.
Dispatch(t) ==
  LET s == OwnerOf[t] IN
  /\ t \notin arrived
  /\ arrived' = arrived \cup {t}
  /\ IF HasRoom(s)
     THEN /\ queue' = [queue EXCEPT ![s] = Append(@, t)]
          /\ pending' = [pending EXCEPT ![s] = @ \cup {t}]
          /\ acking' = acking \cup {t}
          /\ UNCHANGED shown
     ELSE /\ shown' = [shown EXCEPT ![t] = Append(@, "full")]
          /\ UNCHANGED <<queueVars, acking>>
  /\ UNCHANGED <<active, status, canceled, local, pc, contended, lockVars,
                 askVars, gone, closing, dropped>>

\* _ensure_worker: start a worker unless one is still running.
EnsureWorker(t) ==
  LET s == OwnerOf[t] IN
  /\ t \in acking
  /\ acking' = acking \ {t}
  /\ pc' = [pc EXCEPT ![s] = IF @ = "none" THEN "get" ELSE @]
  /\ UNCHANGED <<arrived, queueVars, active, status, canceled, local,
                 contended, lockVars, askVars, gone, closing, dropped, shown>>

-----------------------------------------------------------------------------
(* Worker: from the queue to the agent *)

\* Dequeue; a task canceled while queued is skipped.  Otherwise look at the
\* lock and start sending the waiting card or the progress card.
Take(s) ==
  LET t    == Head(queue[s])
      busy == holder[PathOf[s]] # NoSession
  IN
  /\ pc[s] = "get"
  /\ queue[s] # <<>>
  /\ queue' = [queue EXCEPT ![s] = Tail(@)]
  /\ pending' = [pending EXCEPT ![s] = @ \ {t}]
  /\ IF t \in canceled
     THEN UNCHANGED <<active, status, pc, contended>>
     ELSE /\ active' = [active EXCEPT ![s] = t]
          /\ contended' = IF busy THEN contended \cup {s} ELSE contended
          /\ status' = [status EXCEPT ![s] =
                          IF busy THEN "waiting_lock" ELSE "executing"]
          /\ Goto(s, "card")
  /\ UNCHANGED <<dispatchVars, canceled, local, lockVars, askVars, gone,
                 closing, dropped, shown>>

\* The first card is out; "async with path_lock" takes the lock or queues.
CardSent(s) ==
  LET p == PathOf[s] IN
  /\ pc[s] = "card"
  /\ \/ /\ LockFree(p)
        /\ EnterLock(s)
        /\ UNCHANGED waiters
     \/ /\ ~LockFree(p)
        /\ waiters' = [waiters EXCEPT ![p] = Append(@, s)]
        /\ Goto(s, "wait")
        /\ UNCHANGED <<holder, status, contended>>
  /\ UNCHANGED <<dispatchVars, queueVars, active, canceled, local, askVars,
                 gone, closing, dropped, shown>>

\* The first waiter resumes once the lock is free.
LockWake(s) ==
  LET p == PathOf[s] IN
  /\ pc[s] = "wait"
  /\ holder[p] = NoSession
  /\ s = Head(waiters[p])
  /\ waiters' = [waiters EXCEPT ![p] = Tail(@)]
  /\ EnterLock(s)
  /\ UNCHANGED <<dispatchVars, queueVars, active, canceled, local, askVars,
                 gone, closing, dropped, shown>>

UpdateSent(s) ==
  /\ pc[s] = "update"
  /\ Goto(s, "ready")
  /\ UNCHANGED <<dispatchVars, queueVars, active, status, canceled, local,
                 contended, lockVars, askVars, gone, closing, dropped, shown>>

\* ensure_ready succeeded.  Memory facts, mentions or the requester's id are
\* injected by replacing the task with a copy; without any of them the queued
\* object itself goes to execute().
StartExecute(s) ==
  /\ pc[s] = "ready"
  /\ \E object \in {"shared", CopyOfTask(s)} :
       local' = [local EXCEPT ![s] = object]
  /\ Goto(s, "run")
  /\ UNCHANGED <<dispatchVars, queueVars, active, status, canceled, contended,
                 lockVars, askVars, gone, closing, dropped, shown>>

\* ensure_ready raised: the error card is sent under the lock.
ReadyFailed(s) ==
  /\ pc[s] = "ready"
  /\ Goto(s, "report")
  /\ Notify(s, "failed")
  /\ UNCHANGED <<dispatchVars, queueVars, active, status, canceled, local,
                 contended, lockVars, askVars, gone, closing, dropped>>

-----------------------------------------------------------------------------
(* Worker: how execute() ends *)

\* The agent answered the prompt, or the loop saw the local flag: the lock is
\* released, and the local flag decides between result and cancel card.
Finish(s) ==
  /\ pc[s] = "run"
  /\ s \notin gone
  /\ Release(s)
  /\ status' = [status EXCEPT ![s] = "done"]
  /\ Notify(s, IF LocalCanceled(s) THEN "cancelled" ELSE "result")
  /\ Goto(s, "final")
  /\ UNCHANGED <<dispatchVars, queueVars, active, canceled, local, contended,
                 askVars, gone, closing, dropped>>

\* execute() raised anything else: the error card is sent under the lock.
Fail(s) ==
  /\ pc[s] = "run"
  /\ status' = [status EXCEPT ![s] = "done"]
  /\ Notify(s, "failed")
  /\ Goto(s, "report")
  /\ UNCHANGED <<dispatchVars, queueVars, active, canceled, local, contended,
                 lockVars, askVars, gone, closing, dropped>>

\* The deadline of the task passed: evict the runtime, then report.
Timeout(s) ==
  /\ pc[s] = "run"
  /\ status' = [status EXCEPT ![s] = "done"]
  /\ Goto(s, "evict")
  /\ UNCHANGED <<dispatchVars, queueVars, active, canceled, local, contended,
                 lockVars, askVars, gone, closing, dropped, shown>>

Evicted(s) ==
  /\ pc[s] = "evict"
  /\ Notify(s, "failed")
  /\ Goto(s, "report")
  /\ UNCHANGED <<dispatchVars, queueVars, active, status, canceled, local,
                 contended, lockVars, askVars, gone, closing, dropped>>

\* A card sent under the lock is out: leave the lock and the task.
Reported(s) ==
  /\ pc[s] = "report"
  /\ Release(s)
  /\ EndTask(s, "get")
  /\ UNCHANGED <<dispatchVars, queueVars, canceled, contended, askVars,
                 closing, dropped, shown>>

FinalSent(s) ==
  /\ pc[s] = "final"
  /\ EndTask(s, "get")
  /\ UNCHANGED <<dispatchVars, queueVars, canceled, contended, lockVars,
                 askVars, closing, dropped, shown>>

\* Something else raised: get_or_create, restore_session or the memory template
\* before execute(), saving the session id or parsing the answer's memory tags
\* after it.  The exception gives the lock back and passes run()'s finally; it
\* is caught outside the loop, so it is logged and the worker ends, with no
\* notice for the task.
Unhandled(s) ==
  /\ pc[s] \in {"ready", "run"}
  /\ pc[s] = "run" => s \notin gone
  /\ active[s] \in Fragile
  /\ Release(s)
  /\ EndTask(s, "none")
  /\ dropped' = dropped \cup {active[s]}
  /\ UNCHANGED <<dispatchVars, queueVars, canceled, contended, askVars,
                 closing, shown>>

-----------------------------------------------------------------------------
(* Permission requests (ACP executors only) *)

\* The card is sent first ...
Ask(s) ==
  /\ pc[s] = "run"
  /\ s \in AcpSession
  /\ s \notin gone
  /\ asked[s] < MaxAsk
  /\ asked' = [asked EXCEPT ![s] = @ + 1]
  /\ cards' = [cards EXCEPT ![s] = @ \cup {asked[s] + 1}]
  /\ Goto(s, "ask")
  /\ UNCHANGED <<dispatchVars, queueVars, active, status, canceled, local,
                 contended, lockVars, future, gone, closing, dropped, shown>>

\* ... and only then is the future registered and awaited.
AskSent(s) ==
  /\ pc[s] = "ask"
  /\ future' = [future EXCEPT ![s] = "pending"]
  /\ status' = [status EXCEPT ![s] = "waiting_permission"]
  /\ Goto(s, "perm")
  /\ UNCHANGED <<dispatchVars, queueVars, active, canceled, local, contended,
                 lockVars, asked, cards, gone, closing, dropped, shown>>

\* resolve_permission: no-op unless a future is pending.
Resolve(s, choice) ==
  future' = [future EXCEPT ![s] = IF @ = "pending" THEN choice ELSE @]

\* A click names the session and the option, not the request; the clicked
\* card loses its buttons whether or not the click found a future.
Click(s, r, choice) ==
  /\ r \in cards[s]
  /\ cards' = [cards EXCEPT ![s] = @ \ {r}]
  /\ Resolve(s, choice)
  /\ UNCHANGED <<dispatchVars, queueVars, active, status, canceled, local, pc,
                 contended, lockVars, asked, gone, closing, dropped, shown>>

\* A digit typed in the chat is a reply only while a future is pending.
TextReply(s, choice) ==
  /\ future[s] = "pending"
  /\ Resolve(s, choice)
  /\ UNCHANGED <<dispatchVars, queueVars, active, status, canceled, local, pc,
                 contended, lockVars, asked, cards, gone, closing, dropped, shown>>

\* The worker resumes with a choice; a refusal marks the active task.  With
\* the runtime stopped meanwhile the response cannot be sent and execute fails.
PermissionAnswered(s) ==
  /\ pc[s] = "perm"
  /\ future[s] \in {"allow", "deny"}
  /\ future' = [future EXCEPT ![s] = "none"]
  /\ canceled' = IF future[s] = "deny" THEN canceled \cup {active[s]}
                                       ELSE canceled
  /\ IF s \in gone
     THEN /\ status' = [status EXCEPT ![s] = "done"]
          /\ Notify(s, "failed")
          /\ Goto(s, "report")
     ELSE /\ Goto(s, "run")
          /\ UNCHANGED <<status, shown>>
  /\ UNCHANGED <<dispatchVars, queueVars, active, local, contended, lockVars,
                 asked, cards, gone, closing, dropped>>

\* The awaited future was cancelled: CancelledError travels through execute()
\* to _execute_task, which flags its own object and sends the cancel card.
PermissionCancelled(s) ==
  /\ pc[s] = "perm"
  /\ future[s] = "cancelled"
  /\ future' = [future EXCEPT ![s] = "none"]
  /\ IF local[s] = "shared"
     THEN /\ canceled' = canceled \cup {active[s]}
          /\ UNCHANGED local
     ELSE /\ local' = [local EXCEPT ![s] = "set"]
          /\ UNCHANGED canceled
  /\ status' = [status EXCEPT ![s] = "canceled"]
  /\ Notify(s, "cancelled")
  /\ Goto(s, "abort")
  /\ UNCHANGED <<dispatchVars, queueVars, active, contended, lockVars, asked,
                 cards, gone, closing, dropped>>

\* The exception leaves the lock and reaches run(), which notifies again only
\* if the queued object is not flagged, and ends the worker.
Aborted(s) ==
  /\ pc[s] = "abort"
  /\ Release(s)
  /\ IF active[s] \in canceled
     THEN UNCHANGED <<canceled, shown>>
     ELSE /\ canceled' = canceled \cup {active[s]}
          /\ Notify(s, "cancelled")
  /\ EndTask(s, "none")
  /\ UNCHANGED <<dispatchVars, queueVars, contended, askVars, closing, dropped>>

-----------------------------------------------------------------------------
(* Commands and the janitor *)

\* What /stop and /done do first, before their first await.
CancelActiveUnflagged(s) ==
  /\ UNCHANGED canceled
  /\ CancelPermission(s)
CancelActive(s) ==
  /\ canceled' = IF active[s] = NoTask THEN canceled
                                       ELSE canceled \cup {active[s]}
  /\ CancelPermission(s)

Stop(s) ==
  /\ "stop" \in Command
  /\ active[s] # NoTask
  /\ CancelActive(s)
  /\ UNCHANGED <<dispatchVars, queueVars, active, status, local, pc, contended,
                 lockVars, asked, cards, gone, closing, dropped, shown>>

\* runtime.stop() cancels the reader without a sentinel: an execute() waiting
\* for a message gets none, unless the last one was already queued, and one
\* suspended in a permission request has lost its client.  A direct runtime
\* sees end of file instead and finishes.
RuntimeStopped(s) ==
  \E lost \in SUBSET ({s} \cap AcpSession) :
    /\ lost # {} => pc[s] \in {"run", "ask", "perm"}
    /\ (s \in AcpSession /\ pc[s] \in {"ask", "perm"}) => lost # {}
    /\ gone' = gone \cup lost

DoneBegin(s) ==
  /\ "done" \in Command
  /\ closing[s] = "none"
  /\ CancelActive(s)
  /\ closing' = [closing EXCEPT ![s] = "cancel"]
  /\ UNCHANGED <<dispatchVars, queueVars, active, status, local, pc, contended,
                 lockVars, asked, cards, gone, shown, dropped>>

\* runtime.cancel() returned: drain the queue, pop and stop the runtime.
DoneDrainKeepsPending(s) ==
  /\ closing[s] = "cancel"
  /\ queue' = [queue EXCEPT ![s] = <<>>]
  /\ RuntimeStopped(s)
  /\ closing' = [closing EXCEPT ![s] = "stop"]
  /\ UNCHANGED <<dispatchVars, pending, active, status, canceled, local, pc,
                 contended, lockVars, askVars, shown, dropped>>
DoneDrain(s) ==
  /\ closing[s] = "cancel"
  /\ queue' = [queue EXCEPT ![s] = <<>>]
  /\ pending' = [pending EXCEPT ![s] = {}]
  /\ RuntimeStopped(s)
  /\ closing' = [closing EXCEPT ![s] = "stop"]
  /\ UNCHANGED <<dispatchVars, active, status, canceled, local, pc, contended,
                 lockVars, askVars, shown, dropped>>

DoneEnd(s) ==
  /\ closing[s] = "stop"
  /\ closing' = [closing EXCEPT ![s] = "none"]
  /\ UNCHANGED <<dispatchVars, queueVars, active, status, canceled, local, pc,
                 contended, lockVars, askVars, gone, shown, dropped>>

\* The janitor reaps a runtime whose last execute() started long ago, also
\* when that execute() has not ended.
Reap(s) ==
  /\ "reap" \in Command
  /\ pc[s] \in {"run", "ask", "perm"}
  /\ RuntimeStopped(s)
  /\ UNCHANGED <<dispatchVars, queueVars, active, status, canceled, local, pc,
                 contended, lockVars, askVars, closing, dropped, shown>>

-----------------------------------------------------------------------------
Choice == {"allow", "deny"}

WorkerStep(s) ==
  \/ Take(s) \/ CardSent(s) \/ LockWake(s) \/ UpdateSent(s)
  \/ StartExecute(s) \/ ReadyFailed(s)
  \/ Evicted(s) \/ Reported(s) \/ FinalSent(s)
  \/ AskSent(s) \/ PermissionAnswered(s) \/ PermissionCancelled(s)
  \/ Aborted(s)

ExecuteEnds(s) == Finish(s) \/ Fail(s) \/ Timeout(s)

UserReply(s) ==
  \/ \E r \in 1..MaxAsk, choice \in Choice : Click(s, r, choice)
  \/ \E choice \in Choice : TextReply(s, choice)

Done(s) == DoneBegin(s) \/ DoneDrain(s) \/ DoneEnd(s)

Next ==
  \/ \E t \in Task : Dispatch(t) \/ EnsureWorker(t)
  \/ \E s \in Session :
       \/ WorkerStep(s) \/ ExecuteEnds(s) \/ Unhandled(s) \/ Ask(s)
       \/ UserReply(s) \/ Stop(s) \/ Done(s) \/ Reap(s)

Spec == Init /\ [][Next]_vars

\* Awaits on Feishu and on the runtime complete or time out; a dispatch()
\* coroutine and a command handler run to their end; every execute() has a
\* deadline.  Users, the agent's requests, exceptions and new messages are not
\* fair.
Fairness ==
  /\ \A t \in Task : WF_vars(EnsureWorker(t))
  /\ \A s \in Session : /\ WF_vars(WorkerStep(s))
                        /\ WF_vars(ExecuteEnds(s))
                        /\ WF_vars(DoneDrain(s) \/ DoneEnd(s))

FairSpec == Spec /\ Fairness

\* Moreover users answer the permission requests that are pending.
AnsweringSpec ==
  FairSpec /\ \A s \in Session :
                WF_vars(\E choice \in Choice : TextReply(s, choice))

-----------------------------------------------------------------------------
(* Properties *)

\* Two sessions on one directory are never both between acquiring and
\* releasing its lock (worker.py, "async with path_lock").
PathExclusion ==
  \A s, u \in Session :
    (s # u /\ PathOf[s] = PathOf[u]) => ~(pc[s] \in Critical /\ pc[u] \in Critical)

\* A task gets at most one terminal notice, though three places can send the
\* cancel card and a dying worker passes two of them; the guard in run() works
\* because whoever cancels a permission request flags its task first.
NoticeOnce == \A t \in Task : Len(shown[t]) <= 1

\* As long as nobody closes the thread, every message dispatch() saw is queued,
\* running or was answered, or its worker ended with an exception while it held
\* it; no other path through worker, refusal or death of the worker forgets one,
\* and that exception takes no other message with it.
NoTaskLost ==
  \A t \in arrived : \/ InQueue(t)
                    \/ active[OwnerOf[t]] = t
                    \/ shown[t] # <<>>
                    \/ t \in dropped

\* A worker suspended on the path lock is in its FIFO exactly once, so no
\* release can miss it, and a lock is owned only by a worker that will
\* release it: an owner is inside the critical section or nobody owns it.
LockConsistent ==
  /\ \A p \in Path :
       /\ Range(waiters[p]) = {s \in Session : PathOf[s] = p /\ pc[s] = "wait"}
       /\ IsInjective(waiters[p])
  /\ \A p \in Path : \A s \in Session :
       holder[p] = s <=> (pc[s] \in Critical /\ PathOf[s] = p)

\* /task lists pending_tasks and the worker consumes task_queue: the two are
\* written in four places and must list the same tasks.
PendingMirrorsQueue == \A s \in Session : pending[s] = Range(queue[s])

\* A worker waiting for the path lock gets it: the lock is FIFO and every
\* owner leaves the critical section.
LockGranted == \A s \in Session : pc[s] = "wait" ~> pc[s] \in Critical

\* A task that was started ends.
TaskEnds ==
  \A t \in Task : (active[OwnerOf[t]] = t) ~> (active[OwnerOf[t]] # t)

\* A session with messages in its queue has a worker, or a dispatch() that is
\* about to start one.
Attended(s) ==
  queue[s] = <<>> \/ pc[s] # "none" \/ \E t \in acking : OwnerOf[t] = s

\* A worker that dies while its last look at the queue is out of date leaves
\* messages behind: only CancelledError, which run() re-raises (worker.py 230),
\* and an exception outside execute() (worker.py 241) do that, whatever /stop,
\* /done, the janitor, a failure or a full queue do meanwhile.
OnlyDeathStrands ==
  [][\A s \in Session : Attended(s) /\ ~Attended(s)'
                           => Aborted(s) \/ Unhandled(s)]_vars

\* A message accepted into the queue leaves it, unless its worker dies and
\* leaves the queue to nobody.
QueueMoves ==
  \A t \in Task : InQueue(t) ~> (~InQueue(t) \/ ~Attended(OwnerOf[t]))

(* The inductive invariant behind the safety properties. *)

\* Where a task is: nowhere before dispatch(), then in the queue of its
\* session once, then active there while the worker is busy; a flag is only
\* ever set on a task that was active.
TaskDiscipline ==
  /\ \A s \in Session :
       /\ active[s] # NoTask <=> pc[s] \in Busy
       /\ active[s] # NoTask => /\ OwnerOf[active[s]] = s
                                /\ active[s] \in arrived
                                /\ active[s] \notin Range(queue[s])
       /\ \A t \in Range(queue[s]) : OwnerOf[t] = s /\ t \in arrived \ canceled
       /\ IsInjective(queue[s])
  /\ canceled \subseteq arrived

\* Where the terminal notice of a task is due: not before its worker has left
\* execute(), there from then on, and only once.
NoticeDiscipline ==
  /\ \A t \in Task \ arrived : shown[t] = <<>>
  /\ \A s \in Session :
       /\ \A t \in Range(queue[s]) : shown[t] = <<>>
       /\ pc[s] \in Busy => (pc[s] \in Unreported <=> shown[active[s]] = <<>>)
  /\ NoticeOnce

\* A permission future exists only while its worker waits for it, and whoever
\* cancels one has flagged the task: the guard in run() relies on the flag.
AbortDiscipline ==
  \A s \in Session :
    /\ future[s] # "none" => pc[s] = "perm"
    /\ future[s] = "cancelled" => active[s] \in canceled
    /\ pc[s] = "abort" => active[s] \in canceled

IInv ==
  TypeOK /\ LockConsistent /\ TaskDiscipline /\ NoticeDiscipline /\ AbortDiscipline

(* What the task path promises *)

Told == {t \in Task : shown[t] # <<>>}

Abstract == INSTANCE TaskService WITH
  seen <- arrived, line <- queue, running <- active, owner <- holder,
  told <- Told

\* Workers, cards, commands and reaped runtimes together serve the messages of
\* a session one at a time, in order, each at most once, exclusively per
\* directory (doc/design.md 447-449), and tell its sender how it ended before
\* they forget it, unless an exception ends the worker.
ServesTasks == Abstract!Spec

(* A claim the code does not keep. *)

\* doc/design.md 365: a running task that was stopped ends CANCELED, it is not
\* reported as done.
StopIsReported ==
  [][\A s \in Session :
       (pc[s] = "run" /\ active[s] \in canceled /\ pc'[s] = "final")
          => shown'[active[s]] = <<"cancelled">>]_vars
=============================================================================
