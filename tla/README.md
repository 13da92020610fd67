# A verification project for NextMe

NextMe is a bot: a Feishu (Lark) chat drives coding agents on the owner's
machine. It is one Python process and one asyncio loop. Whatever stands between
two `await`s is atomic, and every `await` is a point where messages, clicks,
commands, timers and other coroutines come in. The hard behaviours are
all of that kind: state read before an await and used after it, two coroutines
that write one queue, a process that dies under a task, a restart between two
writes.

The modules here follow the code at this granularity: an action is the code
between two awaits, and where an awaited call changes state elsewhere (a row, a
process) that change is an action of its own.

## 1. Inventory

| Component | State | Operations | Interacts with | Hard behaviour | What makes it correct |
|---|---|---|---|---|---|
| Session, worker, path lock (`core/session.py`, `core/worker.py`, `core/path_lock.py`) | `task_queue`, `pending_tasks`, `active_task`, `status`, `perm_future`, the lock of a directory and its FIFO | enqueue, run a task, ask for permission, finish, fail, time out, be cancelled | dispatcher (enqueues, starts workers), commands (cancel), runtime (execute) | /stop, /done and the janitor act at any await; two sessions share a directory | a directory has one worker; a message is served at most once, in order, and answered once; nobody waits for ever |
| Dispatcher (`core/dispatcher.py`) | parked roots, workers, registry of sessions | `dispatch`, `_ensure_worker`, `_on_thread_closed`, card actions, meta commands | everything | role check awaited before the limits are read; closings schedule new dispatches | limits hold; who waits is served; replies reach the right task |
| Commands (`core/commands.py`) | none of their own | /stop, /done, /new, /thread, /acl, /project, /task | session, registry, state store | stop a session that is in the middle of anything | the session stays usable |
| ACP runtime and registry (`acp/runtime.py`, `acp/client.py`, `acp/protocol.py`) | process, reader task, message queue, request ids, session id | `ensure_ready`, `execute`, `stop`, `cancel`, registry get/remove | worker, janitor, agent process | crash, deadline, stop during spawn, late messages | text and responses go to the prompt they belong to; a crash wakes the worker; no process without owner |
| Janitor (`acp/janitor.py`) | none | reap idle runtimes | registry | works on a list that is stale after each await | idle processes end, busy ones do not |
| Direct runtime (`acp/direct_runtime.py`) | process of the prompt, stop flag, session id | `execute`, `cancel`, `stop` | worker | deadline and stop flag looked at only when a line arrives | execute ends |
| Session identity (`session.actual_id`, spread over worker, /new, runtime and state store) | the id of the agent's conversation, in four places | restore, learn, save, clear, flush | worker, commands, state store, `main.py` | a task starts or ends between the steps of /new; the runtime with the only copy is dropped; a crash before the flush | a task goes on with the newest conversation it must not lose, and with none that /new ended |
| Scheduler (`scheduler/*`) | table `scheduled_tasks` | tick, create, pause, resume, delete | dispatcher, SQLite | snapshot of due rows, awaited dispatch, crash before the record | runs are bounded; due tasks are dealt with; deleted ones stay deleted |
| Access control (`acl/*`) | tables `acl_users`, `acl_applications`, admins of the settings | apply, review, /acl add, remove, approve, reject, reload | dispatcher | each statement is awaited; approval is two writes | one pending application; decisions stand; rights come from someone who had them |
| Handler and dedup (`feishu/handler.py`, `feishu/dedup.py`) | active threads, recent message ids | receive message, receive click | dispatcher, state store | third copy of the set of active threads; redelivery | replies routed; a message runs once |
| State store (`config/state_store.py`) | bindings, session ids, thread records, dirty flag | set, get, flush, debounce loop | dispatcher, main | crash before the flush, loop that ends on an error | what was flushed is found again |
| Memory (`memory/*`) | facts of each user: cache, dirty set, `facts.json` | load, add, replace, forget, flush, debounce loop | worker, /remember, `main.py` | facts named by an index that may be stale; a full list; a write that fails | a fact that was accepted stays until it is forgotten; the file catches up |
| Contexts (`context/*`) | none while the bot runs | save, load | `main.py` constructs the manager, nothing calls it | - | - |
| Process life cycle (`main.py`) | order of start and shutdown, PID file | start, SIGHUP, shutdown | everything | drain, stop and flush in the right order | finished work is saved |
| Feishu client and cards, skills, configuration, prompts, scripts | little | send, render, load | - | none beyond failing calls | - |

Modelled: all rows but the last and the contexts; what is left out of each is
in section 6. `PROJECT.json` has it component by component, and the hazards with
the lines where they bite.

## 2. Modules

| Module | What it is |
|---|---|
| `SessionWorker` | session, worker, path lock, permission requests, /stop, /done, reaping |
| `TaskService` | the abstract service that `SessionWorker` implements: an ordered line per session, one message served at a time, one session per directory |
| `QueueFacts`, `SessionWorkerProofs` | facts on queues without duplicates; the proofs about `SessionWorker` |
| `ThreadSlots`, `ThreadSlotsProofs` | group threads: limit, parked roots, closings, routing, restarts; proofs |
| `AcpRuntime`, `AcpRuntimeProofs` | one session's agent runtime: processes, reader, requests, prompts, registry, janitor; proofs |
| `PromptService` | the abstract service that `AcpRuntime` implements: one prompt at a time, its news, its answer |
| `DirectRuntime` | the other runtime: one `claude --print` process per prompt |
| `SessionIdentity`, `SessionIdentityProofs` | which conversation a task resumes: composes `DirectRuntime` with worker, /new, janitor, state store and shutdown; proofs |
| `MemoryManager`, `MemoryManagerProofs` | the facts of the users, and the workers that show and change them; proofs |
| `FactStore` | the abstract store that `MemoryManager` implements: a list per user that changes one fact at a time, and a file of such lists |
| `Scheduler`, `SchedulerProofs` | scheduled tasks: rows, ticks, commands, crashes; proofs |
| `Acl`, `AclProofs` | users, applications, handlers, reloads, restarts; proofs |
| `AccessService` | the abstract service that `Acl` implements: orders given by people with the right to, each executed once or never |
| `MC*` | instances for TLC |

No module declares a RECURSIVE operator. Constants have named assumptions.
Definitions that stand right before the one whose name they extend
(`LockFreeIgnoringHolder`, `InsertUnchecked`, ...) are faulty variants: no
specification uses them, the mutation runs put them in the place of the original
to see that a property notices.

### SessionWorker

`pc[s]` is the await at which the worker of session `s` is suspended: `get`
(`task_queue.get`), `card` (the first card), `wait` (the lock), `update`,
`ready` (`ensure_ready`), `run` (`execute`), `ask` and `perm` (a permission card
is being sent, is waited for), `evict`, `report` (errors and timeouts, still under the lock),
`abort` (cancelled) and `final` (the result card, after the lock).
`Dispatch` and `EnsureWorker` are the two halves of `dispatch()` around the
acknowledgement it sends. `Take`, `CardSent`, `LockWake`, `UpdateSent`,
`StartExecute`, `Finish`, `Fail`, `Timeout`, `Reported` and `FinalSent` are
`_execute_task`; `Ask`, `AskSent`, `PermissionAnswered` and
`PermissionCancelled` are `_on_permission`; `Click` and `TextReply` are the two
ways a user answers; `Stop`, `DoneBegin`/`DoneDrain`/`DoneEnd` and `Reap` reach
in from outside. asyncio's lock is modelled with its FIFO: release leaves the
lock free and wakes the first waiter, so a newcomer may not overtake.
`local[s]` says whether the worker holds the queued task object or a copy made
by `dataclasses.replace`; the flag `canceled` lives on the object.

`Unhandled` is the `except Exception` of `run()` (`worker.py:241-245`), which stands outside
its loop: an exception of `_execute_task` outside `ensure_ready()` and `execute()`
(the `int()` of a memory tag's index, the state store, the memory template, `get_or_create`)
releases the lock, is logged and ends the worker; its task gets no notice (`dropped`).
Which messages can raise is the constant `Fragile`.

`Attended(s)`: messages in the queue of `s` have a worker, or a `dispatch()` on
its way to start one. `OnlyDeathStrands` says which steps may end that: the
worker's end by `CancelledError` (`Aborted`) or by such an exception (`Unhandled`), and none of
the others. `QueueMoves` says that a queued message is taken out unless that happened.
`NoTaskLost` lets go of the one message an exception took, and of no other.

`TaskService` knows who was told how his message ended: a task ends after its
sender was told (`Tell`, `End`), or in a breakdown of its session (`Drop`).

Merged steps: `Click` is the handler's replacement of the buttons and the
`call_soon_threadsafe` that resolves the future; `Aborted` is the worker's end
after a cancellation with the card it sends. Messages and answers are model
values, cards are the fact that a terminal notice was sent (`shown`).

### ThreadSlots

One chat, as chats share nothing. `Arrive` is the handler, `Dispatched` the part
of `dispatch()` after the await of the sender's role (`Deny`, `RunCommand`,
`Admit` or `Park`; `Deny` is any way to be turned away: the role is gone, reading
it raises, or no project is configured), `DoneCommand`/`ThreadClose`/`DoneCloses` the two halves of
`handle_done`, `ThreadClosed` what `_on_thread_closed` does to the record, the
handler's set and the line. `Flush` writes the records to disk at any time,
`Restart` reads them. The faults `early` (a /done overtakes the role check of its root)
and `revoke` (a parked sender loses the role) are off in the runs.

### AcpRuntime

The worker inside `ensure_ready` and `execute` (`at`), the object's fields, the
processes, their pipes, and the reader task per process. `ensure_ready` is
visited twice for a task, since the worker and `execute()` both call it. A
message is `[kind, id, turn]`; text is the set of turns it came from.
`_wait_response` sets messages of others aside and puts them back at the end
(`Requeue`). What the agent says while `initialize`, `session/new` or `session/load`
is awaited, such as the history it replays, is a chunk of turn 0 (`History`): it is put
back, read in the next prompt, and becomes part of that task's text
(`acp/runtime.py:488-492`, `:786-792`). `MaxReplay` bounds it.
The reader ends with its process (`ReadEof`), or while the process goes on when its
output cannot be read (`ReadBreaks`, fault `break`; `acp/client.py:113`). It leaves the sentinel in
both cases, but in the second `is_running` stays true, `ensure_ready()` spawns nothing, and
the next session requests get no response until somebody removes the runtime.
`Remove` is /done, /thread close and the janitor, which all end in
`registry.remove`. The session id is set again at `Begin`, or not (`/new`).
Assumptions, each a fault that can be switched on: without `lag` the reader of a
dead process has delivered everything before a new one is spawned; without
`race` nobody stops a runtime during `ensure_ready`; without `badinit` a process
that starts accepts `initialize` and its output does not break before that.
`PromptService` is what a worker may rely on: it knows a number per prompt, what
was said about it that nobody has read (`news`), and the prompts cut short
(`cut`), whose late messages may be heard later, as may history. Its `Answer` needs that the
response is the only news left, so a prompt never ends before what was said
about it came through. `AcpRuntime` maps `News` from the messages and requests
that are about the current turn, wherever they are.
The `session/cancel` that /stop sends by itself is left out: the response has an id of
its own and is ignored like any other stale one.

### DirectRuntime and SessionIdentity

`DirectRuntime` is the object and the process of the prompt: `at` is the await
inside `execute()` (spawn, writing the prompt, reading), `proc` the process.
`Spawned`, `Fed`, `System`, `Result`, `Interrupted`, `Overtime`, `Eof` and
`Broken` are the ways it goes on; `Cancel` and `Stop` come from others. Ids are
numbered as the agent mints them, 0 is None, so newer is greater; an agent that
resumes may answer under the old id or under a new one.

`SessionIdentity` puts it under a worker (`Take`, `Begin`, `Return`, `Raise`,
`TimeOut`, `FinalSent`) and keeps the four copies of the id: `actual` in the
object, `session`, `mem` in the store, `disk` in `state.json`. `Begin` is the
step from the lock to `execute()`, which contains `restore_session()`. `NewBegin` and
`NewEnd` are /new before and after its confirmation. `Reap` may
act on a runtime at work, since the janitor compares a time that is set when
`execute()` begins. `Debounce` may fail, which ends the loop. `Signal` to
`Exited` is the shutdown of `main.py`: suppress, stop Feishu, drain, stop the
runtimes, flush; messages may still be queued then (`Enqueue`), as the scheduler and
called roots dispatch until `main.py:566`. `Restart` loads the file, after `Exited` or after a crash; a
file it cannot read is a blank state (`state_store.py:259`), so `owed` is then 0.
The module is about the direct runtime; how an ACP agent loads a session is in `AcpRuntime`.
Merged: the awaits of the cards of one task; the drain's `join()` and its 30
seconds (`Drained` is enabled at once); SIGTERM and SIGKILL in `stop()`. A queue
holds one message, as identity does not depend on how many wait.
History variables: `owed` is the id the next task must not fall behind, `forgot`
the newest id a /new ended, `filed` both at the last write.

### MemoryManager

Nothing is awaited inside the manager, so a call is a step. `Begin` shows the
facts to a new conversation (`shown`), `Answer` starts the operations of the
answer, `AddOp`, `ReplaceOp` and `ForgetOp` are one `<memory>` tag each and
`Applied` the end; nothing else runs in between (`Free`). `Remember` is /remember,
`Debounce` a round of the loop and `Shutdown` the last flush, each with any set of
users whose write fails. Every fact the code makes has confidence 0.9,
so the stable sort of `add_fact` leaves the order and the cut drops from the end
(`Cut`): the new fact, and those before it that are past the limit, which SIGHUP may have
lowered since (`Reload`; `limit` is read at each addition, `memory/manager.py:211`). `facts.json` may be unreadable:
as JSON, and then counts as empty (`Misses`, `misread`; `:75`) until the next addition is
flushed over it, or in a way that makes `load()` raise (`LoadFails`). A malformed
operation raises before any operation of its answer is applied, which is `Answer`
and `Applied` with nothing in between. /remember confirms its fact even when `load()` raised.
Similarity of texts is a relation (`Like`); the two files that
nothing changes, and negative limits, are left out. `FactStore` maps `memory` to the list a manager
would answer with (`Facts`, from the cache or else the file), so a load, a
merge that only raises a confidence, and a fact refused by a full list stutter. It has two steps
that take several facts: the cut to a lowered limit (`Refuse`) and the unreadable file (`Miss`).

### Scheduler

`Tick` takes the snapshot (`due`, `seen`), `Pick` the next task of it,
`Dispatch` fires it, `UpdateAfterRun` writes the row from what the
snapshot said, and `Proceed` goes on to the next. `UpdateFails`, `Crash` (also between two tasks of a tick), and a failing write of the
run log in `UpdateAfterRun` end the tick. `NextRunFails` is the `OverflowError` of
`compute_next_run` for an interval no datetime can hold (`Huge`): the row is not
updated, and the tick ends at it every time. A `cron` row may end at
any run, as `croniter` may be missing or fail. Times are `later`,
`due`, `overdue` and `null`; `Pass` is the clock. As `list_due` compares ISO
texts, a time written with an offset is past as a text too early (`West`, the time
`early`) or long after it is due (`East`, the time `stale`): `Selected` is what `list_due`
returns, `IsDue` the true time. `/schedule` sets no `max_runs`,
so the instance has limits on `once` rows alone; the
proofs hold for any limit and any offsets. `count` is kept only for tasks that have one.
The grace settings -1 and 0 are not varied.

### Acl

`req[r]` is the handler of a click or command: where it waits and its locals.
`Apply`, `Review`, `Add` and `Remove` are the beginning of the handlers up to
the role they read; `CheckPending` and `Insert`, `ReadApplication`, `Mark` and
`Grant`, `Put`, `ReadTarget` and `DeleteUser` are the statements that follow.
A review by card and by command differ only in messages. The second
`get_application` inside `approve()` is part of `Mark`: what is no longer
pending never is again, so both give the same end. An application is named by
the request that inserted it. Any statement may fail (`StatementFails`: database locked, disk
full), which ends the handler with what was committed before; `half` are the applications
approved without the role, by that or by a crash. `Reload` is SIGHUP, `Crash` a restart.
`_review_notification_msgs`, which only redraws the review cards, is left out.
`AccessService` sees of a handler only the order it has decided to execute
(`Asked`): decide an application, grant what was approved, add, remove; it may lapse (`Lapse`). Where
the code reads the role before it reads the application or the row, the right may
be an older one (`OnceMighty`); /acl add decides at once (`Mighty`). A removal
deletes the row that is there by then (`Remove`), as the code does.

## 3. Runs

| Run | Instance | Question |
|---|---|---|
| `pair` | 2 sessions on 1 directory, 3 messages, one whose processing may raise, capacity 1, a permission request, /stop and reaping | is the directory exclusive, every message kept but the one an exception took, `TaskService` implemented, and does only a worker that dies leave a queue to nobody, while every other queued message is taken? |
| `live_end` | 2 sessions on 1 directory, a message each, one of which may raise, a permission request, /stop, /done, reaping | is `IInv` an invariant, is everyone answered once, does /task's list mirror the queue, does every waiter get the lock and every task end? |
| `threads` | 3 roots and a command, limit 1, 2 closers per thread, 1 restart | limit, no idle slot, one place, routing, and is the line served? |
| `prompt` | 2 tasks, 2 processes, crashes, output that breaks, stops | is the runtime consistent, is `PromptService` implemented (text and answers stay with their turn), does the end of the output wake the worker, does a prompt end? |
| `replay` | the same without crashes and stops, but with an agent that speaks before it answers `initialize` and session requests | is `PromptService` implemented then too? |
| `ticks` | a `once` task with an offset west of UTC, a `cron` task, one whose interval overflows, 2 ticks that failures end | bounded runs, active rows have a time, deleted ones stay so, due ones are served unless the overflowing row is due too |
| `acl` | 3 people, 3 requests, 2 values of `admin_users`, any statement may fail | one pending application, delegated rights, decisions that stand, approvals that take effect, is `AccessService` implemented? |
| `identity` | 2 messages, one /new, one /stop or /done, 1 failing write, 1 restart with a readable file or not, the janitor and the shutdown at any time | does a task resume the newest conversation it must not lose and none that /new ended, does `execute()` end? |
| `memory` | 1 user in 2 conversations, 2 texts, 2 facts made, limit 1 or 2 and reloaded at any time, 1 failing write or unreadable file, 1 restart | are accepted facts kept, indexes right until a fact is forgotten, changes written, is `FactStore` implemented? |
| `claim_stop`, `claim_due`, `claim_context` | smallest instances | what a doc, comment or notice says and the code does not do, see below |

Bounds. Two sessions on one path are all that the lock can tell apart except the
length of its FIFO, which the proofs cover for any number. Capacity 1 makes the
queue overflow with the second message. A limit of one thread makes three roots
queue up two deep, so order matters; two closers are two /done at once. Two
processes and two turns are what a late message needs to reach the wrong
prompt; the pipe holds one message, which blocks nobody since an agent waits for
room. History makes the instance eight times as large, so `replay` has it with the
fault `break` alone, and the proof has it with all. The scheduler's three rows are one of
each kind that a tick treats differently; a tick takes them in any order, so the overflowing
row may stop it before both others. Three requests are an application and two concurrent reviews of it, two
applications at once, or an application whose sender is added by hand before it
is approved. In `identity` the second message meets whatever became of the
first: reset by /new, dropped by the janitor or a timeout, half written, or gone with a
restart; a third one would meet the same places, which the proof covers. In
`memory` two conversations make an index stale, and two facts fill a list of two and
overflow one of one, so a limit lowered in between cuts; a second user shares nothing with the first but the dirty set, and the proof
covers any number. `acl` uses symmetry in the requests; it checks safety only. Deadlock is
not checked, because in all instances the messages run out and the system stops.

### Fairness

* Worker, `_ensure_worker` and /done: asyncio resumes a coroutine whose await is
  finished, and cards are HTTP calls that return or fail.
* An exception (`Unhandled`), a broken output or a failing statement has no fairness: it may never come.
* `ExecuteEnds`: an ACP execute has a deadline. The direct runtime looks at its
  deadline only when a line of output arrives (`acp/direct_runtime.py:312`), so for it
  the assumption is that the process writes or exits at some time.
* `AnsweringSpec` adds that a user answers a permission request: the code waits for it
  without limit.
* Threads: dispatches and closings run to their end, and somebody closes every
  active thread. Nothing else frees a slot.
* Runtime: the worker, the agent and the reader go on; none for the deadline and
  none for `Remove`, so `PromptEnds` does not rest on them.
* Scheduler: the polling loop goes on after every failure, and so does the clock.
* Identity: processes are spawned, the clock goes on, cards are sent; nothing is
  assumed of the shutdown. The environment owes one thing the code does not
  enforce: a process past its deadline, or told to stop, writes a line or ends at some
  time. Without it `ExecuteEnds` is false.
* Memory: the operations of an answer come to an end (weak fairness of `Applied`);
  the loop's timer is served between two answers (strong fairness of `Debounce`,
  as answers disable it again and again).

## 4. What the code does not keep

Each of these is a run that TLC refutes, with the text it contradicts in `findings`.

* `claim_stop` (`StopIsReported`): /stop marks the queued object, the worker may hold a copy, and
  the task ends as a normal result.
* `claim_due` (`ListsDue`): a time written with an offset, as in the example of the usage text of
  /schedule, is compared as a text. East of UTC it is selected hours after
  it was due, counts as overdue, is marked done and never fires; west of UTC it fires
  too early.
* `claim_context` (`ContextKept`): a task that times out before any task of its conversation ended
  well takes the only copy of the id with it; the next one starts anew.

What follows is in the models, and the properties are stated so that they allow it and no more:

* /stop during a permission request, or an exception of `worker.py:241`, ends the
  worker; the next message stays in the queue until another one arrives, although
  `dispatcher.py:428` says it will be processed and `worker.py:184` that the worker consumes
  "until cancelled" (`OnlyDeathStrands`, `QueueMoves`, `NoTaskLost`).
* A row whose next run overflows ends every tick at its place, and is fired again by each; rows behind it
  wait as long as it is due (`DueServed`).
* An approval whose `add_user` fails gives no role, and nobody tries again (`ApprovalTakesEffect`).
* After its output broke, a process that goes on is neither read nor replaced (`RuntimeInv`, `WakeInv`).
* An unreadable `facts.json` is overwritten by the next addition (`MemoryInv`), a lowered
  `memory_max_facts` cuts older facts at the next one.
* With the fault `race`, a runtime removed while it spawns its process leaves the process to
  nobody (`NoOrphan` excludes it). With the fault `revoke` a parked root that is turned
  away leaves the slot that called it empty (`NoIdleSlot` excludes it).

Met while modelling, with no property: a click on a permission card before its future is
registered is lost (`worker.py:865`); cards carry no request id, so a click on an old
one answers the request that is pending now; `doc/design.md:532` promises an open mode for empty
`admin_users`, but `main.py:319` always creates the ACL manager; a pause made
during a dispatch is overwritten by the tick; /acl remove deletes whatever row
is there after its check; a new root takes the slot of the head of the line of parked roots,
which goes to the back; a task that ends inside /new stores the old id again and
the next one resumes it; after a restart the memory operations of a resumed conversation are
dropped, as the facts of its user are not loaded, although `worker.py:602` says they are
applied whatever the age of the session; /remember confirms a fact that a full list
drops at once; an index in an answer that forgets two facts is off by one for the second.

## 5. Proofs

All for any values of the constants that satisfy the named assumptions.

* `SessionWorkerProofs`. `TypeOK` and `PathExclusion` are not inductive. `IInv` has
  five parts: types, `LockConsistent` (owner and FIFO agree with the `pc`s),
  the place of every task, the notices it has had, and the permission
  future. Exclusion follows from the lock part, since a directory has one
  owner; `NoticeOnce` needs that a task is in at most one place and that a
  notice is sent only at awaits that leave the unreported ones. `NothingLost` uses a second
  invariant on tasks that have left the queue: active, told, or dropped by an exception. `Serves` proves the refinement of
  `TaskService` step by step. `QueuesAreAttended` goes over the same actions:
  a message gets into a queue in a `dispatch()` that goes on
  to `_ensure_worker`, so one that finds the worker ended starts another; every other step
  leaves worker and queue alone (`StillAttended`) or moves the worker on
  (`GoesOn`), also out of a task that failed or was stopped. `AlwaysAttended` is its other half: `Aborted` needs a permission
  request that was waited for and `Unhandled` a task that can raise, so where no agent asks
  (`MaxAsk = 0`, or no session on the ACP runtime) and nothing raises (`Fragile = {}`)
  every queue is looked after at all times.
* `ThreadSlotsProofs`. `SlotsInv`: where a root can be, the count of records and
  called roots, and the routing facts. `NoIdleSlot` is the part that needs a
  counting argument: a closing frees one slot and calls one root.
* `SchedulerProofs`. `SchedulerInv` says how far the snapshot may be behind the
  row and that dispatches are counted but for the lost ones; `RunsBounded`
  follows by arithmetic, `ActiveHasNext` and `DeletedStays` from the same invariant.
* `AclProofs`. `Delegated` needs that a handler past its check holds a right its
  actor has had (`Entitled`), and that roles ever had are remembered
  (`RolesHeld`). `GrantOnce` and `DecidedOnce` need that an application is
  inserted by a request that has no row yet (`Fresh`). `OrdersAreFollowed` is
  the refinement of `AccessService`: a step that decides (`ReadApplication`,
  `Add`, `ReadTarget`) is an order, a statement that writes executes it, and
  all others stutter. It needs two more invariants on a handler's locals: one that waits for the
  row to remove holds a role that its actor has had (`Removers`), and one about
  to add the sender of an application is one that approved it (`Approvers`). A failing
  statement maps to an order that lapses. `ApprovalCarriedOut` says of an approved application that
  its role was given, is about to be, or is in `half`. `TypeCorrect` is not in the run, as the others are
  checked there.
* `AcpRuntimeProofs`. `RuntimeInv` has, besides types, six parts, and each needs the
  others: only the reader of the current process delivers (`ReaderInv`); what
  may still come has ids already sent, and open requests differ in theirs
  (`IdInv`); a message with the id of the prompt is about the current turn, and any
  other chunk is history or about a turn that was cut short (`TurnInv`); the response
  is the last message with its id, over queue, pipe and open requests (`OrderInv`);
  who waits has a reader or the sentinel (`WakeInv`), except for a session request to a
  process whose reader ended and whose sentinel is used up, which only the timeout ends;
  one process, known to the registry, initialized and, while it is being initialized,
  read (`ProcessInv`). `OwnText`, `Woken`, `NothingEscapes` and
  `OwnAnswer` follow; the order part is what `OwnAnswer` and the end of a prompt
  need, as a late message could otherwise be taken for the next turn's. The
  lemmas go action by action; most are settled by two facts, about queues that only
  shrink outside a prompt (`Outside`) and inside it (`Inside`). `ServesPrompts`
  is the refinement of `PromptService`, by the same two groups. Beyond
  `RuntimeInv` it needs that a permission request is shown only while the worker waits for
  the choice (`Quiet`). By the turn part a message read is about this prompt, one cut short, or history
  (`WhoIsMeant`), and by the order part a response is read when no other news is left
  (`RepliedMaps`). It implies `OwnText` and `OwnAnswer`, which
  are proved by themselves and not in the run. All hold without the fault
  `lag`, for any `MaxReplay`, and `ProcessInv` and `NothingEscapes` without `race` and `badinit`, as in
  their statements.
* `SessionIdentityProofs`. `IdentityInv` is inductive: every place an id can be taken from is
  as new as `owed` and newer than `forgot`, the file as of its last write, and
  the worker's state fits the runtime's. `Resumes` and `Forgets` are two of its cases.
* `MemoryManagerProofs`. The limit is a variable that takes any of the values in `Limits`.
  The invariant says user by user that cache and file are lists
  without a fact twice, of the facts that were accepted and neither
  forgotten nor past the limit when one was added nor in a file that could not be read; and that what a conversation was shown is a
  prefix of the list until a fact of it is forgotten (`IndexesStay`), which holds
  because additions append and cut only at the end. `StoresFacts` is the
  refinement of `FactStore`: the cut of the list is shown to be the
  list as it was, the list with the new fact at its end, or its beginning up to the limit; an id is new in cache and file; an
  unreadable file maps to `Miss`, or to an addition to nothing; and a
  debounce round with failing writes persists exactly the users that did not fail.

Model-checked only: every liveness property (`QueueMoves`, `LockGranted`,
`TaskEnds`, `ParkedServed`, `PromptEnds`, `DueServed`, `ExecuteEnds`,
`ReachesDisk`), which the prover cannot do under fairness. Every
invariant and action property of the passing runs is proved, and so are the four
refinements (`ServesTasks`, `KeepsTurns`, `KeepsFacts`, `FollowsOrders`).

## 6. Not modelled

* `context/manager.py`: constructed by `main.py`, never called.
* Dedup cache: a message enters the models once. That one delivered again after 300 s or 1000 others
  would run twice is read off the code.
* Bindings of chats to projects, /project, skills, hook tasks: they write a dictionary or
  enqueue a message as others do.
* Lines of the agent that are not JSON or not UTF-8: the client skips them.
* That the shutdown comes to its end: it follows from the timeouts of its steps.
* Feishu client, cards, settings, prompts, scripts, PID file, sleep inhibitor: calls that may
  fail, or no state.
* Review cards of the ACL, the contents of the scheduler's run log, progress cards: written, never read back by a decision.

## 7. Plan

Done: `SessionWorker` with `TaskService`, `ThreadSlots`, `AcpRuntime` with `PromptService`,
`Scheduler`, `Acl` with `AccessService`, `DirectRuntime` with `SessionIdentity`,
`MemoryManager` with `FactStore`, each with its proofs.

Left, in this order: abstract services for `ThreadSlots`, `Scheduler` and `SessionIdentity`; the dedup cache with its two limits; an abstract runtime that both
`AcpRuntime` and `DirectRuntime` implement, under `SessionIdentity`; the switched-off
faults (`early`, `revoke`, `lag`, `race`, `badinit`) as runs with what then still holds;
several contexts and projects per session in `SessionIdentity`.
