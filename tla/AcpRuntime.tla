----------------------------- MODULE AcpRuntime -----------------------------
(***************************************************************************)
(* The runtime of one session: the ACPRuntime object a worker drives, its  *)
(* subprocess, the reader task that moves messages from the subprocess to  *)
(* _msg_queue, the registry that holds the object, and the janitor and the *)
(* commands that stop it.                                                  *)
(*                                                                         *)
(* A runtime that was removed from the registry is replaced by a new one   *)
(* when the next task begins, while the worker of the current task keeps   *)
(* the old one.  Processes are numbered in the order they are spawned.     *)
(***************************************************************************)
EXTENDS Naturals, Sequences, Functions

CONSTANTS
  MaxProc,   \* bound: processes spawned
  MaxTurn,   \* bound: tasks executed
  MaxLine,   \* bound: messages in a pipe
  MaxSay,    \* bound: messages about a prompt before its response
  MaxReplay, \* bound: messages before the response to another request
  Fault      \* "die": a process may exit by itself
             \* "break": the output of a process may become unreadable, as by
             \* a line that is too long, while it runs
             \* "stop": /stop, /done and the janitor act while a task runs
             \* "race": they do so during ensure_ready(), which spawns
             \* "badinit": initialize may fail without the process exiting: it
             \* is refused, or the output breaks
             \* "lag": the reader of a dead process may still have messages
             \* when its process is replaced

ASSUME RuntimeAssumption ==
  /\ MaxProc \in Nat
  /\ MaxTurn \in Nat
  /\ MaxLine \in Nat
  /\ MaxSay \in Nat
  /\ MaxReplay \in Nat

VARIABLES
  at,       \* the await of the worker inside ensure_ready() and execute()
  listed,   \* the worker's runtime is the one in the registry
  proc,     \* its _proc, 0 for None
  ready,    \* its _ready
  resumed,  \* its _actual_id is set
  own,      \* processes it has spawned
  spawned,  \* number of processes spawned so far
  alive,    \* processes that run
  reading,  \* processes whose reader task runs
  pipe,     \* stdout of a process
  duty,     \* requests a process has not answered
  ids,      \* _req_id of the client
  waitId,   \* the request whose response is awaited
  inbox,    \* _msg_queue
  stash,    \* messages set aside by _wait_response
  turn,     \* number of the task
  shownAsk, \* the turn whose permission request is shown to the user
  text,     \* turns the accumulated text comes from
  cut       \* history: turns that did not end with a response

processVars == <<spawned, alive, reading, pipe>>
objectVars == <<listed, proc, ready, own>>
clientVars == <<ids, waitId>>
turnVars == <<turn, shownAsk, text>>
vars == <<at, objectVars, resumed, processVars, duty, clientVars, inbox, stash,
          turnVars, cut>>

Proc == 1..MaxProc
Turn == 0..MaxTurn

\* A request carries what the agent may still say before it responds: chunks
\* of text, and requests for a permission, which block it.  What it says about
\* anything but a prompt, as the history it replays for session/load, is about
\* turn 0.
Request == [id : Nat, kind : {"initialize", "session", "prompt"}, turn : Turn,
            say : Nat, blocked : BOOLEAN]

Message == [kind : {"response", "refusal", "chunk", "ask", "eof"},
            id : Nat, turn : Turn, proc : Proc]
History(m) == m.kind = "chunk" /\ m.turn = 0

\* is_running, and the three waits of _wait_response.
Running == proc # 0 /\ proc \in alive
Waiting == at \in {"init", "load", "new"}

TypeOK ==
  /\ at \in {"idle", "ensure", "init", "load", "new", "prompt", "perm",
             "evict"}
  /\ {listed, ready, resumed} \subseteq BOOLEAN
  /\ proc \in own \cup {0}
  /\ spawned \in 0..MaxProc
  /\ own \cup alive \cup reading \subseteq 1..spawned
  /\ pipe \in [Proc -> Seq(Message)]
  /\ duty \in [Proc -> SUBSET Request]
  /\ {ids, waitId} \subseteq Nat
  /\ {inbox, stash} \subseteq Seq(Message)
  /\ stash # <<>> => Waiting
  /\ {turn, shownAsk} \subseteq Turn
  /\ text \cup cut \subseteq Turn

Init ==
  /\ at = "idle"
  /\ listed = FALSE
  /\ proc = 0
  /\ ready = FALSE
  /\ resumed = FALSE
  /\ own = {}
  /\ spawned = 0
  /\ alive = {}
  /\ reading = {}
  /\ pipe = [p \in Proc |-> <<>>]
  /\ duty = [p \in Proc |-> {}]
  /\ ids = 0
  /\ waitId = 0
  /\ inbox = <<>>
  /\ stash = <<>>
  /\ turn = 0
  /\ shownAsk = 0
  /\ text = {}
  /\ cut = {}

-----------------------------------------------------------------------------
(* Helpers.  A definition right before another one whose name it extends    *)
(* is a faulty variant of it that no specification uses.                    *)

\* The first message in the queue is the response to the awaited request.
IsReplyOfAnyId(kind) == Head(inbox).kind = kind
IsReply(kind) == Head(inbox).kind = kind /\ Head(inbox).id = waitId

Req(kind) ==
  [id |-> ids + 1,
   kind |-> kind,
   turn |-> IF kind = "prompt" THEN turn ELSE 0,
   say |-> IF kind = "prompt" THEN MaxSay ELSE MaxReplay,
   blocked |-> FALSE]

\* send_request to a process, which may have exited; and when it is followed by
\* session/cancel.
Post(req) ==
  /\ proc # 0
  /\ waitId' = ids + 1
  /\ duty' = [duty EXCEPT ![proc] = IF proc \in alive THEN @ \cup {req} ELSE @]
Send(req) == Post(req) /\ ids' = ids + 1
SendAndCancel(req) ==
  Post(req) /\ ids' = IF Running THEN ids + 2 ELSE ids + 1

\* execute() or ensure_ready() raised, or was cut short.
Abandon ==
  /\ at' = "idle"
  /\ cut' = cut \cup {turn}

\* ACPRuntime.stop(): forget the process, cancel its reader, terminate it.
StopObject ==
  /\ proc' = 0
  /\ ready' = FALSE
  /\ reading' = reading \ {proc}
  /\ alive' = alive \ {proc}
  /\ pipe' = [p \in Proc |-> IF p = proc THEN <<>> ELSE pipe[p]]
  /\ duty' = [p \in Proc |-> IF p = proc THEN {} ELSE duty[p]]

\* Pop the runtime, if it is there, and stop it.
RegistryRemoveOnly ==
  /\ listed' = FALSE
  /\ UNCHANGED <<proc, ready, reading, alive, pipe, duty>>
RegistryRemove ==
  /\ listed' = FALSE
  /\ IF listed THEN StopObject
     ELSE UNCHANGED <<proc, ready, reading, alive, pipe, duty>>

-----------------------------------------------------------------------------
(* ensure_ready *)

\* The worker takes the runtime from the registry or creates one.  A session id
\* may be restored from disk, and /new may have cleared it.
Begin ==
  /\ at = "idle"
  /\ turn < MaxTurn
  /\ turn' = turn + 1
  /\ text' = {}
  /\ at' = "ensure"
  /\ listed' = TRUE
  /\ IF listed
     THEN UNCHANGED <<proc, ready, own, inbox>>
     ELSE /\ proc' = 0
          /\ ready' = FALSE
          /\ own' = {}
          /\ inbox' = <<>>
  /\ resumed' \in BOOLEAN
  /\ UNCHANGED <<processVars, duty, clientVars, stash, shownAsk, cut>>

\* session/load for a known session, session/new otherwise.
OpenSession ==
  /\ Send(Req("session"))
  /\ at' = IF resumed THEN "load" ELSE "new"

\* The worker calls ensure_ready(), then execute() calls it again.
AlreadyReady ==
  /\ at = "ensure"
  /\ ready /\ Running
  /\ OpenSession
  /\ UNCHANGED <<objectVars, resumed, processVars, inbox, stash, turnVars, cut>>

\* A new process with a new reader, queue and client.  The reader of a process
\* that died before goes on, if it lags, and delivers to the new queue.
Spawn ==
  LET p == spawned + 1 IN
  /\ at = "ensure"
  /\ ~(ready /\ Running)
  /\ p \in Proc
  /\ own \cap reading # {} => "lag" \in Fault
  /\ spawned' = p
  /\ proc' = p
  /\ own' = own \cup {p}
  /\ alive' = alive \cup {p}
  /\ reading' = reading \cup {p}
  /\ ready' = FALSE
  /\ inbox' = <<>>
  /\ ids' = 1
  /\ waitId' = 1
  /\ duty' = [duty EXCEPT ![p] = {[Req("initialize") EXCEPT !.id = 1]}]
  /\ at' = "init"
  /\ UNCHANGED <<listed, resumed, pipe, stash, turnVars, cut>>

SpawnFails ==
  /\ at = "ensure"
  /\ ~(ready /\ Running)
  /\ Abandon
  /\ UNCHANGED <<objectVars, resumed, processVars, duty, clientVars, inbox,
                 stash, turnVars>>

-----------------------------------------------------------------------------
(* _wait_response *)

\* Leaving it puts what it has set aside at the end of the queue.
RequeueKeeps(rest) ==
  /\ inbox' = rest \o stash
  /\ stash' = stash
Requeue(rest) ==
  /\ inbox' = rest \o stash
  /\ stash' = <<>>

SetAside ==
  /\ Waiting /\ inbox # <<>>
  /\ Head(inbox).kind # "eof" /\ ~IsReply("response") /\ ~IsReply("refusal")
  /\ stash' = Append(stash, Head(inbox))
  /\ inbox' = Tail(inbox)
  /\ UNCHANGED <<at, objectVars, resumed, processVars, duty, clientVars,
                 turnVars, cut>>

\* The response: initialize makes the process ready, the session request is
\* followed by the prompt, and by session/cancel when the task is cancelled by
\* then.  Without a client it cannot be sent.
Replied ==
  /\ Waiting /\ inbox # <<>>
  /\ IsReply("response")
  /\ Requeue(Tail(inbox))
  /\ ready' = IF at = "init" THEN TRUE ELSE ready
  /\ resumed' = IF at = "init" THEN resumed ELSE TRUE
  /\ \/ /\ at = "init"
        /\ at' = "ensure"
        /\ UNCHANGED <<clientVars, duty, cut>>
     \/ /\ at # "init"
        /\ Send(Req("prompt"))
        /\ at' = "prompt"
        /\ UNCHANGED cut
     \/ /\ at # "init" /\ "stop" \in Fault
        /\ SendAndCancel(Req("prompt"))
        /\ Abandon
     \/ /\ at # "init" /\ ~Running
        /\ Abandon
        /\ UNCHANGED <<clientVars, duty>>
  /\ UNCHANGED <<listed, proc, own, processVars, turnVars>>

\* A refusal or the end of the output; a session that cannot be loaded is
\* replaced by a new one, anything else ends the task, with the process as is.
NotReplied ==
  /\ Waiting /\ inbox # <<>>
  /\ Head(inbox).kind = "eof" \/ IsReply("refusal")
  /\ Requeue(Tail(inbox))
  /\ resumed' = IF at = "load" THEN FALSE ELSE resumed
  /\ \/ /\ at = "load"
        /\ Send(Req("session"))
        /\ at' = "new"
        /\ UNCHANGED cut
     \/ /\ at # "load" \/ ~Running
        /\ Abandon
        /\ UNCHANGED <<clientVars, duty>>
  /\ UNCHANGED <<objectVars, processVars, turnVars>>

\* No response in time: initialize stops the process, session/load falls back.
WaitTimeout ==
  /\ Waiting
  /\ Requeue(inbox)
  /\ resumed' = IF at = "load" THEN FALSE ELSE resumed
  /\ \/ /\ at = "init"
        /\ StopObject
        /\ Abandon
        /\ UNCHANGED clientVars
     \/ /\ at = "load"
        /\ Send(Req("session"))
        /\ at' = "new"
        /\ UNCHANGED <<proc, ready, alive, reading, pipe, cut>>
     \/ /\ at = "new" \/ (at = "load" /\ ~Running)
        /\ Abandon
        /\ UNCHANGED <<proc, ready, alive, reading, pipe, duty, clientVars>>
  /\ UNCHANGED <<listed, own, spawned, turnVars>>

-----------------------------------------------------------------------------
(* The prompt *)

\* Back at the top of the loop, where a cancelled task sends session/cancel
\* and returns.
LoopOrCancel ==
  \/ /\ at' = "prompt"
     /\ UNCHANGED <<cut, ids>>
  \/ /\ "stop" \in Fault
     /\ Abandon
     /\ ids' = IF Running THEN ids + 1 ELSE ids

\* The response to the prompt ends execute().
PromptReplied ==
  /\ at = "prompt" /\ inbox # <<>>
  /\ IsReply("response")
  /\ inbox' = Tail(inbox)
  /\ at' = "idle"
  /\ UNCHANGED <<objectVars, resumed, processVars, duty, clientVars, stash,
                 turnVars, cut>>

PromptEof ==
  /\ at = "prompt" /\ inbox # <<>>
  /\ Head(inbox).kind = "eof"
  /\ inbox' = Tail(inbox)
  /\ Abandon
  /\ UNCHANGED <<objectVars, resumed, processVars, duty, clientVars, stash,
                 turnVars>>

\* Text is accumulated; responses to other requests are ignored.
PromptUpdate ==
  LET m == Head(inbox) IN
  /\ at = "prompt" /\ inbox # <<>>
  /\ m.kind \in {"chunk", "response", "refusal"}
  /\ ~IsReply("response")
  /\ inbox' = Tail(inbox)
  /\ text' = IF m.kind = "chunk" THEN text \cup {m.turn} ELSE text
  /\ LoopOrCancel
  /\ UNCHANGED <<objectVars, resumed, processVars, duty, waitId, stash, turn,
                 shownAsk>>

PromptAsks ==
  /\ at = "prompt" /\ inbox # <<>>
  /\ Head(inbox).kind = "ask"
  /\ inbox' = Tail(inbox)
  /\ shownAsk' = Head(inbox).turn
  /\ at' = "perm"
  /\ UNCHANGED <<objectVars, resumed, processVars, duty, clientVars, stash,
                 turn, text, cut>>

\* The choice goes to the current process, or nowhere if there is none.
Answered ==
  /\ at = "perm"
  /\ \/ /\ proc # 0
        /\ duty' = [duty EXCEPT ![proc] =
             {IF r.turn = shownAsk THEN [r EXCEPT !.blocked = FALSE] ELSE r :
                r \in @}]
        /\ LoopOrCancel
     \/ /\ ~Running
        /\ Abandon
        /\ UNCHANGED <<ids, duty>>
  /\ shownAsk' = 0
  /\ UNCHANGED <<objectVars, resumed, processVars, waitId, inbox, stash, turn,
                 text>>

\* /stop cancels the permission future: CancelledError leaves execute().
PermissionCancelled ==
  /\ at = "perm"
  /\ "stop" \in Fault
  /\ Abandon
  /\ shownAsk' = 0
  /\ UNCHANGED <<objectVars, resumed, processVars, duty, clientVars, inbox,
                 stash, turn, text>>

\* The deadline: session/cancel, then the worker removes the runtime.
Deadline ==
  /\ at = "prompt"
  /\ at' = "evict"
  /\ cut' = cut \cup {turn}
  /\ ids' = IF Running THEN ids + 1 ELSE ids
  /\ UNCHANGED <<objectVars, resumed, processVars, duty, waitId, inbox, stash,
                 turnVars>>

Evict ==
  /\ at = "evict"
  /\ at' = "idle"
  /\ RegistryRemove
  /\ UNCHANGED <<own, resumed, spawned, clientVars, inbox, stash, turnVars,
                 cut>>

-----------------------------------------------------------------------------
(* Those who stop runtimes *)

\* /done and /thread close remove the runtime at any time.  So does the
\* janitor: the list _reap_idle made of the runtimes that were idle or did not
\* run may be out of date when it comes to this one.
Remove ==
  /\ "stop" \in Fault
  /\ at \in {"ensure", "init"} => "race" \in Fault
  /\ listed
  /\ RegistryRemove
  /\ UNCHANGED <<at, own, resumed, spawned, clientVars, inbox, stash, turnVars,
                 cut>>

-----------------------------------------------------------------------------
(* The agent process and the reader task *)

Emit(p, kind, r) ==
  /\ p \in alive
  /\ Len(pipe[p]) < MaxLine
  /\ pipe' = [pipe EXCEPT ![p] = Append(@,
       [kind |-> kind, id |-> r.id, turn |-> r.turn, proc |-> p])]

Replace(p, r, new) == duty' = [duty EXCEPT ![p] = (@ \ {r}) \cup new]

\* The response to a prompt ends it, whether it is a result or an error.
Respond(p, r) ==
  /\ ~r.blocked
  /\ \/ Emit(p, "response", r)
     \/ /\ r.kind = "session" \/ (r.kind = "initialize" /\ "badinit" \in Fault)
        /\ Emit(p, "refusal", r)
  /\ Replace(p, r, {})

\* Bound: no more history than MaxReplay messages is on its way.
MayReplay(p) ==
  Len(SelectSeq(inbox \o stash \o pipe[p], History)) < MaxReplay

Chunk(p, r) ==
  /\ r.say > 0 /\ ~r.blocked
  /\ r.kind = "prompt" \/ MayReplay(p)
  /\ Emit(p, "chunk", r)
  /\ Replace(p, r, {[r EXCEPT !.say = @ - 1]})

Ask(p, r) ==
  /\ r.kind = "prompt" /\ r.say > 0 /\ ~r.blocked
  /\ Emit(p, "ask", r)
  /\ Replace(p, r, {[r EXCEPT !.say = @ - 1, !.blocked = TRUE]})

Agent(p) ==
  /\ \E r \in duty[p] : Respond(p, r) \/ Chunk(p, r) \/ Ask(p, r)
  /\ UNCHANGED <<at, objectVars, resumed, spawned, alive, reading, clientVars,
                 inbox, stash, turnVars, cut>>

Die(p) ==
  /\ "die" \in Fault
  /\ p \in alive
  /\ alive' = alive \ {p}
  /\ duty' = [duty EXCEPT ![p] = {}]
  /\ UNCHANGED <<at, objectVars, resumed, spawned, reading, pipe, clientVars,
                 inbox, stash, turnVars, cut>>

\* One message to the queue the runtime has now; a reader whose runtime was
\* replaced fills a queue nobody reads.
Deliver(p, m) == inbox' = IF p \in own THEN Append(inbox, m) ELSE inbox

Read(p) ==
  /\ p \in reading /\ pipe[p] # <<>>
  /\ Deliver(p, Head(pipe[p]))
  /\ pipe' = [pipe EXCEPT ![p] = Tail(@)]
  /\ UNCHANGED <<at, objectVars, resumed, spawned, alive, reading, duty,
                 clientVars, stash, turnVars, cut>>

\* The reader ends with the sentinel that wakes the worker.
ReaderEnds(p) ==
  /\ p \in reading
  /\ Deliver(p, [kind |-> "eof", id |-> 0, turn |-> 0, proc |-> p])
  /\ reading' = reading \ {p}
  /\ UNCHANGED <<at, objectVars, resumed, spawned, alive, pipe, duty,
                 clientVars, stash, turnVars, cut>>

\* End of the output.
ReadEofSilent(p) ==
  /\ p \in reading \ alive /\ pipe[p] = <<>>
  /\ reading' = reading \ {p}
  /\ UNCHANGED <<at, objectVars, resumed, spawned, alive, pipe, duty, inbox,
                 clientVars, stash, turnVars, cut>>
ReadEof(p) ==
  /\ p \notin alive /\ pipe[p] = <<>>
  /\ ReaderEnds(p)

\* The output cannot be read any more: nobody reads what a process that goes on
\* still writes.
ReadBreaks(p) ==
  /\ "break" \in Fault
  /\ p = proc /\ at = "init" => "badinit" \in Fault
  /\ ReaderEnds(p)

-----------------------------------------------------------------------------
EnsureReady == AlreadyReady \/ Spawn \/ SpawnFails
WaitResponse == SetAside \/ Replied \/ NotReplied \/ WaitTimeout
HandleMessage == PromptReplied \/ PromptEof \/ PromptUpdate \/ PromptAsks
Reader(p) == Read(p) \/ ReadEof(p)

Next ==
  \/ Begin \/ EnsureReady \/ WaitResponse \/ HandleMessage
  \/ Answered \/ PermissionCancelled \/ Deadline \/ Evict
  \/ Remove
  \/ \E p \in Proc : Agent(p) \/ Die(p) \/ Reader(p) \/ ReadBreaks(p)

Spec == Init /\ [][Next]_vars

\* The worker and the readers run; the agent answers its requests or exits;
\* users answer.  The deadline of a task is hours away: no fairness.
FairSpec ==
  /\ Spec
  /\ WF_vars(EnsureReady) /\ WF_vars(WaitResponse) /\ WF_vars(HandleMessage)
  /\ WF_vars(Answered) /\ WF_vars(Evict)
  /\ \A p \in Proc : WF_vars(Agent(p)) /\ WF_vars(Reader(p))

-----------------------------------------------------------------------------
(* Properties *)

\* What may still reach the worker: messages, and requests of its process.
Coming == Range(inbox) \cup Range(stash)
            \cup (IF proc = 0 THEN {} ELSE Range(pipe[proc]))
Open == IF proc = 0 THEN {} ELSE duty[proc]

\* The worker is inside the prompt whose response has the id waitId.
InPrompt == at \in {"prompt", "perm"}

\* Only the reader of the current process delivers.
ReaderInv ==
  /\ own \cap reading \subseteq {proc}
  /\ \A p \in Proc : p > spawned => pipe[p] = <<>> /\ duty[p] = {}

\* Messages are of the current process, the sentinel is its last, and no two
\* open requests have an id.
IdInv ==
  /\ waitId <= ids
  /\ proc # 0 \/ InPrompt => ids > 0
  /\ InPrompt => waitId > 0
  /\ \A m \in Coming : /\ m.id <= ids
                       /\ proc # 0 => m.proc = proc
                       /\ m.kind = "eof" => proc \notin reading
  /\ proc # 0 => \A m \in Range(pipe[proc]) : m.kind # "eof"
  /\ \A r \in Open : r.id <= ids
  /\ \A r, q \in Open : r.id = q.id => r = q

\* What is said or asked about a task that was not cut short carries the id of
\* the prompt, history aside; a response with that id is the task's own.
TurnInv ==
  /\ text \subseteq {turn, 0} \cup cut
  /\ \A m \in Coming :
       /\ InPrompt /\ m.id = waitId => m.turn = turn
       /\ m.kind \in {"chunk", "ask"} =>
            m.turn \in cut \/ (InPrompt /\ m.id = waitId) \/ History(m)
  /\ \A r \in Open :
       /\ InPrompt /\ r.id = waitId => r.turn = turn
       /\ IF r.kind = "prompt"
          THEN r.turn \in cut \/ (InPrompt /\ r.id = waitId)
          ELSE r.turn = 0

\* The response to the prompt is the last message with its id.
Answers(S) == {m \in S : m.kind = "response" /\ m.id = waitId}
Silent(S) == \A m \in S : m.id # waitId
Final(q) == \A i, j \in DOMAIN q :
              i < j /\ q[i] \in Answers(Range(q)) => q[j].id # waitId
OrderInv ==
  InPrompt =>
    /\ Final(inbox)
    /\ proc # 0 =>
         /\ Final(pipe[proc])
         /\ Answers(Range(inbox)) # {} => Silent(Range(pipe[proc]))
         /\ Answers(Coming) # {} => Silent(Open)

\* A worker that may come to wait for messages has a reader or the sentinel;
\* but one whose process lost its reader, and that has used up the sentinel,
\* only waits for the response to a session request, which will not come.
Wakes == \/ proc = 0
         \/ proc \in reading
         \/ \E m \in Range(inbox) : m.kind = "eof"
WakeInv ==
  /\ InPrompt => Wakes
  /\ at \in {"load", "new"} =>
       \/ Wakes
       \/ \A m \in Range(inbox) \cup Range(stash) :
            m.kind \in {"response", "refusal"} => m.id # waitId

\* The current process is the only one, and initialized unless the worker
\* waits for that, with a reader; a runtime that was removed has none, and
\* spawns none.
ProcessInv ==
  "race" \notin Fault /\ "badinit" \notin Fault =>
    /\ ~listed => proc = 0 /\ at \notin {"ensure", "init"}
    /\ alive \subseteq {proc}
    /\ proc \in alive => IF at = "init" THEN proc \in reading ELSE ready
    /\ at = "init" => waitId = 1
    /\ \A m \in Coming : m.kind = "refusal" => m.id > 1
    /\ \A r \in Open : r.kind # "initialize" => r.id > 1

\* The runtime is consistent, as long as no reader lags.
RuntimeInv ==
  /\ TypeOK
  /\ "lag" \notin Fault =>
       ReaderInv /\ IdInv /\ TurnInv /\ OrderInv /\ WakeInv /\ ProcessInv

\* The text of a task is its own, except for what the agent still said about
\* tasks that were cut short, and for the history of the session that it
\* replays: only cancelled or failed turns leak.
TextOwn == at = "prompt" => text \subseteq {turn, 0} \cup cut

\* execute() ends with the response to its own prompt, whatever responses to
\* earlier requests are still on their way or were put back in the queue.
AnswerOwn ==
  [][(PromptReplied /\ "lag" \notin Fault) => Head(inbox).turn = turn]_vars

\* A worker that waits for the prompt's messages will be woken: the reader of
\* its process runs or has left the sentinel, unless the runtime was stopped.
PromptWakes ==
  (at = "prompt" /\ proc # 0) =>
    \/ proc \in reading
    \/ \E m \in Range(inbox) : m.kind = "eof" /\ m.proc = proc

\* Without any deadline, a prompt ends by itself unless its runtime is
\* stopped: neither a crash of the agent nor a wait of the user loses it.
PromptEnds == at = "prompt" ~> (at # "prompt" \/ proc = 0)

\* No process escapes: when no task runs, the only process of the session is
\* the one the registry can find and stop.
NoOrphan ==
  ("race" \notin Fault /\ "badinit" \notin Fault /\ at = "idle")
     => alive \subseteq (IF listed THEN {proc} ELSE {})

(* What the runtime promises *)

\* The messages about the prompt under way that nobody has read.
Unread == IF InPrompt THEN {m \in Coming : m.id = waitId} ELSE {}
News == {kind \in {"chunk", "ask", "response"} : \E m \in Unread : m.kind = kind}

Prompts == INSTANCE PromptService WITH
  busy <- at \notin {"idle", "evict"}, news <- News, shown <- shownAsk

\* Processes that die and are replaced, request ids, a reader, two queues and
\* messages that are set aside and put back behave like one conversation per
\* prompt, in which the response comes last and everything else gets through;
\* only prompts that were cut short intrude, and the history that the agent
\* replays on session/load, which becomes part of the text (runtime.py 488-492
\* and 786-792).
KeepsTurns == Prompts!Spec
=============================================================================
