---------------------------- MODULE ThreadSlots ----------------------------
(***************************************************************************)
(* Group-chat threads ("topics"): a chat may have max_active_threads       *)
(* active ones.  A root message opens a thread; beyond the limit           *)
(* TaskDispatcher parks it in _pending_thread_queue, and every /done or    *)
(* /thread close hands the head of that queue to a new dispatch().  The    *)
(* MessageHandler keeps its own set of threads whose replies it accepts,   *)
(* and StateStore persists the records, some time later.                   *)
(*                                                                         *)
(* One chat is modelled, as no state is shared between chats.  dispatch()  *)
(* is two steps, before and after its await for the sender's role, and     *)
(* handle_done() is two, before and after it stopped the runtime.          *)
(***************************************************************************)
EXTENDS Naturals, Sequences, FiniteSets, Functions

CONSTANTS
  Root,         \* group root messages; each names the thread it opens
  Meta,         \* those whose text is a slash command
  Limit,        \* max_active_threads_per_chat
  MaxClosers,   \* bound: handle_done() coroutines at once for a thread
  MaxRestarts,  \* bound: restarts of the bot
  Fault         \* "revoke": a parked root may be turned away when called;
                \* "early": a /done may overtake the role check of its root

ASSUME SlotsAssumption ==
  /\ IsFiniteSet(Root)
  /\ Meta \subseteq Root
  /\ Limit \in Nat \ {0}
  /\ MaxClosers \in Nat
  /\ MaxRestarts \in Nat

VARIABLES
  arrived,      \* roots the handler has seen
  known,        \* handler._active_threads
  dispatching,  \* roots whose dispatch() awaits the role of the sender
  parked,       \* _pending_thread_queue[chat]
  record,       \* state.thread_records
  disk,         \* thread_records in state.json
  closers,      \* handle_done() coroutines about to call on_thread_closed
  sessions,     \* threads with a Session in memory
  told,         \* history: roots told their place in the line
  admitted,     \* history: roots that got a slot
  refused,      \* history: roots turned away before the limit check
  restarts      \* history: number of restarts

vars == <<arrived, known, dispatching, parked, record, disk, closers,
          sessions, told, admitted, refused, restarts>>

\* Parked once and now being dispatched again.
Called == dispatching \cap told

TypeOK ==
  /\ arrived \subseteq Root
  /\ known \subseteq Root
  /\ dispatching \subseteq Root
  /\ parked \in Seq(Root)
  /\ record \subseteq Root
  /\ disk \subseteq Root
  /\ closers \in [Root -> 0..MaxClosers]
  /\ sessions \subseteq Root
  /\ told \subseteq Root
  /\ admitted \subseteq Root
  /\ refused \subseteq Root
  /\ restarts \in 0..MaxRestarts

Init ==
  /\ arrived = {}
  /\ known = {}
  /\ dispatching = {}
  /\ parked = <<>>
  /\ record = {}
  /\ disk = {}
  /\ closers = [r \in Root |-> 0]
  /\ sessions = {}
  /\ told = {}
  /\ admitted = {}
  /\ refused = {}
  /\ restarts = 0

-----------------------------------------------------------------------------
(* A definition right before another one whose name it extends is a faulty  *)
(* variant of it that no specification uses.                                *)

\* The limit check of dispatch().
SlotFreeOffByOne == Cardinality(record) <= Limit
SlotFree == Cardinality(record) < Limit

\* _on_thread_closed: free the slot, forget the thread, and dispatch the
\* oldest parked root again, accepting its replies from now on.
ThreadClosedKeepsQueue(r) ==
  /\ record' = record \ {r}
  /\ known' = known \ {r}
  /\ UNCHANGED <<parked, dispatching>>
ThreadClosedPeeks(r) ==
  /\ record' = record \ {r}
  /\ IF parked = <<>>
     THEN /\ known' = known \ {r}
          /\ UNCHANGED dispatching
     ELSE /\ known' = (known \ {r}) \cup {Head(parked)}
          /\ dispatching' = dispatching \cup {Head(parked)}
  /\ UNCHANGED parked
ThreadClosed(r) ==
  /\ record' = record \ {r}
  /\ IF parked = <<>>
     THEN /\ known' = known \ {r}
          /\ UNCHANGED <<parked, dispatching>>
     ELSE /\ known' = (known \ {r}) \cup {Head(parked)}
          /\ dispatching' = dispatching \cup {Head(parked)}
          /\ parked' = Tail(parked)

-----------------------------------------------------------------------------
(* Root messages *)

\* handle_message: a root message makes its thread known at once.
Arrive(r) ==
  /\ r \notin arrived
  /\ arrived' = arrived \cup {r}
  /\ known' = known \cup {r}
  /\ dispatching' = dispatching \cup {r}
  /\ UNCHANGED <<parked, record, disk, closers, sessions, told, admitted,
                 refused, restarts>>

\* dispatch() turns the root away: the ACL refuses the sender, reading the role
\* raises, or no project is configured.  The handler is not told.
Deny(r) ==
  /\ r \in dispatching
  /\ r \in told => "revoke" \in Fault
  /\ dispatching' = dispatching \ {r}
  /\ refused' = refused \cup {r}
  /\ UNCHANGED <<arrived, known, parked, record, disk, closers, sessions,
                 told, admitted, restarts>>

\* A root that is a slash command opens no thread; /done and /thread close
\* are modelled by the commands below.
RunCommand(r) ==
  /\ r \in dispatching \cap Meta
  /\ dispatching' = dispatching \ {r}
  /\ sessions' = sessions \cup {r}
  /\ UNCHANGED <<arrived, known, parked, record, disk, closers, told,
                 admitted, refused, restarts>>

Admit(r) ==
  /\ r \in dispatching \ Meta
  /\ SlotFree
  /\ dispatching' = dispatching \ {r}
  /\ record' = record \cup {r}
  /\ sessions' = sessions \cup {r}
  /\ admitted' = admitted \cup {r}
  /\ UNCHANGED <<arrived, known, parked, disk, closers, told, refused,
                 restarts>>

\* No slot: undo the handler's entry and join the line, at its end also when
\* the root comes from its head.
ParkStaysKnown(r) ==
  /\ r \in dispatching \ Meta
  /\ ~SlotFree
  /\ dispatching' = dispatching \ {r}
  /\ sessions' = sessions \cup {r}
  /\ parked' = Append(parked, r)
  /\ told' = told \cup {r}
  /\ UNCHANGED <<arrived, known, record, disk, closers, admitted, refused,
                 restarts>>
ParkForgets(r) ==
  /\ r \in dispatching \ Meta
  /\ ~SlotFree
  /\ dispatching' = dispatching \ {r}
  /\ known' = known \ {r}
  /\ sessions' = sessions \cup {r}
  /\ parked' = IF r \in told THEN parked ELSE Append(parked, r)
  /\ told' = told \cup {r}
  /\ UNCHANGED <<arrived, record, disk, closers, admitted, refused, restarts>>
Park(r) ==
  /\ r \in dispatching \ Meta
  /\ ~SlotFree
  /\ dispatching' = dispatching \ {r}
  /\ known' = known \ {r}
  /\ sessions' = sessions \cup {r}
  /\ parked' = Append(parked, r)
  /\ told' = told \cup {r}
  /\ UNCHANGED <<arrived, record, disk, closers, admitted, refused, restarts>>

-----------------------------------------------------------------------------
(* Commands *)

\* handle_done reached the await in which the runtime is stopped.
StartClosing(r) ==
  /\ closers[r] < MaxClosers
  /\ closers' = [closers EXCEPT ![r] = @ + 1]
  /\ sessions' = sessions \cup {r}
  /\ UNCHANGED <<arrived, known, dispatching, parked, record, disk, told,
                 admitted, refused, restarts>>

\* /done posted in a thread: the handler ignores it unless the thread is
\* known.  Its own Feishu round trip lets the dispatch of the root go first.
DoneCommand(r) ==
  /\ r \in known
  /\ r \in dispatching => "early" \in Fault
  /\ StartClosing(r)

\* /thread close by an administrator: needs a record; a thread that has no
\* session, because the bot was restarted, is closed on the spot.
ThreadClose(r) ==
  /\ r \in record
  /\ \/ /\ r \in sessions
        /\ StartClosing(r)
     \/ /\ r \notin sessions
        /\ ThreadClosed(r)
        /\ UNCHANGED <<arrived, disk, closers, sessions, told, admitted,
                       refused, restarts>>

\* The runtime is stopped: handle_done calls on_thread_closed, as often as
\* there are handle_done coroutines.
DoneCloses(r) ==
  /\ closers[r] > 0
  /\ closers' = [closers EXCEPT ![r] = @ - 1]
  /\ ThreadClosed(r)
  /\ UNCHANGED <<arrived, disk, sessions, told, admitted, refused, restarts>>

-----------------------------------------------------------------------------
(* Persistence *)

\* StateStore.flush, by the debounce loop or at shutdown.
Flush ==
  /\ disk' = record
  /\ UNCHANGED <<arrived, known, dispatching, parked, record, closers,
                 sessions, told, admitted, refused, restarts>>

\* The bot stops, flushed or not, and starts again: the handler's set is
\* restored from the records, everything else is gone.
Restart ==
  /\ restarts < MaxRestarts
  /\ restarts' = restarts + 1
  /\ record' = disk
  /\ known' = disk
  /\ dispatching' = {}
  /\ parked' = <<>>
  /\ closers' = [r \in Root |-> 0]
  /\ sessions' = {}
  /\ UNCHANGED <<arrived, disk, told, admitted, refused>>

-----------------------------------------------------------------------------
Dispatched(r) == Deny(r) \/ RunCommand(r) \/ Admit(r) \/ Park(r)

Next ==
  \/ \E r \in Root : \/ Arrive(r) \/ Dispatched(r)
                     \/ DoneCommand(r) \/ ThreadClose(r) \/ DoneCloses(r)
  \/ Flush
  \/ Restart

Spec == Init /\ [][Next]_vars

\* dispatch() and handle_done() run to their end, and somebody closes every
\* active thread at last.
Fairness ==
  \A r \in Root : /\ WF_vars(Dispatched(r))
                  /\ WF_vars(DoneCloses(r))
                  /\ WF_vars(ThreadClose(r))

FairSpec == Spec /\ Fairness

-----------------------------------------------------------------------------
(* Properties *)

\* However dispatches, closes and restarts interleave, a chat never has more
\* than Limit active threads, in memory or on disk.
SlotsBounded == Cardinality(record) <= Limit /\ Cardinality(disk) <= Limit

\* Nobody waits in front of a free slot: while roots are parked, every slot is
\* held by an active thread or by a root called out of the line.
NoIdleSlot ==
  ("revoke" \notin Fault /\ parked # <<>>)
     => Cardinality(record \cup Called) >= Limit

\* A root message is in one place only: being dispatched, parked once, or
\* active.
OnePlace ==
  /\ dispatching \cap record = {}
  /\ Range(parked) \cap (dispatching \cup record) = {}
  /\ IsInjective(parked)

\* The handler listens in exactly the threads it should: replies in an active
\* thread are accepted, and those in a parked or closed one are ignored.
RepliesRouted ==
  /\ "early" \notin Fault => record \subseteq known
  /\ known \subseteq record \cup dispatching \cup refused \cup Meta

\* A root that was told its place in the line gets a slot, unless the bot is
\* restarted ("将在有话题关闭后自动处理").
ParkedServed ==
  \A r \in Root : r \in told ~> (r \in admitted \/ restarts > 0)

(* The inductive invariant behind the safety properties. *)

\* Every place a root can be in, on disk too, presupposes its arrival, and a
\* root that is or was active is never dispatched again.
Placement ==
  /\ record \cup disk \subseteq admitted
  /\ admitted \cup dispatching \cup Range(parked) \subseteq arrived
  /\ admitted \cap (dispatching \cup Range(parked)) = {}
  /\ Range(parked) \subseteq told
  /\ told \cap Meta = {}
  /\ OnePlace

\* Why replies are routed: a root turned away is never dispatched again, and
\* nobody closes a thread before its root was dispatched.
Routing ==
  /\ RepliesRouted
  /\ known \cup refused \subseteq arrived
  /\ refused \cap (admitted \cup dispatching \cup Range(parked)) = {}
  /\ \A r \in Root \ arrived : closers[r] = 0
  /\ "early" \notin Fault => /\ dispatching \subseteq known
                             /\ \A r \in dispatching \cup Range(parked) :
                                  closers[r] = 0

SlotsInv == TypeOK /\ Placement /\ SlotsBounded /\ NoIdleSlot /\ Routing

=============================================================================
