---------------------------- MODULE TaskService ----------------------------
(***************************************************************************)
(* What the task path promises, without workers, cards or commands: a      *)
(* session serves its messages one at a time in the order they were        *)
(* accepted, each at most once, the work of two sessions on the same       *)
(* directory never overlaps, and a message is over only when its sender    *)
(* was told so, unless the service of the session broke down.              *)
(***************************************************************************)
EXTENDS Naturals, Sequences

CONSTANTS Session, Task, Path, PathOf, OwnerOf, Capacity, NoTask, NoSession

VARIABLES
  seen,     \* messages received
  line,     \* accepted messages of a session, oldest first
  running,  \* the message a session is serving
  owner,    \* the session working in a directory
  told      \* messages whose sender was told how they ended

vars == <<seen, line, running, owner, told>>

Init ==
  /\ seen = {}
  /\ line = [s \in Session |-> <<>>]
  /\ running = [s \in Session |-> NoTask]
  /\ owner = [p \in Path |-> NoSession]
  /\ told = {}

\* A message is received once; it is refused only when the line is full, and
\* its sender is told at once.
Receive(t) ==
  /\ t \notin seen
  /\ seen' = seen \cup {t}
  /\ IF Len(line[OwnerOf[t]]) < Capacity
     THEN /\ line' = [line EXCEPT ![OwnerOf[t]] = Append(@, t)]
          /\ UNCHANGED told
     ELSE /\ told' = told \cup {t}
          /\ UNCHANGED line
  /\ UNCHANGED <<running, owner>>

Begin(s) ==
  /\ running[s] = NoTask
  /\ line[s] # <<>>
  /\ running' = [running EXCEPT ![s] = Head(line[s])]
  /\ line' = [line EXCEPT ![s] = Tail(@)]
  /\ UNCHANGED <<seen, owner, told>>

Enter(s) ==
  /\ running[s] # NoTask
  /\ owner[PathOf[s]] = NoSession
  /\ owner' = [owner EXCEPT ![PathOf[s]] = s]
  /\ UNCHANGED <<seen, line, running, told>>

Left(s) == [owner EXCEPT ![PathOf[s]] = IF @ = s THEN NoSession ELSE @]

\* The sender is told once, by a session in its directory, which may leave it.
Tell(s) ==
  /\ running[s] # NoTask
  /\ running[s] \notin told
  /\ owner[PathOf[s]] = s
  /\ told' = told \cup {running[s]}
  /\ owner' \in {owner, Left(s)}
  /\ UNCHANGED <<seen, line, running>>

\* Serving ends; a session still in its directory leaves it.
End(s) ==
  /\ running[s] \in told
  /\ running' = [running EXCEPT ![s] = NoTask]
  /\ owner' = Left(s)
  /\ UNCHANGED <<seen, line, told>>

\* The service of a session in its directory breaks down, and nobody is told.
Drop(s) ==
  /\ running[s] # NoTask
  /\ running[s] \notin told
  /\ owner[PathOf[s]] = s
  /\ running' = [running EXCEPT ![s] = NoTask]
  /\ owner' = Left(s)
  /\ UNCHANGED <<seen, line, told>>

\* Closing the thread discards what was accepted and not begun.
Discard(s) ==
  /\ line' = [line EXCEPT ![s] = <<>>]
  /\ UNCHANGED <<seen, running, owner, told>>

Next ==
  \/ \E t \in Task : Receive(t)
  \/ \E s \in Session :
       \/ Begin(s) \/ Enter(s) \/ Tell(s) \/ End(s) \/ Drop(s) \/ Discard(s)

Spec == Init /\ [][Next]_vars
=============================================================================
