----------------------------- MODULE FactStore -----------------------------
(***************************************************************************)
(* What the long-term memory promises, without a cache, a dirty set or a   *)
(* debounce loop: a list of facts per user that changes one fact at a      *)
(* time, never by itself, and a file that always holds such a list as it   *)
(* once was, and to which a crash falls back.  Two things take more than   *)
(* one fact: a limit that was lowered, and a file that cannot be read.     *)
(***************************************************************************)
EXTENDS SequencesExt

CONSTANTS
  User, Text,
  Id     \* names of facts

VARIABLES
  memory,  \* the facts of each user, oldest first
  file,    \* those a crash leaves
  limit    \* facts of a user at most, when one is added

vars == <<memory, file, limit>>

Init ==
  /\ memory = [u \in User |-> <<>>]
  /\ file = memory
  /\ limit \in Nat

Known(u) == {memory[u][i].id : i \in DOMAIN memory[u]}
            \cup {file[u][i].id : i \in DOMAIN file[u]}

\* What a memory as it was written may be found as: that, or nothing.
Found(u) == {memory[u]} \cup (IF memory[u] = file[u] THEN {<<>>} ELSE {})

Miss(u) ==
  /\ memory[u] = file[u]
  /\ memory' = [memory EXCEPT ![u] = <<>>]
  /\ UNCHANGED <<file, limit>>

\* A fact nobody knew goes to the end, if there is room.
Learn(u) ==
  /\ \E facts \in Found(u), id \in Id \ Known(u), t \in Text :
       /\ Len(facts) < limit
       /\ memory' = [memory EXCEPT ![u] = Append(facts, [id |-> id, text |-> t])]
  /\ UNCHANGED <<file, limit>>

\* There is none, and the list is cut to the limit of now.
Refuse(u) ==
  /\ Len(memory[u]) > limit
  /\ memory' = [memory EXCEPT ![u] = SubSeq(@, 1, limit)]
  /\ UNCHANGED <<file, limit>>

SetLimit ==
  /\ limit' \in Nat
  /\ UNCHANGED <<memory, file>>

\* A fact gets another text and keeps its place.
Reword(u) ==
  /\ \E i \in DOMAIN memory[u], t \in Text :
       memory' = [memory EXCEPT ![u][i].text = t]
  /\ UNCHANGED <<file, limit>>

Forget(u) ==
  /\ \E i \in DOMAIN memory[u] :
       memory' = [memory EXCEPT ![u] = RemoveAt(@, i)]
  /\ UNCHANGED <<file, limit>>

\* Some users' lists are written, each as a whole.
Persist(S) ==
  /\ file' = [u \in User |-> IF u \in S THEN memory[u] ELSE file[u]]
  /\ UNCHANGED <<memory, limit>>

Crash ==
  /\ memory' = file
  /\ limit' \in Nat
  /\ UNCHANGED file

Next ==
  \/ \E u \in User :
       Miss(u) \/ Learn(u) \/ Refuse(u) \/ Reword(u) \/ Forget(u)
  \/ \E S \in SUBSET User : Persist(S)
  \/ SetLimit \/ Crash

Spec == Init /\ [][Next]_vars
=============================================================================
