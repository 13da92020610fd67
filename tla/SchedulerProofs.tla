-------------------------- MODULE SchedulerProofs --------------------------
(***************************************************************************)
(* Theorems about Scheduler, for any set of tasks and any limits, and for  *)
(* any number of ticks that end early.                                     *)
(***************************************************************************)
EXTENDS Scheduler, TLAPS

LEMMA LastRunNat == \A t \in Task : LastRun(t) \in Nat
BY SchedulerAssumption DEF LastRun

\* What the engine decides from its snapshot: a run is the last one exactly if
\* the row reaches its limit with it.
LEMMA IsLastReachesLimit ==
  ASSUME TypeOK, NEW t \in Task, LastRun(t) # 0, seen[t].count < LastRun(t)
  PROVE  IsLast(t) <=> seen[t].count + 1 = LastRun(t)
<1>1. seen[t].count \in Nat
  BY DEF TypeOK
<1>2. MaxRuns[t] \in Nat
  BY SchedulerAssumption
<1> QED
  BY <1>1, <1>2 DEF IsLast, LastRun

LEMMA ClockTimes ==
  ASSUME NEW t \in Task, NEW step \in Clock(t)
  PROVE  step[1] # "null" /\ step[2] \in Times \ {"null"}
<1>1. step \in {<<"later", "early">>, <<"later", "due">>, <<"early", "due">>,
               <<"due", "overdue">>, <<"overdue", "stale">>}
  BY DEF Clock
<1> QED
  BY <1>1 DEF Times

LEMMA InitInv == Init => SchedulerInv
<1> SUFFICES ASSUME Init PROVE SchedulerInv
  OBVIOUS
<1>1. TypeOK
  BY SchedulerAssumption DEF Init, TypeOK, Unseen, Times, Stored
<1>2. NewUntouched /\ RunLeft
  BY DEF Init, NewUntouched, RunLeft
<1>3. SnapshotFresh
  BY SchedulerAssumption DEF Init, SnapshotFresh, InTick
<1>4. FiredCounted /\ RunsBounded
  <2>1. \A t \in Task : current # t
    BY SchedulerAssumption DEF Init
  <2> QED
    BY <2>1, LastRunNat DEF Init, FiredCounted, RunsBounded
<1> QED
  BY <1>1, <1>2, <1>3, <1>4 DEF SchedulerInv

-----------------------------------------------------------------------------
(* One lemma per step of the users, then of the engine. *)

LEMMA UserKeepsInv ==
  ASSUME SchedulerInv, NEW t \in Task,
         \/ Create(t) \/ Delete(t) \/ Pass(t)
         \/ SetStatus(t, "paused") \/ SetStatus(t, "active")
  PROVE  SchedulerInv'
<1> USE DEF SchedulerInv
<1>1. CASE Create(t)
  <2>0. UNCHANGED <<count, tickVars, historyVars>>
    BY <1>1 DEF Create
  <2>1. PICK when \in Times \ {"null"} : next' = [next EXCEPT ![t] = when]
    BY <1>1 DEF Create, Moments, Times
  <2>2. /\ status[t] = "new"
        /\ status' = [status EXCEPT ![t] = "active"]
    BY <1>1 DEF Create
  <2>3. TypeOK'
    BY <2>0, <2>1, <2>2 DEF TypeOK, Stored, Times, tickVars, historyVars
  <2>4. ~InTick(t)
    BY <2>2 DEF SnapshotFresh, NewUntouched
  <2>5. NewUntouched'
    BY <2>0, <2>1, <2>2 DEF NewUntouched, TypeOK
  <2>6. SnapshotFresh'
    BY <2>0, <2>1, <2>4 DEF SnapshotFresh, InTick, tickVars, TypeOK
  <2>7. RunLeft'
    <3>1. count[t] = 0
      BY <2>2 DEF NewUntouched
    <3> QED
      BY <2>0, <2>1, <3>1, LastRunNat DEF RunLeft, TypeOK, LastRun
  <2>8. FiredCounted'
    BY <2>0, <2>2 DEF FiredCounted, InTick, tickVars, historyVars, TypeOK, LastRun
  <2>9. RunsBounded'
    BY <2>0 DEF RunsBounded, historyVars, LastRun
  <2> QED
    BY <2>3, <2>5, <2>6, <2>7, <2>8, <2>9
<1>2. CASE Delete(t)
  <2>0. /\ status[t] # "new"
        /\ status' = [status EXCEPT ![t] = "deleted"]
        /\ UNCHANGED <<next, count, tickVars, historyVars>>
    BY <1>2 DEF Delete, Stored
  <2>1. TypeOK'
    BY <2>0 DEF TypeOK, tickVars, historyVars
  <2>2. NewUntouched' /\ SnapshotFresh' /\ RunLeft' /\ RunsBounded'
    BY <2>0 DEF NewUntouched, SnapshotFresh, RunLeft, RunsBounded, InTick,
                tickVars, historyVars, TypeOK, LastRun
  <2>3. FiredCounted'
    BY <2>0 DEF FiredCounted, InTick, tickVars, historyVars, TypeOK, LastRun
  <2> QED
    BY <2>1, <2>2, <2>3
<1>3. CASE Pass(t)
  <2>0. /\ next[t] # "null"
        /\ UNCHANGED <<status, count, tickVars, historyVars>>
        /\ \E when \in Times \ {"null"} : next' = [next EXCEPT ![t] = when]
    BY <1>3, ClockTimes DEF Pass
  <2>1. TypeOK'
    BY <2>0 DEF TypeOK, Times, tickVars, historyVars
  <2>2. NewUntouched' /\ SnapshotFresh' /\ RunLeft' /\ RunsBounded'
    BY <2>0 DEF NewUntouched, SnapshotFresh, RunLeft, RunsBounded, InTick,
                tickVars, historyVars, TypeOK, LastRun
  <2>3. FiredCounted'
    BY <2>0 DEF FiredCounted, InTick, tickVars, historyVars, LastRun
  <2> QED
    BY <2>1, <2>2, <2>3
<1>4. ASSUME NEW new \in {"paused", "active"}, SetStatus(t, new)
      PROVE  SchedulerInv'
  <2>0. /\ status[t] \notin {"new", "deleted"}
        /\ status' = [status EXCEPT ![t] = new]
        /\ touched' \in {touched, touched \cup {t}}
        /\ UNCHANGED <<next, count, tickVars, fired, lost, broken>>
    BY <1>4 DEF SetStatus, Stored
  <2>1. TypeOK'
    BY <2>0 DEF TypeOK, Stored, tickVars
  <2>2. NewUntouched' /\ SnapshotFresh' /\ RunLeft' /\ RunsBounded'
    BY <2>0 DEF NewUntouched, SnapshotFresh, RunLeft, RunsBounded, InTick,
                tickVars, TypeOK, LastRun
  <2>3. FiredCounted'
    BY <2>0 DEF FiredCounted, InTick, tickVars, TypeOK, LastRun
  <2> QED
    BY <2>1, <2>2, <2>3
<1> QED
  BY <1>1, <1>2, <1>3, <1>4

\* The snapshot is taken, and one of its tasks is picked.
LEMMA SnapshotKeepsInv ==
  ASSUME SchedulerInv, Tick \/ \E t \in Task : Pick(t)
  PROVE  SchedulerInv'
<1> USE DEF SchedulerInv
<1>1. CASE Tick
  <2>0. /\ UNCHANGED <<rowVars, current, historyVars>>
        /\ current = NoTask
        /\ stage = "sleep" /\ stage' = "pick"
        /\ due' = {t \in Task : Selected(t)}
        /\ seen' = [t \in Task |-> IF Selected(t)
               THEN [next |-> next[t], count |-> count[t]] ELSE Unseen]
    BY <1>1 DEF Tick, TypeOK
  <2>1. TypeOK'
    <3>1. seen' \in [Task -> [next : Times, count : Nat]]
      BY <2>0 DEF TypeOK, Unseen, Times
    <3> QED
      BY <2>0, <3>1, SchedulerAssumption DEF TypeOK, rowVars, historyVars
  <2>2. NewUntouched' /\ RunLeft' /\ RunsBounded'
    BY <2>0 DEF NewUntouched, RunLeft, RunsBounded, rowVars, historyVars, LastRun
  <2>3. SnapshotFresh'
    <3>1. \A t \in Task : InTick(t)' <=> Selected(t)
      BY <2>0, SchedulerAssumption DEF InTick
    <3>2. \A t \in Task :
            Selected(t) => seen'[t].count = count[t] /\ next[t] # "null"
      BY <2>0 DEF Selected
    <3> QED
      BY <2>0, <3>1, <3>2, SchedulerAssumption DEF SnapshotFresh, rowVars
  <2>4. FiredCounted'
    <3>1. ASSUME NEW t \in Task PROVE InTick(t)' => status[t] # "deleted"
      BY <2>0, SchedulerAssumption DEF InTick, Selected
    <3> QED
      BY <2>0, <3>1 DEF FiredCounted, rowVars, historyVars, LastRun
  <2> QED
    BY <2>1, <2>2, <2>3, <2>4
<1>2. ASSUME NEW u \in Task, Pick(u) PROVE SchedulerInv'
  <2>0. /\ UNCHANGED <<rowVars, seen, historyVars>>
        /\ stage = "pick" /\ current = NoTask
        /\ u \in due /\ due' = due \ {u} /\ current' = u
        /\ stage' \in {"update", "dispatch"}
    BY <1>2 DEF Pick, TypeOK
  <2>1. TypeOK'
    BY <2>0, SchedulerAssumption DEF TypeOK, rowVars, historyVars
  <2>2. NewUntouched' /\ RunLeft' /\ RunsBounded'
    BY <2>0 DEF NewUntouched, RunLeft, RunsBounded, rowVars, historyVars, LastRun
  <2>3. \A t \in Task : InTick(t)' <=> InTick(t)
    BY <2>0, SchedulerAssumption DEF InTick
  <2>4. SnapshotFresh'
    BY <2>0, <2>3 DEF SnapshotFresh, rowVars
  <2>5. FiredCounted'
    <3> SUFFICES ASSUME NEW t \in Task, LastRun(t) # 0,
                        status[t] # "deleted" \/ InTick(t)
                 PROVE  fired[t] <= count[t] + lost[t] + (IF current' = t /\ stage' = "update" THEN 1 ELSE 0)
      BY <2>0, <2>3 DEF FiredCounted, rowVars, historyVars, LastRun
    <3>1. fired[t] <= count[t] + lost[t]
      BY <2>0 DEF FiredCounted, TypeOK
    <3> QED
      BY <3>1 DEF TypeOK
  <2> QED
    BY <2>1, <2>2, <2>4, <2>5
<1> QED
  BY <1>1, <1>2

LEMMA DispatchKeepsInv ==
  ASSUME SchedulerInv, Dispatch
  PROVE  SchedulerInv'
<1> USE DEF SchedulerInv
<1>0. /\ stage = "dispatch" /\ stage' = "update"
      /\ UNCHANGED <<rowVars, due, seen, current, lost, broken, touched>>
      /\ current \in Task
      /\ \/ fired' = [fired EXCEPT ![current] = IF LastRun(current) = 0 THEN 0
                                                ELSE @ + 1]
         \/ fired' = fired
  BY DEF Dispatch, TypeOK
<1>1. TypeOK'
  BY <1>0 DEF TypeOK, rowVars
<1>2. NewUntouched' /\ SnapshotFresh' /\ RunLeft'
  BY <1>0 DEF NewUntouched, SnapshotFresh, RunLeft, InTick, rowVars, LastRun
<1>3. \A t \in Task : fired[t] \in Nat /\ count[t] \in Nat /\ lost[t] \in Nat
  BY DEF TypeOK
<1>4. \A t \in Task : LastRun(t) # 0 =>
        fired'[t] <= fired[t] + (IF t = current THEN 1 ELSE 0)
  BY <1>0, <1>3 DEF TypeOK
<1>5. LastRun(current) # 0 =>
        /\ count[current] < LastRun(current)
        /\ fired[current] <= count[current] + lost[current]
  BY <1>0, <1>3 DEF SnapshotFresh, RunLeft, FiredCounted, InTick
<1>6. FiredCounted'
  <2> SUFFICES ASSUME NEW t \in Task, LastRun(t) # 0,
                      status[t] # "deleted" \/ InTick(t)
               PROVE  fired'[t] <= count[t] + lost[t]
                                   + (IF current = t THEN 1 ELSE 0)
    BY <1>0 DEF FiredCounted, InTick, rowVars, LastRun
  <2>1. fired[t] <= count[t] + lost[t]
    BY <1>0, <1>3 DEF FiredCounted
  <2>2. fired'[t] \in Nat
    BY <1>1 DEF TypeOK
  <2> QED
    BY <1>3, <1>4, <2>1, <2>2
<1>7. RunsBounded'
  <2> SUFFICES ASSUME NEW t \in Task, LastRun(t) # 0
               PROVE  fired'[t] <= LastRun(t) + lost[t]
    BY <1>0 DEF RunsBounded, LastRun
  <2>1. fired'[t] \in Nat
    BY <1>1 DEF TypeOK
  <2>2. CASE t = current
    BY <1>3, <1>4, <1>5, <2>1, <2>2, LastRunNat
  <2>3. CASE t # current
    BY <1>3, <1>4, <2>1, <2>3, LastRunNat DEF RunsBounded
  <2> QED
    BY <2>2, <2>3
<1> QED
  BY <1>1, <1>2, <1>6, <1>7

\* What a tick forgets of the task it worked on, and of all when it ends.
LEMMA Forgets ==
  ASSUME TypeOK, SnapshotFresh, current \in Task, Proceed \/ GiveUp
  PROVE  /\ current' = NoTask /\ NoTask \notin Task
         /\ stage' \in {"sleep", "pick"}
         /\ due' \subseteq due
         /\ seen' \in [Task -> [next : Times, count : Nat]]
         /\ \A t \in Task :
              InTick(t)' => InTick(t) /\ t # current /\ seen'[t] = seen[t]
<1>0. Unseen \in [next : Times, count : Nat] /\ NoTask \notin Task
  BY SchedulerAssumption DEF Unseen, Times
<1>1. CASE Proceed
  BY <1>0, <1>1 DEF Proceed, TypeOK, SnapshotFresh, InTick
<1>2. CASE GiveUp
  BY <1>0, <1>2 DEF GiveUp, InTick
<1> QED
  BY <1>1, <1>2

\* The update writes what the row would be had nobody touched it meanwhile.
LEMMA UpdateKeepsInv ==
  ASSUME SchedulerInv, UpdateAfterRun
  PROVE  SchedulerInv'
<1> USE DEF SchedulerInv
<1>0. /\ stage = "update" /\ current \in Task
      /\ UNCHANGED <<fired, lost, touched>>
      /\ broken' \in Nat
      /\ Proceed \/ GiveUp
      /\ InTick(current)
  BY DEF UpdateAfterRun, Proceed, Fails, TypeOK, InTick
<1>1. /\ current' = NoTask /\ NoTask \notin Task
      /\ stage' \in {"sleep", "pick"}
      /\ due' \subseteq Task
      /\ seen' \in [Task -> [next : Times, count : Nat]]
      /\ \A t \in Task :
           InTick(t)' => InTick(t) /\ t # current /\ seen'[t] = seen[t]
  BY <1>0, Forgets DEF TypeOK
<1>2. PICK end \in Ends(current) : WriteRow(end)
  BY DEF UpdateAfterRun
<1>3. \A t \in Task :
        /\ fired[t] \in Nat /\ count[t] \in Nat /\ lost[t] \in Nat
        /\ fired'[t] = fired[t] /\ lost'[t] = lost[t]
  BY <1>0 DEF TypeOK
<1>4. current' \notin due'
  BY <1>1
<1>5. RunsBounded'
  BY <1>3 DEF RunsBounded, LastRun
<1>6. CASE status[current] \notin Stored
  <2>0. UNCHANGED rowVars
    BY <1>2, <1>6 DEF WriteRow
  <2>1. TypeOK'
    BY <1>0, <1>1, <2>0 DEF TypeOK, rowVars
  <2>2. NewUntouched' /\ RunLeft'
    BY <2>0 DEF NewUntouched, RunLeft, rowVars, LastRun
  <2>3. SnapshotFresh'
    BY <1>1, <1>4, <2>0 DEF SnapshotFresh, rowVars
  <2>4. status[current] = "deleted"
    BY <1>0, <1>6 DEF TypeOK, NewUntouched, SnapshotFresh
  <2>5. FiredCounted'
    <3> SUFFICES ASSUME NEW t \in Task, LastRun(t) # 0,
                        status[t] # "deleted" \/ InTick(t)'
                 PROVE  fired[t] <= count[t] + lost[t]
      BY <1>1, <1>3, <2>0 DEF FiredCounted, rowVars, LastRun
    <3>1. t # current
      BY <1>1, <2>4
    <3> QED
      BY <1>1, <1>3, <3>1 DEF FiredCounted
  <2> QED
    BY <1>5, <2>1, <2>2, <2>3, <2>5
<1>7. CASE status[current] \in Stored
  <2>0. /\ status' = [status EXCEPT ![current] =
               IF end THEN "done" ELSE "active"]
        /\ next' = [next EXCEPT ![current] = NextRun(end)]
        /\ count' = [count EXCEPT ![current] =
               IF LastRun(current) = 0 THEN 0 ELSE @ + 1]
    BY <1>2, <1>7 DEF WriteRow
  <2>1. TypeOK'
    <3>1. count' \in [Task -> Nat]
      BY <1>0, <2>0 DEF TypeOK
    <3>2. next' \in [Task -> Times]
      BY <1>0, <2>0 DEF TypeOK, NextRun, Times
    <3>3. status' \in [Task -> Stored \cup {"new", "deleted"}]
      BY <1>0, <2>0 DEF TypeOK, Stored
    <3> QED
      BY <1>0, <1>1, <3>1, <3>2, <3>3 DEF TypeOK
  <2>2. \A t \in Task : t # current =>
          status'[t] = status[t] /\ next'[t] = next[t] /\ count'[t] = count[t]
    BY <2>0 DEF TypeOK
  <2>3. status'[current] # "new" /\ status'[current] # "deleted"
    BY <1>0, <2>0 DEF TypeOK
  <2>4. NewUntouched'
    BY <2>2, <2>3 DEF NewUntouched
  <2>5. SnapshotFresh'
    BY <1>1, <1>4, <2>2 DEF SnapshotFresh
  <2>6. LastRun(current) # 0 =>
          /\ count'[current] = count[current] + 1
          /\ next'[current] # "null" => count'[current] < LastRun(current)
    <3> SUFFICES ASSUME LastRun(current) # 0
                 PROVE  /\ count'[current] = count[current] + 1
                        /\ next'[current] # "null" =>
                             count'[current] < LastRun(current)
      OBVIOUS
    <3>1. seen[current].count = count[current] /\ count[current] < LastRun(current)
      BY <1>0 DEF SnapshotFresh, RunLeft
    <3>2. IsLast(current) <=> count[current] + 1 = LastRun(current)
      BY <1>0, <3>1, IsLastReachesLimit
    <3>3. count'[current] = count[current] + 1
      BY <1>0, <2>0 DEF TypeOK
    <3>4. next'[current] # "null" => ~IsLast(current)
      <4>1. next'[current] = NextRun(end)
        BY <1>0, <2>0 DEF TypeOK
      <4>2. IsLast(current) => end
        BY Zenon DEF Ends
      <4> QED
        BY <4>1, <4>2 DEF NextRun
    <3> QED
      BY <1>0, <1>3, <3>1, <3>2, <3>3, <3>4, LastRunNat
  <2>7. RunLeft'
    BY <2>2, <2>6 DEF RunLeft, LastRun
  <2>8. FiredCounted'
    <3> SUFFICES ASSUME NEW t \in Task, LastRun(t) # 0,
                        status'[t] # "deleted" \/ InTick(t)'
                 PROVE  fired[t] <= count'[t] + lost[t]
      <4>1. \A t \in Task : count'[t] \in Nat
        BY <2>1 DEF TypeOK
      <4>2. \A t \in Task : current' # t
        BY <1>1
      <4> QED
        BY <1>3, <4>1, <4>2 DEF FiredCounted, LastRun
    <3>1. CASE t = current
      <4>1. fired[t] <= count[t] + lost[t] + 1
        BY <1>0, <3>1 DEF FiredCounted
      <4> QED
        BY <1>3, <2>6, <3>1, <4>1
    <3>2. CASE t # current
      BY <1>1, <1>3, <2>2, <3>2 DEF FiredCounted
    <3> QED
      BY <3>1, <3>2
  <2> QED
    BY <1>5, <2>1, <2>4, <2>5, <2>7, <2>8
<1> QED
  BY <1>6, <1>7

\* A tick that ends early: an update that is lost allows one more dispatch.
LEMMA LossKeepsInv ==
  ASSUME SchedulerInv, NextRunFails \/ UpdateFails \/ Crash
  PROVE  SchedulerInv'
<1> USE DEF SchedulerInv
<1>0. /\ UNCHANGED <<rowVars, fired, touched>>
      /\ broken' \in Nat
      /\ \/ current \in Task /\ Lost
         \/ stage = "pick" /\ lost' = lost
      /\ stage' = "sleep" /\ due' = {} /\ current' = NoTask
      /\ seen' = [t \in Task |-> Unseen]
      /\ NoTask \notin Task
  BY SchedulerAssumption DEF NextRunFails, UpdateFails, Crash, Fails, GiveUp,
                             TypeOK
<1>1. lost' \in [Task -> Nat]
  BY <1>0 DEF Lost, TypeOK
<1>2. TypeOK'
  BY <1>0, <1>1 DEF TypeOK, Unseen, Times, rowVars
<1>3. NewUntouched' /\ RunLeft'
  BY <1>0 DEF NewUntouched, RunLeft, rowVars, LastRun
<1>4. \A t \in Task : ~InTick(t)'
  BY <1>0 DEF InTick
<1>5. SnapshotFresh'
  BY <1>0, <1>4 DEF SnapshotFresh
<1>6. ASSUME NEW t \in Task, LastRun(t) # 0
      PROVE  /\ fired[t] \in Nat /\ count[t] \in Nat
             /\ lost[t] \in Nat /\ lost'[t] \in Nat
             /\ lost'[t] >= lost[t]
             /\ t = current => lost'[t] = lost[t] + 1
  BY <1>0, <1>1, <1>6 DEF TypeOK, Lost
<1>7. FiredCounted'
  <2> SUFFICES ASSUME NEW t \in Task, LastRun(t) # 0, status[t] # "deleted"
               PROVE  fired[t] <= count[t] + lost'[t]
    <3>1. \A t \in Task : count[t] \in Nat /\ lost'[t] \in Nat
      BY <1>1 DEF TypeOK
    <3>2. \A t \in Task : current' # t
      BY <1>0
    <3> QED
      BY <1>0, <1>4, <3>1, <3>2 DEF FiredCounted, rowVars, LastRun
  <2>1. fired[t] <= count[t] + lost[t] + (IF t = current THEN 1 ELSE 0)
    BY <1>6 DEF FiredCounted
  <2> QED
    BY <1>6, <2>1
<1>8. RunsBounded'
  <2> SUFFICES ASSUME NEW t \in Task, LastRun(t) # 0
               PROVE  fired[t] <= LastRun(t) + lost'[t]
    BY <1>0 DEF RunsBounded, LastRun
  <2> QED
    BY <1>6, LastRunNat DEF RunsBounded
<1> QED
  BY <1>2, <1>3, <1>5, <1>7, <1>8

LEMMA StutterKeepsInv == SchedulerInv /\ UNCHANGED vars => SchedulerInv'
BY DEF SchedulerInv, vars, rowVars, tickVars, historyVars, TypeOK, NewUntouched,
       SnapshotFresh, RunLeft, FiredCounted, RunsBounded, InTick, LastRun

-----------------------------------------------------------------------------
\* The invariant that explains the bound holds for any tasks and limits.
THEOREM SchedulerInductive == Spec => []SchedulerInv
<1>1. SchedulerInv /\ [Next]_vars => SchedulerInv'
  BY UserKeepsInv, SnapshotKeepsInv, DispatchKeepsInv, UpdateKeepsInv,
     LossKeepsInv, StutterKeepsInv DEF Next, Engine
<1> QED
  BY InitInv, <1>1, PTL DEF Spec

\* A task that ends after some runs is never dispatched more often than that,
\* except once for each dispatch whose record was lost.
THEOREM RunsLimited == Spec => []RunsBounded
<1>1. SchedulerInv => RunsBounded
  BY DEF SchedulerInv
<1> QED
  BY SchedulerInductive, <1>1, PTL

-----------------------------------------------------------------------------
LEMMA NextKeepsTime ==
  ASSUME TypeOK, ActiveHasNext, [Next]_vars
  PROVE  ActiveHasNext'
<1> USE DEF ActiveHasNext
<1>1. ASSUME NEW t \in Task, Create(t) PROVE ActiveHasNext'
  BY <1>1 DEF Create, Moments, TypeOK, tickVars, historyVars
<1>2. ASSUME NEW t \in Task, Delete(t) PROVE ActiveHasNext'
  BY <1>2 DEF Delete, TypeOK, historyVars
<1>3. ASSUME NEW t \in Task, Pass(t) PROVE ActiveHasNext'
  <2>1. PICK step \in Clock(t) :
          next[t] = step[1] /\ next' = [next EXCEPT ![t] = step[2]]
    BY <1>3 DEF Pass
  <2>2. step[2] # "null"
    BY <2>1, ClockTimes
  <2> QED
    BY <1>3, <2>1, <2>2 DEF Pass, TypeOK, historyVars
<1>4. ASSUME NEW t \in Task, NEW new \in {"paused", "active"}, SetStatus(t, new)
      PROVE  ActiveHasNext'
  BY <1>4 DEF SetStatus, TypeOK
<1>5. CASE Tick
  BY <1>5 DEF Tick, rowVars, historyVars
<1>6. ASSUME NEW t \in Task, Pick(t) PROVE ActiveHasNext'
  BY <1>6 DEF Pick, rowVars, historyVars
<1>7. CASE Dispatch
  BY <1>7 DEF Dispatch, rowVars
<1>8. CASE UpdateAfterRun
  <2>1. UNCHANGED touched /\ current \in Task
    BY <1>8 DEF UpdateAfterRun, TypeOK
  <2>2. PICK end \in Ends(current) : WriteRow(end)
    BY <1>8 DEF UpdateAfterRun
  <2>3. CASE status[current] \notin Stored
    BY <2>1, <2>2, <2>3 DEF WriteRow, rowVars
  <2>4. CASE status[current] \in Stored
    <3>1. /\ status' = [status EXCEPT ![current] =
                IF end THEN "done" ELSE "active"]
          /\ next' = [next EXCEPT ![current] = NextRun(end)]
      BY <2>2, <2>4 DEF WriteRow
    <3>2. status'[current] = "active" => next'[current] = "later"
      BY <2>1, <3>1 DEF TypeOK, NextRun
    <3> QED
      BY <2>1, <3>1, <3>2 DEF TypeOK
  <2> QED
    BY <2>3, <2>4
<1>9. CASE NextRunFails \/ UpdateFails \/ Crash
  BY <1>9 DEF NextRunFails, UpdateFails, Crash, rowVars
<1>10. CASE UNCHANGED vars
  BY <1>10 DEF vars, rowVars, historyVars
<1> QED
  BY <1>1, <1>2, <1>3, <1>4, <1>5, <1>6, <1>7, <1>8, <1>9, <1>10
  DEF Next, Engine

\* An active task has a time to run at, unless a user resumed it after its end.
THEOREM ActiveTasksScheduled == Spec => []ActiveHasNext
<1>1. Init => ActiveHasNext
  BY DEF Init, ActiveHasNext
<1>2. SchedulerInv => TypeOK
  BY DEF SchedulerInv
<1> QED
  BY <1>1, <1>2, SchedulerInductive, NextKeepsTime, PTL DEF Spec

\* A deleted task stays deleted, whatever tick still has it in its snapshot.
THEOREM DeletedForever == Spec => DeletedStays
<1>1. ASSUME TypeOK, [Next]_vars, NEW t \in Task, status[t] = "deleted"
      PROVE  status'[t] = "deleted"
  <2>1. ASSUME NEW u \in Task, Create(u) \/ Delete(u) \/ Pass(u)
        PROVE  status'[t] = "deleted"
    BY <1>1, <2>1 DEF Create, Delete, Pass, TypeOK
  <2>2. ASSUME NEW u \in Task, NEW new \in {"paused", "active"}, SetStatus(u, new)
        PROVE  status'[t] = "deleted"
    BY <1>1, <2>2 DEF SetStatus, Stored, TypeOK
  <2>3. CASE UpdateAfterRun
    BY <1>1, <2>3 DEF UpdateAfterRun, WriteRow, Stored, rowVars, TypeOK
  <2>4. CASE Tick \/ (\E u \in Task : Pick(u)) \/ Dispatch \/ NextRunFails
             \/ UpdateFails \/ Crash \/ UNCHANGED vars
    BY <1>1, <2>4 DEF Tick, Pick, Dispatch, NextRunFails, UpdateFails, Crash,
                      vars, rowVars
  <2> QED
    BY <1>1, <2>1, <2>2, <2>3, <2>4 DEF Next, Engine
<1>2. TypeOK /\ [Next]_vars =>
        [\A t \in Task : status[t] = "deleted" => status'[t] = "deleted"]_vars
  BY <1>1
<1>3. SchedulerInv => TypeOK
  BY DEF SchedulerInv
<1> QED
  BY <1>2, <1>3, SchedulerInductive, PTL DEF Spec, DeletedStays
=============================================================================
