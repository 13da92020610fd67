------------------------ MODULE SessionWorkerProofs ------------------------
(***************************************************************************)
(* Safety of SessionWorker for every number of sessions, messages and      *)
(* directories: the inductive invariant IInv, one lemma per part of it and *)
(* under it one step per action, and what follows from it.                 *)
(***************************************************************************)
EXTENDS SessionWorker, QueueFacts

LEMMA ExceptType ==
  ASSUME NEW S, NEW T, NEW f \in [S -> T], NEW x \in S, NEW v \in T
  PROVE  [f EXCEPT ![x] = v] \in [S -> T]
OBVIOUS

-----------------------------------------------------------------------------
(* Types *)

LEMMA NotifyType ==
  ASSUME TypeOK, NEW s \in Session, active[s] \in Task,
         NEW outcome \in Outcome, Notify(s, outcome)
  PROVE  shown' \in [Task -> Seq(Outcome)]
<1>1. Append(shown[active[s]], outcome) \in Seq(Outcome)
  BY DEF TypeOK
<1> QED
  BY <1>1 DEF TypeOK, Notify

LEMMA EnterTypes ==
  ASSUME TypeOK, NEW s \in Session, EnterLock(s)
  PROVE  /\ holder' \in [Path -> Session \cup {NoSession}]
         /\ status' \in [Session -> Status]
         /\ contended' \subseteq Session
         /\ pc' \in [Session -> PC]
<1>1. pc' \in {[pc EXCEPT ![s] = "update"], [pc EXCEPT ![s] = "ready"]}
  BY DEF EnterLock, Goto
<1>2. pc' \in [Session -> PC]
  BY <1>1 DEF TypeOK, PC, Busy, Critical
<1> QED
  BY <1>2, ConstantsAssumption DEF TypeOK, EnterLock, Status

LEMMA TypeStep ==
  ASSUME IInv, [Next]_vars PROVE TypeOK'
<1> USE ConstantsAssumption DEF lockVars, askVars, dispatchVars, queueVars, Status,
        Outcome, PC, Busy, Critical
<1>1. TypeOK /\ LockConsistent /\ TaskDiscipline
  BY DEF IInv
<1>2. ASSUME NEW t \in Task, Dispatch(t) PROVE TypeOK'
  <2> DEFINE s == OwnerOf[t]
  <2>1. s \in Session /\ queue[s] \in Seq(Task) /\ Len(queue[s]) \in Nat
    BY <1>1 DEF TypeOK
  <2>2. /\ Append(queue[s], t) \in Seq(Task)
        /\ Len(Append(queue[s], t)) = Len(queue[s]) + 1
        /\ pending[s] \cup {t} \in SUBSET Task
        /\ Append(shown[t], "full") \in Seq(Outcome)
    BY <1>1, <2>1 DEF TypeOK
  <2>3. /\ arrived' \subseteq Task
        /\ UNCHANGED <<active, status, canceled, local, pc, contended,
                       holder, waiters, future, asked, cards, gone, closing, dropped>>
    BY <1>1, <1>2 DEF TypeOK, Dispatch
  <2>4. CASE HasRoom(s)
    <3>1. /\ queue' = [queue EXCEPT ![s] = Append(queue[s], t)]
          /\ pending' = [pending EXCEPT ![s] = pending[s] \cup {t}]
          /\ acking' = acking \cup {t}
          /\ shown' = shown
      BY <1>2, <2>4 DEF Dispatch
    <3>2. /\ queue' \in [Session -> Seq(Task)]
          /\ \A u \in Session : Len(queue'[u]) <= Capacity
      BY <1>1, <2>1, <2>2, <2>4, <3>1 DEF TypeOK, HasRoom
    <3>3. pending' \in [Session -> SUBSET Task]
      BY <1>1, <2>1, <2>2, <3>1, ExceptType DEF TypeOK
    <3> QED
      BY <1>1, <2>3, <3>1, <3>2, <3>3 DEF TypeOK
  <2>5. CASE ~HasRoom(s)
    <3>1. /\ shown' = [shown EXCEPT ![t] = Append(shown[t], "full")]
          /\ UNCHANGED <<queue, pending, acking>>
      BY <1>2, <2>5 DEF Dispatch
    <3>2. shown' \in [Task -> Seq(Outcome)]
      BY <1>1, <2>2, <3>1 DEF TypeOK
    <3> QED
      BY <1>1, <2>3, <3>1, <3>2 DEF TypeOK
  <2> QED BY <2>4, <2>5
<1>3. ASSUME NEW t \in Task, EnsureWorker(t) PROVE TypeOK'
  BY <1>1, <1>3 DEF TypeOK, EnsureWorker
<1>4. ASSUME NEW s \in Session, Take(s) PROVE TypeOK'
  <2>1. /\ queue[s] \in Seq(Task)
        /\ Head(queue[s]) \in Task
        /\ Tail(queue[s]) \in Seq(Task)
        /\ Len(queue[s]) \in Nat
        /\ Len(Tail(queue[s])) = Len(queue[s]) - 1
        /\ pending[s] \ {Head(queue[s])} \in SUBSET Task
    BY <1>1, <1>4, TailFacts DEF TypeOK, Take
  <2>2. /\ queue' = [queue EXCEPT ![s] = Tail(queue[s])]
        /\ pending' = [pending EXCEPT ![s] = pending[s] \ {Head(queue[s])}]
        /\ UNCHANGED <<arrived, acking, canceled, local, holder, waiters,
                       future, asked, cards, gone, closing, shown, dropped>>
    BY <1>4 DEF Take
  <2>3. /\ queue' \in [Session -> Seq(Task)]
        /\ \A u \in Session : Len(queue'[u]) <= Capacity
    BY <1>1, <2>1, <2>2 DEF TypeOK
  <2>4. pending' \in [Session -> SUBSET Task]
    BY <1>1, <2>1, <2>2, ExceptType DEF TypeOK
  <2>5. CASE Head(queue[s]) \in canceled
    BY <1>1, <1>4, <2>2, <2>3, <2>4, <2>5 DEF TypeOK, Take
  <2>6. CASE Head(queue[s]) \notin canceled
    <3>1. /\ active' = [active EXCEPT ![s] = Head(queue[s])]
          /\ pc' = [pc EXCEPT ![s] = "card"]
          /\ contended' \in {contended, contended \cup {s}}
      BY <1>4, <2>6 DEF Take, Goto
    <3>2. \E x \in Status : status' = [status EXCEPT ![s] = x]
      BY <1>4, <2>6 DEF Take
    <3>3. status' \in [Session -> Status]
      BY <1>1, <3>2, ExceptType DEF TypeOK
    <3>4. /\ active' \in [Session -> Task \cup {NoTask}]
          /\ pc' \in [Session -> PC]
          /\ contended' \subseteq Session
      BY <1>1, <2>1, <3>1 DEF TypeOK
    <3> QED
      BY <1>1, <2>2, <2>3, <2>4, <3>3, <3>4 DEF TypeOK
  <2> QED
    BY <2>5, <2>6
<1>5. ASSUME NEW s \in Session, CardSent(s) PROVE TypeOK'
  <2>1. CASE LockFree(PathOf[s])
    BY <1>1, <1>5, <2>1, EnterTypes DEF TypeOK, CardSent
  <2>2. CASE ~LockFree(PathOf[s])
    <3>1. /\ Append(waiters[PathOf[s]], s) \in Seq(Session)
          /\ PathOf[s] \in Path
      BY <1>1 DEF TypeOK
    <3>2. /\ waiters' = [waiters EXCEPT ![PathOf[s]] =
                           Append(waiters[PathOf[s]], s)]
          /\ pc' = [pc EXCEPT ![s] = "wait"]
          /\ UNCHANGED <<holder, status, contended>>
      BY <1>5, <2>2 DEF CardSent, Goto
    <3> QED
      BY <1>1, <1>5, <3>1, <3>2 DEF TypeOK, CardSent
  <2> QED BY <2>1, <2>2
<1>6. ASSUME NEW s \in Session, LockWake(s) PROVE TypeOK'
  <2> DEFINE p == PathOf[s]
  <2>1. /\ p \in Path
        /\ waiters[p] \in Seq(Session)
        /\ waiters[p] # <<>>
    BY <1>1, <1>6, EmptyFacts DEF TypeOK, LockWake, LockConsistent
  <2>2. Tail(waiters[p]) \in Seq(Session)
    BY <2>1, TailFacts
  <2>3. waiters' \in [Path -> Seq(Session)]
    BY <1>1, <1>6, <2>1, <2>2 DEF TypeOK, LockWake
  <2> QED
    BY <1>1, <1>6, <2>3, EnterTypes DEF TypeOK, LockWake
<1>7. ASSUME NEW s \in Session, UpdateSent(s) PROVE TypeOK'
  BY <1>1, <1>7 DEF TypeOK, TaskDiscipline, UpdateSent, Goto
<1>8. ASSUME NEW s \in Session, StartExecute(s) PROVE TypeOK'
  BY <1>1, <1>8 DEF TypeOK, TaskDiscipline, StartExecute, Goto, CopyOfTask
<1>9. ASSUME NEW s \in Session, ReadyFailed(s) PROVE TypeOK'
  BY <1>1, <1>9 DEF TypeOK, TaskDiscipline, ReadyFailed, Goto, Notify
<1>10. ASSUME NEW s \in Session, Evicted(s) PROVE TypeOK'
  BY <1>1, <1>10 DEF TypeOK, TaskDiscipline, Evicted, Goto, Notify
<1>11. ASSUME NEW s \in Session, Reported(s) PROVE TypeOK'
  BY <1>1, <1>11 DEF TypeOK, TaskDiscipline, Reported, Release, EndTask, Goto
<1>12. ASSUME NEW s \in Session, FinalSent(s) PROVE TypeOK'
  BY <1>1, <1>12 DEF TypeOK, TaskDiscipline, FinalSent, EndTask, Goto
<1>13. ASSUME NEW s \in Session, AskSent(s) PROVE TypeOK'
  BY <1>1, <1>13 DEF TypeOK, TaskDiscipline, AskSent, Goto
<1>14. ASSUME NEW s \in Session, PermissionAnswered(s) PROVE TypeOK'
  <2>1. active[s] \in Task
    BY <1>1, <1>14 DEF TypeOK, TaskDiscipline, PermissionAnswered
  <2>2. canceled' \subseteq Task
    BY <1>1, <1>14, <2>1 DEF TypeOK, PermissionAnswered
  <2>3. CASE s \in gone
    <3>1. shown' \in [Task -> Seq(Outcome)]
      BY <1>1, <1>14, <2>1, <2>3, NotifyType DEF PermissionAnswered
    <3> QED
      BY <1>1, <1>14, <2>2, <2>3, <3>1 DEF TypeOK, PermissionAnswered, Goto
  <2>4. CASE s \notin gone
    BY <1>1, <1>14, <2>2, <2>4 DEF TypeOK, PermissionAnswered, Goto
  <2> QED BY <2>3, <2>4
<1>15. ASSUME NEW s \in Session, PermissionCancelled(s) PROVE TypeOK'
  <2>1. active[s] \in Task
    BY <1>1, <1>15 DEF TypeOK, TaskDiscipline, PermissionCancelled
  <2>2. shown' \in [Task -> Seq(Outcome)]
    BY <1>1, <1>15, <2>1, NotifyType DEF PermissionCancelled
  <2>3. canceled' \subseteq Task
    BY <1>1, <1>15, <2>1 DEF TypeOK, PermissionCancelled
  <2> QED
    BY <1>1, <1>15, <2>2, <2>3 DEF TypeOK, PermissionCancelled, Goto
<1>16. ASSUME NEW s \in Session, Aborted(s) PROVE TypeOK'
  <2>1. active[s] \in Task
    BY <1>1, <1>16 DEF TypeOK, TaskDiscipline, Aborted
  <2>2. CASE active[s] \in canceled
    BY <1>1, <1>16, <2>2 DEF TypeOK, Aborted, Release, EndTask, Goto
  <2>3. CASE active[s] \notin canceled
    <3>1. shown' \in [Task -> Seq(Outcome)]
      BY <1>1, <1>16, <2>1, <2>3, NotifyType DEF Aborted
    <3>2. canceled' \subseteq Task
      BY <1>1, <1>16, <2>1, <2>3 DEF TypeOK, Aborted
    <3> QED
      BY <1>1, <1>16, <3>1, <3>2 DEF TypeOK, Aborted, Release, EndTask, Goto
  <2> QED BY <2>2, <2>3
<1>17. ASSUME NEW s \in Session, Finish(s) PROVE TypeOK'
  BY <1>1, <1>17 DEF TypeOK, TaskDiscipline, Finish, Release, Goto, Notify
<1>18. ASSUME NEW s \in Session, Fail(s) PROVE TypeOK'
  BY <1>1, <1>18 DEF TypeOK, TaskDiscipline, Fail, Goto, Notify
<1>19. ASSUME NEW s \in Session, Timeout(s) PROVE TypeOK'
  BY <1>1, <1>19 DEF TypeOK, TaskDiscipline, Timeout, Goto
<1>20. ASSUME NEW s \in Session, Ask(s) PROVE TypeOK'
  BY <1>1, <1>20 DEF TypeOK, TaskDiscipline, Ask, Goto
<1>21. ASSUME NEW s \in Session, Stop(s) PROVE TypeOK'
  BY <1>1, <1>21 DEF TypeOK, TaskDiscipline, Stop, CancelActive, CancelPermission
<1>22. ASSUME NEW s \in Session, DoneBegin(s) PROVE TypeOK'
  <2>1. canceled' \subseteq Task
    BY <1>1, <1>22 DEF TypeOK, DoneBegin, CancelActive
  <2>2. future' \in [Session ->
                       {"none", "pending", "allow", "deny", "cancelled"}]
    BY <1>1, <1>22 DEF TypeOK, DoneBegin, CancelActive, CancelPermission
  <2> QED
    BY <1>1, <1>22, <2>1, <2>2 DEF TypeOK, DoneBegin
<1>23. ASSUME NEW s \in Session, DoneDrain(s) PROVE TypeOK'
  BY <1>1, <1>23 DEF TypeOK, TaskDiscipline, DoneDrain, RuntimeStopped
<1>24. ASSUME NEW s \in Session, DoneEnd(s) PROVE TypeOK'
  BY <1>1, <1>24 DEF TypeOK, TaskDiscipline, DoneEnd
<1>25. ASSUME NEW s \in Session, Reap(s) PROVE TypeOK'
  BY <1>1, <1>25 DEF TypeOK, TaskDiscipline, Reap, RuntimeStopped
<1>26. ASSUME NEW s \in Session, UserReply(s) PROVE TypeOK'
  <2>1. ASSUME NEW choice \in Choice, Resolve(s, choice)
        PROVE  future' \in [Session ->
                              {"none", "pending", "allow", "deny", "cancelled"}]
    BY <1>1, <2>1 DEF TypeOK, Resolve, Choice
  <2>2. ASSUME NEW r \in 1..MaxAsk, NEW choice \in Choice, Click(s, r, choice)
        PROVE  TypeOK'
    <3>1. cards[s] \ {r} \in SUBSET (1..MaxAsk)
      BY <1>1 DEF TypeOK
    <3>2. cards' \in [Session -> SUBSET (1..MaxAsk)]
      BY <1>1, <2>2, <3>1, ExceptType DEF TypeOK, Click
    <3> QED
      BY <1>1, <2>1, <2>2, <3>2 DEF TypeOK, Click
  <2>3. ASSUME NEW choice \in Choice, TextReply(s, choice) PROVE TypeOK'
    BY <1>1, <2>1, <2>3 DEF TypeOK, TextReply
  <2> QED
    BY <1>26, <2>2, <2>3 DEF UserReply
<1>28. ASSUME NEW s \in Session, Unhandled(s) PROVE TypeOK'
  <2>1. active[s] \in Task
    BY <1>1, <1>28 DEF TypeOK, TaskDiscipline, Unhandled
  <2>2. dropped' \subseteq Task
    BY <1>1, <1>28, <2>1 DEF TypeOK, Unhandled
  <2> QED
    BY <1>1, <1>28, <2>2 DEF TypeOK, Unhandled, Release, EndTask, Goto
<1>27. CASE UNCHANGED vars
  BY <1>1, <1>27 DEF TypeOK, vars
<1> QED
  BY <1>2, <1>3, <1>4, <1>5, <1>6, <1>7, <1>8, <1>9, <1>10, <1>11, <1>12, <1>13, <1>14, <1>15, <1>16, <1>17, <1>18, <1>19, <1>20, <1>21, <1>22, <1>23, <1>24, <1>25, <1>26, <1>27, <1>28 DEF Next, WorkerStep, ExecuteEnds, Done

-----------------------------------------------------------------------------
(* The path lock *)

\* A worker that stays on its side of the lock changes nothing about it.
LEMMA LockKept ==
  ASSUME TypeOK, LockConsistent, UNCHANGED <<holder, waiters>>,
         NEW s \in Session, NEW label \in PC, pc' = [pc EXCEPT ![s] = label],
         pc[s] # "wait", label # "wait",
         pc[s] \in Critical <=> label \in Critical
  PROVE  LockConsistent'
BY DEF TypeOK, LockConsistent

\* A worker that leaves the critical section gives the lock back.
LEMMA LockLeft ==
  ASSUME TypeOK, LockConsistent, NEW s \in Session, Release(s),
         NEW label \in PC, pc' = [pc EXCEPT ![s] = label],
         pc[s] \in Critical, label \notin Critical, label # "wait"
  PROVE  LockConsistent'
<1>1. /\ pc[s] # "wait"
      /\ PathOf[s] \in Path
      /\ \A u \in Session : u # s => pc'[u] = pc[u]
      /\ pc'[s] = label
  BY ConstantsAssumption DEF TypeOK, Critical
<1>2. ASSUME NEW p \in Path
      PROVE  /\ Range(waiters'[p]) = {u \in Session : PathOf[u] = p /\ pc'[u] = "wait"}
             /\ IsInjective(waiters'[p])
  BY <1>1 DEF LockConsistent, Release
<1>3. ASSUME NEW p \in Path, NEW u \in Session
      PROVE  holder'[p] = u <=> (pc'[u] \in Critical /\ PathOf[u] = p)
  BY <1>1, ConstantsAssumption DEF LockConsistent, Release, TypeOK
<1> QED
  BY <1>2, <1>3 DEF LockConsistent

\* A worker that takes a free lock is its only owner.
LEMMA LockTaken ==
  ASSUME TypeOK, LockConsistent, NEW s \in Session, EnterLock(s),
         holder[PathOf[s]] = NoSession, pc[s] \notin Critical
  PROVE  \A p \in Path, u \in Session :
           holder'[p] = u <=> (pc'[u] \in Critical /\ PathOf[u] = p)
<1>1. /\ PathOf[s] \in Path
      /\ \A u \in Session : u # s => pc'[u] = pc[u]
      /\ pc'[s] \in Critical
  <2>1. PathOf[s] \in Path
    BY ConstantsAssumption
  <2>2. PICK label \in {"update", "ready"} : pc' = [pc EXCEPT ![s] = label]
    BY DEF EnterLock, Goto
  <2>3. DOMAIN pc = Session
    BY DEF TypeOK
  <2> QED
    BY <2>1, <2>2, <2>3 DEF Critical
<1>2. /\ holder' = [holder EXCEPT ![PathOf[s]] = s]
      /\ \A u \in Session : ~(pc[u] \in Critical /\ PathOf[u] = PathOf[s])
  BY <1>1, ConstantsAssumption DEF LockConsistent, EnterLock
<1>3. ASSUME NEW p \in Path, NEW u \in Session
      PROVE  holder'[p] = u <=> (pc'[u] \in Critical /\ PathOf[u] = p)
  <2>1. CASE p = PathOf[s]
    <3>1. holder'[p] = s
      BY <1>1, <1>2, <2>1 DEF TypeOK
    <3> QED
      BY <1>1, <1>2, <2>1, <3>1
  <2>2. CASE p # PathOf[s]
    <3>1. holder'[p] = holder[p]
      BY <1>1, <1>2, <2>2 DEF TypeOK
    <3> QED
      BY <1>1, <2>2, <3>1 DEF LockConsistent
  <2> QED BY <2>1, <2>2
<1> QED BY <1>3

LEMMA LockStep ==
  ASSUME IInv, [Next]_vars PROVE LockConsistent'
<1> USE ConstantsAssumption DEF lockVars, askVars, dispatchVars, queueVars
<1>1. TypeOK /\ LockConsistent /\ TaskDiscipline /\ NoticeDiscipline /\ AbortDiscipline
  BY DEF IInv
<1>2. ASSUME NEW t \in Task, Dispatch(t) PROVE LockConsistent'
  BY <1>1, <1>2 DEF Dispatch, LockConsistent
<1>3. ASSUME NEW t \in Task, EnsureWorker(t) PROVE LockConsistent'
  <2> DEFINE s == OwnerOf[t]
  <2>1. s \in Session /\ pc[s] \in PC
    BY <1>1 DEF TypeOK
  <2>2. CASE pc[s] = "none"
    <3>1. pc' = [pc EXCEPT ![s] = "get"] /\ UNCHANGED <<holder, waiters>>
      BY <1>1, <1>3, <2>2 DEF EnsureWorker
    <3> QED
      BY <1>1, <2>1, <2>2, <3>1, LockKept DEF PC, Busy, Critical
  <2>3. CASE pc[s] # "none"
    <3>1. pc' = pc /\ UNCHANGED <<holder, waiters>>
      BY <1>1, <1>3, <2>1, <2>3 DEF EnsureWorker, TypeOK
    <3> QED
      BY <1>1, <3>1 DEF LockConsistent
  <2> QED BY <2>2, <2>3
<1>4. ASSUME NEW s \in Session, Take(s) PROVE LockConsistent'
  BY <1>1, <1>4, LockKept DEF Take, Goto, PC, Busy, Critical, LockConsistent
<1>5. ASSUME NEW s \in Session, CardSent(s) PROVE LockConsistent'
  <2> DEFINE p == PathOf[s]
  <2>1. p \in Path /\ waiters[p] \in Seq(Session) /\ pc[s] = "card"
    BY <1>1, <1>5 DEF TypeOK, CardSent
  <2>2. CASE LockFree(p)
    <3>1. /\ EnterLock(s)
          /\ waiters' = waiters
          /\ holder[p] = NoSession
      BY <1>5, <2>1, <2>2 DEF CardSent, LockFree
    <3>2. /\ \A u \in Session : u # s => pc'[u] = pc[u]
          /\ pc'[s] # "wait"
      BY <1>1, <3>1 DEF TypeOK, EnterLock, Goto
    <3> QED
      BY <1>1, <2>1, <3>1, <3>2, LockTaken DEF LockConsistent, Critical
  <2>3. CASE ~LockFree(p)
    <3>1. /\ waiters' = [waiters EXCEPT ![p] = Append(waiters[p], s)]
          /\ pc' = [pc EXCEPT ![s] = "wait"]
          /\ holder' = holder
      BY <1>5, <2>3 DEF CardSent, Goto
    <3>2. s \notin Range(waiters[p]) /\ IsInjective(waiters[p])
      BY <1>1, <2>1 DEF LockConsistent
    <3>3. /\ Range(Append(waiters[p], s)) = Range(waiters[p]) \cup {s}
          /\ IsInjective(Append(waiters[p], s))
      BY <2>1, <3>2, AppendFacts
    <3>4. /\ \A u \in Session : u # s => pc'[u] = pc[u]
          /\ pc'[s] = "wait"
      BY <1>1, <3>1 DEF TypeOK
    <3>5. ASSUME NEW q \in Path
          PROVE  /\ Range(waiters'[q]) =
                      {u \in Session : PathOf[u] = q /\ pc'[u] = "wait"}
                 /\ IsInjective(waiters'[q])
      <4>1. CASE q = p
        <5>1. waiters'[q] = Append(waiters[p], s)
          BY <1>1, <2>1, <3>1, <4>1 DEF TypeOK
        <5> QED
          BY <1>1, <2>1, <3>3, <3>4, <4>1, <5>1 DEF LockConsistent
      <4>2. CASE q # p
        <5>1. waiters'[q] = waiters[q]
          BY <1>1, <2>1, <3>1, <4>2 DEF TypeOK
        <5> QED
          BY <1>1, <2>1, <3>4, <4>2, <5>1 DEF LockConsistent
      <4> QED BY <4>1, <4>2
    <3>6. \A q \in Path, u \in Session :
            holder'[q] = u <=> (pc'[u] \in Critical /\ PathOf[u] = q)
      BY <1>1, <2>1, <3>1, <3>4 DEF LockConsistent, Critical
    <3> QED BY <3>5, <3>6 DEF LockConsistent
  <2> QED BY <2>2, <2>3
<1>6. ASSUME NEW s \in Session, LockWake(s) PROVE LockConsistent'
  <2> DEFINE p == PathOf[s]
  <2>1. /\ p \in Path /\ waiters[p] \in Seq(Session) /\ pc[s] = "wait"
        /\ holder[p] = NoSession
        /\ s = Head(waiters[p])
        /\ waiters' = [waiters EXCEPT ![p] = Tail(waiters[p])]
        /\ EnterLock(s)
    BY <1>1, <1>6 DEF TypeOK, LockWake
  <2>2. waiters[p] # <<>> /\ IsInjective(waiters[p])
    BY <1>1, <2>1, EmptyFacts DEF LockConsistent
  <2>3. /\ Range(waiters[p]) = {s} \cup Range(Tail(waiters[p]))
        /\ IsInjective(Tail(waiters[p]))
        /\ s \notin Range(Tail(waiters[p]))
    BY <2>1, <2>2, TailFacts
  <2>4. /\ \A u \in Session : u # s => pc'[u] = pc[u]
        /\ pc'[s] # "wait"
    BY <1>1, <2>1 DEF TypeOK, EnterLock, Goto
  <2>5. ASSUME NEW q \in Path
        PROVE  /\ Range(waiters'[q]) =
                    {u \in Session : PathOf[u] = q /\ pc'[u] = "wait"}
               /\ IsInjective(waiters'[q])
    <3>1. CASE q = p
      <4>1. waiters'[q] = Tail(waiters[p])
        BY <1>1, <2>1, <3>1 DEF TypeOK
      <4>2. Range(waiters[p]) = {u \in Session : PathOf[u] = p /\ pc[u] = "wait"}
        BY <1>1, <2>1 DEF LockConsistent
      <4> QED
        BY <2>3, <2>4, <3>1, <4>1, <4>2
    <3>2. CASE q # p
      <4>1. waiters'[q] = waiters[q]
        BY <1>1, <2>1, <3>2 DEF TypeOK
      <4> QED
        BY <1>1, <2>1, <2>4, <3>2, <4>1 DEF LockConsistent
    <3> QED BY <3>1, <3>2
  <2>6. \A q \in Path, u \in Session :
          holder'[q] = u <=> (pc'[u] \in Critical /\ PathOf[u] = q)
    BY <1>1, <2>1, LockTaken DEF Critical
  <2> QED BY <2>5, <2>6 DEF LockConsistent
<1>7. ASSUME NEW s \in Session, UpdateSent(s) PROVE LockConsistent'
  BY <1>1, <1>7, LockKept DEF UpdateSent, Goto, PC, Busy, Critical
<1>8. ASSUME NEW s \in Session, StartExecute(s) PROVE LockConsistent'
  BY <1>1, <1>8, LockKept DEF StartExecute, Goto, PC, Busy, Critical
<1>9. ASSUME NEW s \in Session, ReadyFailed(s) PROVE LockConsistent'
  BY <1>1, <1>9, LockKept DEF ReadyFailed, Goto, PC, Busy, Critical
<1>10. ASSUME NEW s \in Session, Evicted(s) PROVE LockConsistent'
  BY <1>1, <1>10, LockKept DEF Evicted, Goto, PC, Busy, Critical
<1>11. ASSUME NEW s \in Session, Reported(s) PROVE LockConsistent'
  BY <1>1, <1>11, LockLeft DEF Reported, EndTask, Goto, PC, Busy, Critical
<1>12. ASSUME NEW s \in Session, FinalSent(s) PROVE LockConsistent'
  BY <1>1, <1>12, LockKept DEF FinalSent, EndTask, Goto, PC, Busy, Critical
<1>13. ASSUME NEW s \in Session, AskSent(s) PROVE LockConsistent'
  BY <1>1, <1>13, LockKept DEF AskSent, Goto, PC, Busy, Critical
<1>14. ASSUME NEW s \in Session, PermissionAnswered(s) PROVE LockConsistent'
  BY <1>1, <1>14, LockKept
     DEF PermissionAnswered, Goto, PC, Busy, Critical
<1>15. ASSUME NEW s \in Session, PermissionCancelled(s) PROVE LockConsistent'
  BY <1>1, <1>15, LockKept DEF PermissionCancelled, Goto, PC, Busy, Critical
<1>16. ASSUME NEW s \in Session, Aborted(s) PROVE LockConsistent'
  BY <1>1, <1>16, LockLeft DEF Aborted, EndTask, Goto, PC, Busy, Critical
<1>17. ASSUME NEW s \in Session, Finish(s) PROVE LockConsistent'
  BY <1>1, <1>17, LockLeft DEF Finish, Goto, PC, Busy, Critical
<1>18. ASSUME NEW s \in Session, Fail(s) PROVE LockConsistent'
  BY <1>1, <1>18, LockKept DEF Fail, Goto, PC, Busy, Critical
<1>19. ASSUME NEW s \in Session, Timeout(s) PROVE LockConsistent'
  BY <1>1, <1>19, LockKept DEF Timeout, Goto, PC, Busy, Critical
<1>20. ASSUME NEW s \in Session, Ask(s) PROVE LockConsistent'
  BY <1>1, <1>20, LockKept DEF Ask, Goto, PC, Busy, Critical
<1>21. ASSUME NEW s \in Session, Stop(s) PROVE LockConsistent'
  BY <1>1, <1>21 DEF Stop, LockConsistent
<1>22. ASSUME NEW s \in Session, DoneBegin(s) PROVE LockConsistent'
  BY <1>1, <1>22 DEF DoneBegin, LockConsistent
<1>23. ASSUME NEW s \in Session, DoneDrain(s) PROVE LockConsistent'
  BY <1>1, <1>23 DEF DoneDrain, LockConsistent
<1>24. ASSUME NEW s \in Session, DoneEnd(s) PROVE LockConsistent'
  BY <1>1, <1>24 DEF DoneEnd, LockConsistent
<1>25. ASSUME NEW s \in Session, Reap(s) PROVE LockConsistent'
  BY <1>1, <1>25 DEF Reap, LockConsistent
<1>26. ASSUME NEW s \in Session, UserReply(s) PROVE LockConsistent'
  BY <1>1, <1>26 DEF UserReply, Click, TextReply, LockConsistent
<1>28. ASSUME NEW s \in Session, Unhandled(s) PROVE LockConsistent'
  BY <1>1, <1>28, LockLeft DEF Unhandled, EndTask, Goto, PC, Busy, Critical
<1>27. CASE UNCHANGED vars
  BY <1>1, <1>27 DEF vars, LockConsistent
<1> QED
  BY <1>2, <1>3, <1>4, <1>5, <1>6, <1>7, <1>8, <1>9, <1>10, <1>11, <1>12, <1>13, <1>14, <1>15, <1>16, <1>17, <1>18, <1>19, <1>20, <1>21, <1>22, <1>23, <1>24, <1>25, <1>26, <1>27, <1>28
     DEF Next, WorkerStep, ExecuteEnds, Done

-----------------------------------------------------------------------------
(* Where the tasks are *)

\* A step that moves no task may only flag one that is active.
LEMMA TaskKept ==
  ASSUME TypeOK, TaskDiscipline, UNCHANGED <<arrived, queue, active>>,
         \A u \in Session : pc'[u] \in Busy <=> pc[u] \in Busy,
         NEW s \in Session,
         \/ canceled' = canceled
         \/ active[s] # NoTask /\ canceled' = canceled \cup {active[s]}
  PROVE  TaskDiscipline'
<1>1. ASSUME NEW u \in Session, NEW t \in Range(queue[u])
      PROVE  OwnerOf[t] = u /\ t \in arrived /\ t \notin canceled'
  BY DEF TaskDiscipline
<1> QED
  BY <1>1 DEF TaskDiscipline

\* run() clears active_task and leaves the busy labels in one step.
LEMMA TaskEnded ==
  ASSUME TypeOK, TaskDiscipline, UNCHANGED <<arrived, queue>>,
         NEW s \in Session, NEW next \in {"get", "none"}, EndTask(s, next),
         \/ canceled' = canceled
         \/ active[s] # NoTask /\ canceled' = canceled \cup {active[s]}
  PROVE  TaskDiscipline'
<1>1. /\ active' = [active EXCEPT ![s] = NoTask]
      /\ pc' = [pc EXCEPT ![s] = next]
      /\ next \notin Busy
  BY DEF EndTask, Goto, Busy, Critical
<1>2. ASSUME NEW u \in Session, NEW t \in Range(queue[u])
      PROVE  OwnerOf[t] = u /\ t \in arrived /\ t \notin canceled'
  BY DEF TaskDiscipline
<1>3. ASSUME NEW u \in Session
      PROVE  /\ active'[u] # NoTask <=> pc'[u] \in Busy
             /\ active'[u] # NoTask => /\ OwnerOf[active'[u]] = u
                                       /\ active'[u] \in arrived
                                       /\ active'[u] \notin Range(queue[u])
  BY <1>1 DEF TypeOK, TaskDiscipline
<1>4. canceled' \subseteq arrived
  BY DEF TaskDiscipline
<1> QED
  BY <1>2, <1>3, <1>4 DEF TaskDiscipline

LEMMA TaskStep ==
  ASSUME IInv, [Next]_vars PROVE TaskDiscipline'
<1> USE ConstantsAssumption DEF lockVars, askVars, dispatchVars, queueVars
<1>1. TypeOK /\ LockConsistent /\ TaskDiscipline /\ NoticeDiscipline /\ AbortDiscipline
  BY DEF IInv
<1>2. ASSUME NEW t \in Task, Dispatch(t) PROVE TaskDiscipline'
  <2> DEFINE s == OwnerOf[t]
  <2>1. /\ s \in Session
        /\ queue[s] \in Seq(Task)
        /\ t \notin arrived
        /\ arrived' = arrived \cup {t}
        /\ UNCHANGED <<active, canceled, pc>>
    BY <1>1, <1>2 DEF TypeOK, Dispatch
  <2>2. CASE queue' = queue
    BY <1>1, <2>1, <2>2 DEF TaskDiscipline
  <2>3. CASE queue' = [queue EXCEPT ![s] = Append(queue[s], t)]
    <3>1. /\ t \notin Range(queue[s])
          /\ t \notin canceled
          /\ active[s] # t
      BY <1>1, <2>1 DEF TaskDiscipline
    <3>2. /\ Range(Append(queue[s], t)) = Range(queue[s]) \cup {t}
          /\ IsInjective(Append(queue[s], t))
      BY <1>1, <2>1, <3>1, AppendFacts DEF TaskDiscipline
    <3>3. ASSUME NEW u \in Session
          PROVE  /\ \A x \in Range(queue'[u]) :
                      OwnerOf[x] = u /\ x \in arrived' \ canceled
                 /\ IsInjective(queue'[u])
                 /\ active[u] # NoTask => active[u] \notin Range(queue'[u])
      <4>1. CASE u = s
        <5>1. queue'[u] = Append(queue[s], t)
          BY <1>1, <2>1, <2>3, <4>1 DEF TypeOK
        <5> QED
          BY <1>1, <2>1, <3>1, <3>2, <4>1, <5>1 DEF TaskDiscipline
      <4>2. CASE u # s
        <5>1. queue'[u] = queue[u]
          BY <1>1, <2>1, <2>3, <4>2 DEF TypeOK
        <5> QED
          BY <1>1, <2>1, <5>1 DEF TaskDiscipline
      <4> QED BY <4>1, <4>2
    <3> QED
      BY <1>1, <2>1, <3>3 DEF TaskDiscipline
  <2> QED
    BY <1>2, <2>2, <2>3 DEF Dispatch
<1>3. ASSUME NEW t \in Task, EnsureWorker(t) PROVE TaskDiscipline'
  <2>1. \A u \in Session : pc'[u] \in Busy <=> pc[u] \in Busy
    BY <1>1, <1>3 DEF TypeOK, EnsureWorker, Busy, Critical
  <2> QED
    BY <1>1, <1>3, <2>1 DEF EnsureWorker, TaskDiscipline
<1>4. ASSUME NEW s \in Session, Take(s) PROVE TaskDiscipline'
  <2> DEFINE t == Head(queue[s])
  <2>1. /\ queue[s] \in Seq(Task) /\ queue[s] # <<>>
        /\ pc[s] = "get"
        /\ queue' = [queue EXCEPT ![s] = Tail(queue[s])]
        /\ UNCHANGED <<arrived, canceled>>
    BY <1>1, <1>4 DEF TypeOK, Take
  <2>2. /\ t \in Task
        /\ Range(queue[s]) = {t} \cup Range(Tail(queue[s]))
        /\ IsInjective(Tail(queue[s]))
        /\ t \notin Range(Tail(queue[s]))
    BY <1>1, <2>1, TailFacts DEF TaskDiscipline
  <2>3. /\ t \notin canceled /\ t \in arrived /\ OwnerOf[t] = s
    BY <1>1, <2>2 DEF TaskDiscipline
  <2>4. /\ active' = [active EXCEPT ![s] = t]
        /\ pc' = [pc EXCEPT ![s] = "card"]
    BY <1>4, <2>3 DEF Take, Goto
  <2>5. ASSUME NEW u \in Session
        PROVE  /\ active'[u] # NoTask <=> pc'[u] \in Busy
               /\ active'[u] # NoTask => /\ OwnerOf[active'[u]] = u
                                         /\ active'[u] \in arrived
                                         /\ active'[u] \notin Range(queue'[u])
               /\ \A x \in Range(queue'[u]) :
                    OwnerOf[x] = u /\ x \in arrived \ canceled
               /\ IsInjective(queue'[u])
    <3>1. CASE u = s
      <4>1. /\ queue'[u] = Tail(queue[s]) /\ active'[u] = t
            /\ pc'[u] = "card"
        BY <1>1, <2>1, <2>4, <3>1 DEF TypeOK
      <4> QED
        BY <1>1, <2>2, <2>3, <3>1, <4>1 DEF TaskDiscipline, Busy
    <3>2. CASE u # s
      <4>1. queue'[u] = queue[u] /\ active'[u] = active[u] /\ pc'[u] = pc[u]
        BY <1>1, <2>1, <2>4, <3>2 DEF TypeOK
      <4> QED
        BY <1>1, <4>1 DEF TaskDiscipline
    <3> QED BY <3>1, <3>2
  <2> QED
    BY <1>1, <2>1, <2>5 DEF TaskDiscipline
<1>5. ASSUME NEW s \in Session, CardSent(s) PROVE TaskDiscipline'
  <2>1. \A u \in Session : pc'[u] \in Busy <=> pc[u] \in Busy
    BY <1>1, <1>5 DEF CardSent, EnterLock, Goto, TypeOK, Busy, Critical
  <2> QED
    BY <1>1, <1>5, <2>1, TaskKept DEF CardSent, EnterLock
<1>6. ASSUME NEW s \in Session, LockWake(s) PROVE TaskDiscipline'
  <2>1. \A u \in Session : pc'[u] \in Busy <=> pc[u] \in Busy
    BY <1>1, <1>6 DEF LockWake, EnterLock, Goto, TypeOK, Busy, Critical
  <2> QED
    BY <1>1, <1>6, <2>1, TaskKept DEF LockWake, EnterLock
<1>7. ASSUME NEW s \in Session, UpdateSent(s) PROVE TaskDiscipline'
  <2>1. \A u \in Session : pc'[u] \in Busy <=> pc[u] \in Busy
    BY <1>1, <1>7 DEF UpdateSent, Goto, TypeOK, Busy, Critical
  <2> QED
    BY <1>1, <1>7, <2>1, TaskKept DEF UpdateSent
<1>8. ASSUME NEW s \in Session, StartExecute(s) PROVE TaskDiscipline'
  <2>1. \A u \in Session : pc'[u] \in Busy <=> pc[u] \in Busy
    BY <1>1, <1>8 DEF StartExecute, Goto, TypeOK, Busy, Critical
  <2> QED
    BY <1>1, <1>8, <2>1, TaskKept DEF StartExecute
<1>9. ASSUME NEW s \in Session, ReadyFailed(s) PROVE TaskDiscipline'
  <2>1. \A u \in Session : pc'[u] \in Busy <=> pc[u] \in Busy
    BY <1>1, <1>9 DEF ReadyFailed, Goto, TypeOK, Busy, Critical
  <2> QED
    BY <1>1, <1>9, <2>1, TaskKept DEF ReadyFailed
<1>10. ASSUME NEW s \in Session, Evicted(s) PROVE TaskDiscipline'
  <2>1. \A u \in Session : pc'[u] \in Busy <=> pc[u] \in Busy
    BY <1>1, <1>10 DEF Evicted, Goto, TypeOK, Busy, Critical
  <2> QED
    BY <1>1, <1>10, <2>1, TaskKept DEF Evicted
<1>11. ASSUME NEW s \in Session, Reported(s) PROVE TaskDiscipline'
  <2>1. active[s] # NoTask
    BY <1>1, <1>11 DEF Reported, TaskDiscipline, Busy, Critical
  <2> QED
    BY <1>1, <1>11, <2>1, TaskEnded DEF Reported
<1>12. ASSUME NEW s \in Session, FinalSent(s) PROVE TaskDiscipline'
  <2>1. active[s] # NoTask
    BY <1>1, <1>12 DEF FinalSent, TaskDiscipline, Busy, Critical
  <2> QED
    BY <1>1, <1>12, <2>1, TaskEnded DEF FinalSent
<1>13. ASSUME NEW s \in Session, AskSent(s) PROVE TaskDiscipline'
  <2>1. \A u \in Session : pc'[u] \in Busy <=> pc[u] \in Busy
    BY <1>1, <1>13 DEF AskSent, Goto, TypeOK, Busy, Critical
  <2> QED
    BY <1>1, <1>13, <2>1, TaskKept DEF AskSent
<1>14. ASSUME NEW s \in Session, PermissionAnswered(s) PROVE TaskDiscipline'
  <2>1. \A u \in Session : pc'[u] \in Busy <=> pc[u] \in Busy
    BY <1>1, <1>14 DEF PermissionAnswered, Goto, TypeOK, Busy, Critical
  <2>2. active[s] # NoTask
    BY <1>1, <1>14 DEF PermissionAnswered, TaskDiscipline, Busy, Critical
  <2>3. \/ canceled' = canceled
        \/ active[s] # NoTask /\ canceled' = canceled \cup {active[s]}
    BY <1>14, <2>2 DEF PermissionAnswered
  <2> QED
    BY <1>1, <1>14, <2>1, <2>3, TaskKept DEF PermissionAnswered
<1>15. ASSUME NEW s \in Session, PermissionCancelled(s) PROVE TaskDiscipline'
  <2>1. \A u \in Session : pc'[u] \in Busy <=> pc[u] \in Busy
    BY <1>1, <1>15 DEF PermissionCancelled, Goto, TypeOK, Busy, Critical
  <2>2. active[s] # NoTask
    BY <1>1, <1>15 DEF PermissionCancelled, TaskDiscipline, Busy, Critical
  <2>3. \/ canceled' = canceled
        \/ active[s] # NoTask /\ canceled' = canceled \cup {active[s]}
    BY <1>15, <2>2 DEF PermissionCancelled
  <2> QED
    BY <1>1, <1>15, <2>1, <2>3, TaskKept DEF PermissionCancelled
<1>16. ASSUME NEW s \in Session, Aborted(s) PROVE TaskDiscipline'
  <2>1. active[s] # NoTask
    BY <1>1, <1>16 DEF Aborted, TaskDiscipline, Busy, Critical
  <2> QED
    BY <1>1, <1>16, <2>1, TaskEnded DEF Aborted
<1>17. ASSUME NEW s \in Session, Finish(s) PROVE TaskDiscipline'
  <2>1. \A u \in Session : pc'[u] \in Busy <=> pc[u] \in Busy
    BY <1>1, <1>17 DEF Finish, Goto, TypeOK, Busy, Critical
  <2> QED
    BY <1>1, <1>17, <2>1, TaskKept DEF Finish
<1>18. ASSUME NEW s \in Session, Fail(s) PROVE TaskDiscipline'
  <2>1. \A u \in Session : pc'[u] \in Busy <=> pc[u] \in Busy
    BY <1>1, <1>18 DEF Fail, Goto, TypeOK, Busy, Critical
  <2> QED
    BY <1>1, <1>18, <2>1, TaskKept DEF Fail
<1>19. ASSUME NEW s \in Session, Timeout(s) PROVE TaskDiscipline'
  <2>1. \A u \in Session : pc'[u] \in Busy <=> pc[u] \in Busy
    BY <1>1, <1>19 DEF Timeout, Goto, TypeOK, Busy, Critical
  <2> QED
    BY <1>1, <1>19, <2>1, TaskKept DEF Timeout
<1>20. ASSUME NEW s \in Session, Ask(s) PROVE TaskDiscipline'
  <2>1. \A u \in Session : pc'[u] \in Busy <=> pc[u] \in Busy
    BY <1>1, <1>20 DEF Ask, Goto, TypeOK, Busy, Critical
  <2> QED
    BY <1>1, <1>20, <2>1, TaskKept DEF Ask
<1>21. ASSUME NEW s \in Session, Stop(s) PROVE TaskDiscipline'
  <2>1. \/ canceled' = canceled
        \/ active[s] # NoTask /\ canceled' = canceled \cup {active[s]}
    BY <1>21 DEF Stop, CancelActive
  <2> QED
    BY <1>1, <1>21, <2>1, TaskKept DEF Stop
<1>22. ASSUME NEW s \in Session, DoneBegin(s) PROVE TaskDiscipline'
  <2>1. \/ canceled' = canceled
        \/ active[s] # NoTask /\ canceled' = canceled \cup {active[s]}
    BY <1>22 DEF DoneBegin, CancelActive
  <2> QED
    BY <1>1, <1>22, <2>1, TaskKept DEF DoneBegin
<1>23. ASSUME NEW s \in Session, DoneDrain(s) PROVE TaskDiscipline'
  <2>1. ASSUME NEW u \in Session
        PROVE  queue'[u] = queue[u] \/ queue'[u] = <<>>
    BY <1>1, <1>23 DEF TypeOK, DoneDrain
  <2> QED
    BY <1>1, <1>23, <2>1, EmptyFacts DEF DoneDrain, TaskDiscipline
<1>24. ASSUME NEW s \in Session, DoneEnd(s) PROVE TaskDiscipline'
  BY <1>1, <1>24 DEF DoneEnd, TaskDiscipline
<1>25. ASSUME NEW s \in Session, Reap(s) PROVE TaskDiscipline'
  BY <1>1, <1>25 DEF Reap, TaskDiscipline
<1>26. ASSUME NEW s \in Session, UserReply(s) PROVE TaskDiscipline'
  BY <1>1, <1>26 DEF UserReply, Click, TextReply, TaskDiscipline
<1>28. ASSUME NEW s \in Session, Unhandled(s) PROVE TaskDiscipline'
  <2>1. active[s] # NoTask
    BY <1>1, <1>28 DEF Unhandled, TaskDiscipline, Busy, Critical
  <2> QED
    BY <1>1, <1>28, <2>1, TaskEnded DEF Unhandled
<1>27. CASE UNCHANGED vars
  BY <1>1, <1>27 DEF vars, TaskDiscipline
<1> QED
  BY <1>2, <1>3, <1>4, <1>5, <1>6, <1>7, <1>8, <1>9, <1>10, <1>11, <1>12, <1>13, <1>14, <1>15, <1>16, <1>17, <1>18, <1>19, <1>20, <1>21, <1>22, <1>23, <1>24, <1>25, <1>26, <1>27, <1>28
     DEF Next, WorkerStep, ExecuteEnds, Done

-----------------------------------------------------------------------------
(* Flags and permission futures *)

\* Nothing about them changes when no worker enters or leaves "perm" or
\* "abort" and flags are only added.
LEMMA AbortKept ==
  ASSUME TypeOK, AbortDiscipline, UNCHANGED <<active, future>>,
         canceled \subseteq canceled',
         \A u \in Session : /\ pc[u] = "perm" => pc'[u] = "perm"
                            /\ pc'[u] = "abort" => pc[u] = "abort"
  PROVE  AbortDiscipline'
BY DEF AbortDiscipline

LEMMA AbortStep ==
  ASSUME IInv, [Next]_vars PROVE AbortDiscipline'
<1> USE ConstantsAssumption DEF lockVars, askVars, dispatchVars, queueVars
<1>1. TypeOK /\ LockConsistent /\ TaskDiscipline /\ NoticeDiscipline /\ AbortDiscipline
  BY DEF IInv
<1>2. ASSUME NEW t \in Task, Dispatch(t) PROVE AbortDiscipline'
  BY <1>1, <1>2 DEF Dispatch, AbortDiscipline
<1>3. ASSUME NEW t \in Task, EnsureWorker(t) PROVE AbortDiscipline'
  BY <1>1, <1>3, AbortKept DEF EnsureWorker, TypeOK
<1>4. ASSUME NEW s \in Session, Take(s) PROVE AbortDiscipline'
  <2>1. \A u \in Session : u # s => active'[u] = active[u] /\ pc'[u] = pc[u]
    BY <1>1, <1>4 DEF Take, Goto, TypeOK
  <2>2. pc'[s] \in {"get", "card"} /\ pc[s] = "get"
    BY <1>1, <1>4 DEF Take, Goto, TypeOK
  <2> QED
    BY <1>1, <1>4, <2>1, <2>2 DEF Take, AbortDiscipline
<1>5. ASSUME NEW s \in Session, CardSent(s) PROVE AbortDiscipline'
  BY <1>1, <1>5, AbortKept DEF CardSent, EnterLock, Goto, TypeOK
<1>6. ASSUME NEW s \in Session, LockWake(s) PROVE AbortDiscipline'
  BY <1>1, <1>6, AbortKept DEF LockWake, EnterLock, Goto, TypeOK
<1>7. ASSUME NEW s \in Session, UpdateSent(s) PROVE AbortDiscipline'
  BY <1>1, <1>7, AbortKept DEF UpdateSent, Goto, TypeOK
<1>8. ASSUME NEW s \in Session, StartExecute(s) PROVE AbortDiscipline'
  BY <1>1, <1>8, AbortKept DEF StartExecute, Goto, TypeOK
<1>9. ASSUME NEW s \in Session, ReadyFailed(s) PROVE AbortDiscipline'
  BY <1>1, <1>9, AbortKept DEF ReadyFailed, Goto, TypeOK
<1>10. ASSUME NEW s \in Session, Evicted(s) PROVE AbortDiscipline'
  BY <1>1, <1>10, AbortKept DEF Evicted, Goto, TypeOK
<1>11. ASSUME NEW s \in Session, Reported(s) PROVE AbortDiscipline'
  <2>1. /\ active' = [active EXCEPT ![s] = NoTask]
        /\ pc' \in {[pc EXCEPT ![s] = "get"], [pc EXCEPT ![s] = "none"]}
        /\ canceled \subseteq canceled'
        /\ future' = future
        /\ pc[s] # "perm"
    BY <1>11 DEF Reported, EndTask, Goto
  <2> QED
    BY <1>1, <2>1 DEF AbortDiscipline, TypeOK
<1>12. ASSUME NEW s \in Session, FinalSent(s) PROVE AbortDiscipline'
  <2>1. /\ active' = [active EXCEPT ![s] = NoTask]
        /\ pc' \in {[pc EXCEPT ![s] = "get"], [pc EXCEPT ![s] = "none"]}
        /\ canceled \subseteq canceled'
        /\ future' = future
        /\ pc[s] # "perm"
    BY <1>12 DEF FinalSent, EndTask, Goto
  <2> QED
    BY <1>1, <2>1 DEF AbortDiscipline, TypeOK
<1>13. ASSUME NEW s \in Session, AskSent(s) PROVE AbortDiscipline'
  BY <1>1, <1>13 DEF AskSent, Goto, AbortDiscipline, TypeOK
<1>14. ASSUME NEW s \in Session, PermissionAnswered(s) PROVE AbortDiscipline'
  <2>1. /\ future' = [future EXCEPT ![s] = "none"]
        /\ active' = active
        /\ canceled \subseteq canceled'
        /\ future[s] = "cancelled" => active[s] \in canceled
        /\ pc' \in {[pc EXCEPT ![s] = "run"], [pc EXCEPT ![s] = "report"]}
    BY <1>1, <1>14 DEF PermissionAnswered, Goto, AbortDiscipline
  <2> QED
    BY <1>1, <2>1 DEF AbortDiscipline, TypeOK
<1>15. ASSUME NEW s \in Session, PermissionCancelled(s) PROVE AbortDiscipline'
  <2>1. /\ future' = [future EXCEPT ![s] = "none"]
        /\ active' = active
        /\ canceled \subseteq canceled'
        /\ future[s] = "cancelled" => active[s] \in canceled
        /\ pc' = [pc EXCEPT ![s] = "abort"] /\ future[s] = "cancelled"
    BY <1>1, <1>15 DEF PermissionCancelled, Goto, AbortDiscipline
  <2> QED
    BY <1>1, <2>1 DEF AbortDiscipline, TypeOK
<1>16. ASSUME NEW s \in Session, Aborted(s) PROVE AbortDiscipline'
  <2>1. /\ active' = [active EXCEPT ![s] = NoTask]
        /\ pc' \in {[pc EXCEPT ![s] = "get"], [pc EXCEPT ![s] = "none"]}
        /\ canceled \subseteq canceled'
        /\ future' = future
        /\ pc[s] # "perm"
    BY <1>16 DEF Aborted, EndTask, Goto
  <2> QED
    BY <1>1, <2>1 DEF AbortDiscipline, TypeOK
<1>17. ASSUME NEW s \in Session, Finish(s) PROVE AbortDiscipline'
  BY <1>1, <1>17, AbortKept DEF Finish, Goto, TypeOK
<1>18. ASSUME NEW s \in Session, Fail(s) PROVE AbortDiscipline'
  BY <1>1, <1>18, AbortKept DEF Fail, Goto, TypeOK
<1>19. ASSUME NEW s \in Session, Timeout(s) PROVE AbortDiscipline'
  BY <1>1, <1>19, AbortKept DEF Timeout, Goto, TypeOK
<1>20. ASSUME NEW s \in Session, Ask(s) PROVE AbortDiscipline'
  BY <1>1, <1>20, AbortKept DEF Ask, Goto, TypeOK
<1>21. ASSUME NEW s \in Session, Stop(s) PROVE AbortDiscipline'
  <2>1. /\ UNCHANGED <<active, pc>>
        /\ canceled \subseteq canceled'
        /\ active[s] # NoTask => active[s] \in canceled'
        /\ future' = [future EXCEPT ![s] = IF future[s] = "pending"
                                           THEN "cancelled" ELSE future[s]]
    BY <1>21 DEF Stop, CancelActive, CancelPermission
  <2>2. pc[s] = "perm" => active[s] # NoTask
    BY <1>1 DEF TaskDiscipline, Busy, Critical
  <2> QED
    BY <1>1, <2>1, <2>2 DEF AbortDiscipline, TypeOK
<1>22. ASSUME NEW s \in Session, DoneBegin(s) PROVE AbortDiscipline'
  <2>1. /\ UNCHANGED <<active, pc>>
        /\ canceled \subseteq canceled'
        /\ active[s] # NoTask => active[s] \in canceled'
        /\ future' = [future EXCEPT ![s] = IF future[s] = "pending"
                                           THEN "cancelled" ELSE future[s]]
    BY <1>22 DEF DoneBegin, CancelActive, CancelPermission
  <2>2. pc[s] = "perm" => active[s] # NoTask
    BY <1>1 DEF TaskDiscipline, Busy, Critical
  <2> QED
    BY <1>1, <2>1, <2>2 DEF AbortDiscipline, TypeOK
<1>23. ASSUME NEW s \in Session, DoneDrain(s) PROVE AbortDiscipline'
  BY <1>1, <1>23 DEF DoneDrain, AbortDiscipline
<1>24. ASSUME NEW s \in Session, DoneEnd(s) PROVE AbortDiscipline'
  BY <1>1, <1>24 DEF DoneEnd, AbortDiscipline
<1>25. ASSUME NEW s \in Session, Reap(s) PROVE AbortDiscipline'
  BY <1>1, <1>25 DEF Reap, AbortDiscipline
<1>26. ASSUME NEW s \in Session, UserReply(s) PROVE AbortDiscipline'
  <2>1. PICK choice \in Choice : Resolve(s, choice)
    BY <1>26 DEF UserReply, Click, TextReply
  <2>2. UNCHANGED <<active, pc, canceled>>
    BY <1>26 DEF UserReply, Click, TextReply
  <2> QED
    BY <1>1, <2>1, <2>2 DEF AbortDiscipline, Resolve, Choice, TypeOK
<1>28. ASSUME NEW s \in Session, Unhandled(s) PROVE AbortDiscipline'
  <2>1. /\ active' = [active EXCEPT ![s] = NoTask]
        /\ pc' = [pc EXCEPT ![s] = "none"]
        /\ UNCHANGED <<canceled, future>>
        /\ pc[s] # "perm"
    BY <1>28 DEF Unhandled, EndTask, Goto
  <2> QED
    BY <1>1, <2>1 DEF AbortDiscipline, TypeOK
<1>27. CASE UNCHANGED vars
  BY <1>1, <1>27 DEF vars, AbortDiscipline
<1> QED
  BY <1>2, <1>3, <1>4, <1>5, <1>6, <1>7, <1>8, <1>9, <1>10, <1>11, <1>12, <1>13, <1>14, <1>15, <1>16, <1>17, <1>18, <1>19, <1>20, <1>21, <1>22, <1>23, <1>24, <1>25, <1>26, <1>27, <1>28
     DEF Next, WorkerStep, ExecuteEnds, Done

-----------------------------------------------------------------------------
(* Terminal notices *)

\* The worker of u is on the same side of its task's notice, or free.
SameStage(u) ==
  pc'[u] \in Busy => /\ pc[u] \in Busy
                     /\ active'[u] = active[u]
                     /\ pc'[u] \in Unreported <=> pc[u] \in Unreported

\* A step that notifies nobody keeps them, unless it makes a task due.
LEMMA ShownKept ==
  ASSUME NoticeDiscipline, UNCHANGED shown, arrived \subseteq arrived',
         \A u \in Session : /\ Range(queue'[u]) \subseteq Range(queue[u])
                            /\ SameStage(u)
  PROVE  NoticeDiscipline'
BY DEF NoticeDiscipline, NoticeOnce, SameStage

\* A notice that has no predecessor for task t concerns no other task.
LEMMA FirstNotice ==
  ASSUME TypeOK, NoticeOnce, NEW t \in Task, shown[t] = <<>>,
         NEW outcome \in Outcome,
         shown' = [shown EXCEPT ![t] = Append(shown[t], outcome)]
  PROVE  /\ NoticeOnce'
         /\ shown'[t] # <<>>
         /\ \A x \in Task : x # t => shown'[x] = shown[x]
<1>1. shown'[t] = <<outcome>>
  BY DEF TypeOK
<1>2. \A x \in Task : x # t => shown'[x] = shown[x]
  BY DEF TypeOK
<1>3. Len(<<outcome>>) = 1
  OBVIOUS
<1> QED
  BY <1>1, <1>2, <1>3 DEF NoticeOnce

\* The worker of s reports the end of its task.
LEMMA Notified ==
  ASSUME TypeOK, TaskDiscipline, NoticeDiscipline,
         UNCHANGED <<arrived, queue, active>>,
         NEW s \in Session, pc[s] \in Unreported,
         NEW outcome \in Outcome, Notify(s, outcome),
         NEW label \in PC \ Unreported, pc' = [pc EXCEPT ![s] = label]
  PROVE  NoticeDiscipline'
<1> DEFINE t == active[s]
<1>1. /\ t \in Task /\ t \in arrived /\ OwnerOf[t] = s
      /\ t \notin Range(queue[s])
      /\ shown[t] = <<>>
  BY DEF TypeOK, TaskDiscipline, NoticeDiscipline, Unreported, Busy, Critical
<1>2. /\ NoticeOnce'
      /\ shown'[t] # <<>>
      /\ \A x \in Task : x # t => shown'[x] = shown[x]
  BY <1>1, FirstNotice DEF NoticeDiscipline, Notify
<1>3. ASSUME NEW u \in Session
      PROVE  /\ \A x \in Range(queue[u]) : x # t /\ x \in Task
             /\ u # s /\ pc[u] \in Busy => /\ active[u] # t
                                           /\ active[u] \in Task
  BY <1>1 DEF TypeOK, TaskDiscipline
<1>4. /\ pc'[s] \notin Unreported
      /\ \A u \in Session : u # s => pc'[u] = pc[u]
  BY DEF TypeOK
<1> QED
  BY <1>1, <1>2, <1>3, <1>4 DEF NoticeDiscipline

LEMMA NoticeStep ==
  ASSUME IInv, [Next]_vars PROVE NoticeDiscipline'
<1> USE ConstantsAssumption DEF lockVars, askVars, dispatchVars, queueVars
<1>1. TypeOK /\ LockConsistent /\ TaskDiscipline /\ NoticeDiscipline /\ AbortDiscipline
  BY DEF IInv
<1>2. ASSUME NEW t \in Task, Dispatch(t) PROVE NoticeDiscipline'
  <2> DEFINE s == OwnerOf[t]
  <2>1. /\ s \in Session
        /\ queue[s] \in Seq(Task)
        /\ t \notin arrived
        /\ shown[t] = <<>>
        /\ arrived' = arrived \cup {t}
        /\ UNCHANGED <<active, pc>>
    BY <1>1, <1>2 DEF TypeOK, Dispatch, NoticeDiscipline
  <2>2. ASSUME NEW u \in Session
        PROVE  /\ \A x \in Range(queue[u]) : x # t /\ x \in Task
               /\ pc[u] \in Busy => active[u] # t /\ active[u] \in Task
    BY <1>1, <2>1 DEF TypeOK, TaskDiscipline
  <2>3. CASE HasRoom(s)
    <3>1. /\ queue' = [queue EXCEPT ![s] = Append(queue[s], t)]
          /\ shown' = shown
      BY <1>2, <2>3 DEF Dispatch
    <3>2. Range(Append(queue[s], t)) = Range(queue[s]) \cup {t}
      BY <2>1, AppendFacts
    <3>3. ASSUME NEW u \in Session
          PROVE  \A x \in Range(queue'[u]) : shown'[x] = <<>>
      <4>1. CASE u = s
        <5>1. queue'[u] = Append(queue[s], t)
          BY <1>1, <2>1, <3>1, <4>1 DEF TypeOK
        <5> QED
          BY <1>1, <2>1, <3>1, <3>2, <4>1, <5>1 DEF NoticeDiscipline
      <4>2. CASE u # s
        <5>1. queue'[u] = queue[u]
          BY <1>1, <2>1, <3>1, <4>2 DEF TypeOK
        <5> QED
          BY <1>1, <3>1, <5>1 DEF NoticeDiscipline
      <4> QED BY <4>1, <4>2
    <3> QED
      BY <1>1, <2>1, <3>1, <3>3 DEF NoticeDiscipline, NoticeOnce
  <2>4. CASE ~HasRoom(s)
    <3>1. /\ queue' = queue
          /\ shown' = [shown EXCEPT ![t] = Append(shown[t], "full")]
      BY <1>2, <2>4 DEF Dispatch
    <3>2. "full" \in Outcome
      BY DEF Outcome
    <3>3. /\ NoticeOnce'
          /\ \A x \in Task : x # t => shown'[x] = shown[x]
      BY <1>1, <2>1, <3>1, <3>2, FirstNotice DEF NoticeDiscipline
    <3> QED
      BY <1>1, <2>1, <2>2, <3>1, <3>3 DEF NoticeDiscipline
  <2> QED BY <2>3, <2>4
<1>3. ASSUME NEW t \in Task, EnsureWorker(t) PROVE NoticeDiscipline'
  <2>1. \A u \in Session : SameStage(u)
    BY <1>1, <1>3 DEF EnsureWorker, TypeOK, SameStage, Busy, Critical, Unreported
  <2> QED
    BY <1>1, <1>3, <2>1, ShownKept DEF EnsureWorker
<1>4. ASSUME NEW s \in Session, Take(s) PROVE NoticeDiscipline'
  <2> DEFINE t == Head(queue[s])
  <2>1. /\ queue[s] \in Seq(Task) /\ queue[s] # <<>>
        /\ queue' = [queue EXCEPT ![s] = Tail(queue[s])]
        /\ UNCHANGED <<arrived, shown>>
    BY <1>1, <1>4 DEF TypeOK, Take
  <2>2. Range(queue[s]) = {t} \cup Range(Tail(queue[s]))
    BY <2>1, TailFacts
  <2>3. /\ shown[t] = <<>>
        /\ t \notin canceled
    BY <1>1, <2>2 DEF NoticeDiscipline, TaskDiscipline
  <2>4. /\ active' = [active EXCEPT ![s] = t]
        /\ pc' = [pc EXCEPT ![s] = "card"]
    BY <1>4, <2>3 DEF Take, Goto
  <2>5. ASSUME NEW u \in Session
        PROVE  /\ \A x \in Range(queue'[u]) : shown'[x] = <<>>
               /\ pc'[u] \in Busy =>
                    (pc'[u] \in Unreported <=> shown'[active'[u]] = <<>>)
    <3>1. CASE u = s
      <4>1. queue'[u] = Tail(queue[s]) /\ active'[u] = t /\ pc'[u] = "card"
        BY <1>1, <2>1, <2>4, <3>1 DEF TypeOK
      <4> QED
        BY <1>1, <2>1, <2>2, <2>3, <3>1, <4>1 DEF NoticeDiscipline, Unreported
    <3>2. CASE u # s
      <4>1. queue'[u] = queue[u] /\ active'[u] = active[u] /\ pc'[u] = pc[u]
        BY <1>1, <2>1, <2>4, <3>2 DEF TypeOK
      <4> QED
        BY <1>1, <2>1, <4>1 DEF NoticeDiscipline
    <3> QED BY <3>1, <3>2
  <2> QED
    BY <1>1, <2>1, <2>5 DEF NoticeDiscipline, NoticeOnce
<1>5. ASSUME NEW s \in Session, CardSent(s) PROVE NoticeDiscipline'
  <2>1. \A u \in Session : SameStage(u)
    BY <1>1, <1>5 DEF CardSent, EnterLock, Goto, TypeOK, SameStage, Busy, Critical, Unreported
  <2> QED
    BY <1>1, <1>5, <2>1, ShownKept DEF CardSent
<1>6. ASSUME NEW s \in Session, LockWake(s) PROVE NoticeDiscipline'
  <2>1. \A u \in Session : SameStage(u)
    BY <1>1, <1>6 DEF LockWake, EnterLock, Goto, TypeOK, SameStage, Busy, Critical, Unreported
  <2> QED
    BY <1>1, <1>6, <2>1, ShownKept DEF LockWake
<1>7. ASSUME NEW s \in Session, UpdateSent(s) PROVE NoticeDiscipline'
  <2>1. \A u \in Session : SameStage(u)
    BY <1>1, <1>7 DEF UpdateSent, Goto, TypeOK, SameStage, Busy, Critical, Unreported
  <2> QED
    BY <1>1, <1>7, <2>1, ShownKept DEF UpdateSent
<1>8. ASSUME NEW s \in Session, StartExecute(s) PROVE NoticeDiscipline'
  <2>1. \A u \in Session : SameStage(u)
    BY <1>1, <1>8 DEF StartExecute, Goto, TypeOK, SameStage, Busy, Critical, Unreported
  <2> QED
    BY <1>1, <1>8, <2>1, ShownKept DEF StartExecute
<1>9. ASSUME NEW s \in Session, ReadyFailed(s) PROVE NoticeDiscipline'
  <2>1. /\ pc[s] \in Unreported
        /\ "failed" \in Outcome
        /\ "report" \in PC \ Unreported
        /\ pc' = [pc EXCEPT ![s] = "report"]
    BY <1>9 DEF ReadyFailed, Goto, Unreported, Outcome, PC, Busy, Critical
  <2> QED
    BY <1>1, <1>9, <2>1, Notified DEF ReadyFailed
<1>10. ASSUME NEW s \in Session, Evicted(s) PROVE NoticeDiscipline'
  <2>1. /\ pc[s] \in Unreported
        /\ "failed" \in Outcome
        /\ "report" \in PC \ Unreported
        /\ pc' = [pc EXCEPT ![s] = "report"]
    BY <1>10 DEF Evicted, Goto, Unreported, Outcome, PC, Busy, Critical
  <2> QED
    BY <1>1, <1>10, <2>1, Notified DEF Evicted
<1>11. ASSUME NEW s \in Session, Reported(s) PROVE NoticeDiscipline'
  <2>1. \A u \in Session : SameStage(u)
    BY <1>1, <1>11 DEF Reported, EndTask, Goto, TypeOK, SameStage, Busy, Critical, Unreported
  <2> QED
    BY <1>1, <1>11, <2>1, ShownKept DEF Reported
<1>12. ASSUME NEW s \in Session, FinalSent(s) PROVE NoticeDiscipline'
  <2>1. \A u \in Session : SameStage(u)
    BY <1>1, <1>12 DEF FinalSent, EndTask, Goto, TypeOK, SameStage, Busy, Critical, Unreported
  <2> QED
    BY <1>1, <1>12, <2>1, ShownKept DEF FinalSent
<1>13. ASSUME NEW s \in Session, AskSent(s) PROVE NoticeDiscipline'
  <2>1. \A u \in Session : SameStage(u)
    BY <1>1, <1>13 DEF AskSent, Goto, TypeOK, SameStage, Busy, Critical, Unreported
  <2> QED
    BY <1>1, <1>13, <2>1, ShownKept DEF AskSent
<1>14. ASSUME NEW s \in Session, PermissionAnswered(s) PROVE NoticeDiscipline'
  <2>1. pc[s] \in Unreported /\ pc[s] = "perm" /\ UNCHANGED <<arrived, queue, active>>
    BY <1>14 DEF PermissionAnswered, Unreported
  <2>2. CASE s \in gone
    <3>1. /\ "failed" \in Outcome
          /\ "report" \in PC \ Unreported
          /\ pc' = [pc EXCEPT ![s] = "report"]
          /\ Notify(s, "failed")
      BY <1>14, <2>2
         DEF PermissionAnswered, Goto, Unreported, Outcome, PC, Busy, Critical
    <3> QED
      BY <1>1, <2>1, <3>1, Notified
  <2>3. CASE s \notin gone
    <3>1. shown' = shown /\ pc' = [pc EXCEPT ![s] = "run"]
      BY <1>14, <2>3 DEF PermissionAnswered, Goto
    <3>2. \A u \in Session : SameStage(u)
      BY <1>1, <2>1, <3>1 DEF TypeOK, SameStage, Busy, Critical, Unreported
    <3> QED
      BY <1>1, <2>1, <3>1, <3>2, ShownKept
  <2> QED BY <2>2, <2>3
<1>15. ASSUME NEW s \in Session, PermissionCancelled(s) PROVE NoticeDiscipline'
  <2>1. /\ pc[s] \in Unreported
        /\ "cancelled" \in Outcome
        /\ "abort" \in PC \ Unreported
        /\ pc' = [pc EXCEPT ![s] = "abort"]
    BY <1>15 DEF PermissionCancelled, Goto, Unreported, Outcome, PC, Busy, Critical
  <2> QED
    BY <1>1, <1>15, <2>1, Notified DEF PermissionCancelled
<1>16. ASSUME NEW s \in Session, Aborted(s) PROVE NoticeDiscipline'
  <2>1. shown' = shown /\ arrived' = arrived /\ queue' = queue
    BY <1>1, <1>16 DEF Aborted, AbortDiscipline
  <2>2. \A u \in Session : SameStage(u)
    BY <1>1, <1>16 DEF Aborted, EndTask, Goto, TypeOK, SameStage, Busy, Critical, Unreported
  <2> QED
    BY <1>1, <2>1, <2>2, ShownKept
<1>17. ASSUME NEW s \in Session, Finish(s) PROVE NoticeDiscipline'
  <2>1. /\ pc[s] \in Unreported
        /\ "final" \in PC \ Unreported
        /\ pc' = [pc EXCEPT ![s] = "final"]
    BY <1>17 DEF Finish, Goto, Unreported, PC, Busy, Critical
  <2>2. PICK outcome \in Outcome : Notify(s, outcome)
    BY <1>17 DEF Finish, Outcome
  <2> QED
    BY <1>1, <1>17, <2>1, <2>2, Notified DEF Finish
<1>18. ASSUME NEW s \in Session, Fail(s) PROVE NoticeDiscipline'
  <2>1. /\ pc[s] \in Unreported
        /\ "failed" \in Outcome
        /\ "report" \in PC \ Unreported
        /\ pc' = [pc EXCEPT ![s] = "report"]
    BY <1>18 DEF Fail, Goto, Unreported, Outcome, PC, Busy, Critical
  <2> QED
    BY <1>1, <1>18, <2>1, Notified DEF Fail
<1>19. ASSUME NEW s \in Session, Timeout(s) PROVE NoticeDiscipline'
  <2>1. \A u \in Session : SameStage(u)
    BY <1>1, <1>19 DEF Timeout, Goto, TypeOK, SameStage, Busy, Critical, Unreported
  <2> QED
    BY <1>1, <1>19, <2>1, ShownKept DEF Timeout
<1>20. ASSUME NEW s \in Session, Ask(s) PROVE NoticeDiscipline'
  <2>1. \A u \in Session : SameStage(u)
    BY <1>1, <1>20 DEF Ask, Goto, TypeOK, SameStage, Busy, Critical, Unreported
  <2> QED
    BY <1>1, <1>20, <2>1, ShownKept DEF Ask
<1>21. ASSUME NEW s \in Session, Stop(s) PROVE NoticeDiscipline'
  BY <1>1, <1>21, ShownKept DEF Stop, SameStage
<1>22. ASSUME NEW s \in Session, DoneBegin(s) PROVE NoticeDiscipline'
  BY <1>1, <1>22, ShownKept DEF DoneBegin, SameStage
<1>23. ASSUME NEW s \in Session, DoneDrain(s) PROVE NoticeDiscipline'
  <2>1. \A u \in Session : Range(queue'[u]) \subseteq Range(queue[u])
    BY <1>1, <1>23, EmptyFacts DEF DoneDrain, TypeOK
  <2> QED
    BY <1>1, <1>23, <2>1, ShownKept DEF DoneDrain, SameStage
<1>24. ASSUME NEW s \in Session, DoneEnd(s) PROVE NoticeDiscipline'
  BY <1>1, <1>24, ShownKept DEF DoneEnd, SameStage
<1>25. ASSUME NEW s \in Session, Reap(s) PROVE NoticeDiscipline'
  BY <1>1, <1>25, ShownKept DEF Reap, SameStage
<1>26. ASSUME NEW s \in Session, UserReply(s) PROVE NoticeDiscipline'
  BY <1>1, <1>26, ShownKept DEF UserReply, Click, TextReply, SameStage
<1>28. ASSUME NEW s \in Session, Unhandled(s) PROVE NoticeDiscipline'
  <2>1. \A u \in Session : SameStage(u)
    BY <1>1, <1>28 DEF Unhandled, EndTask, Goto, TypeOK, SameStage, Busy, Critical, Unreported
  <2> QED
    BY <1>1, <1>28, <2>1, ShownKept DEF Unhandled
<1>27. CASE UNCHANGED vars
  BY <1>1, <1>27, ShownKept DEF vars, SameStage
<1> QED
  BY <1>2, <1>3, <1>4, <1>5, <1>6, <1>7, <1>8, <1>9, <1>10, <1>11, <1>12, <1>13, <1>14, <1>15, <1>16, <1>17, <1>18, <1>19, <1>20, <1>21, <1>22, <1>23, <1>24, <1>25, <1>26, <1>27, <1>28
     DEF Next, WorkerStep, ExecuteEnds, Done

-----------------------------------------------------------------------------
(* The invariant and its consequences *)

LEMMA InitIInv == Init => IInv
<1> SUFFICES ASSUME Init PROVE IInv
  OBVIOUS
<1> USE ConstantsAssumption, EmptyFacts DEF Init
<1>1. TypeOK
  BY DEF TypeOK, Status, PC, Outcome
<1>2. LockConsistent
  BY DEF LockConsistent, Critical
<1>3. TaskDiscipline
  BY DEF TaskDiscipline, Busy, Critical
<1>4. NoticeDiscipline
  BY DEF NoticeDiscipline, NoticeOnce, Busy, Critical
<1>5. AbortDiscipline
  BY DEF AbortDiscipline
<1> QED
  BY <1>1, <1>2, <1>3, <1>4, <1>5 DEF IInv

LEMMA NextIInv == IInv /\ [Next]_vars => IInv'
BY TypeStep, LockStep, TaskStep, NoticeStep, AbortStep DEF IInv

\* IInv holds in every reachable state of the task path: types, the lock
\* discipline, the place of every task, its notice and its permission future.
THEOREM Inductive == Spec => []IInv
BY InitIInv, NextIInv, PTL DEF Spec

\* Every variable keeps its type and no queue outgrows its capacity.
THEOREM TypeCorrect == Spec => []TypeOK
<1>1. IInv => TypeOK
  BY DEF IInv
<1> QED
  BY Inductive, <1>1, PTL

\* A path lock is owned exactly by the worker inside its critical section, and
\* the FIFO of the lock holds exactly the workers suspended on it.
THEOREM LockDiscipline == Spec => []LockConsistent
<1>1. IInv => LockConsistent
  BY DEF IInv
<1> QED
  BY Inductive, <1>1, PTL

\* Two sessions never work in the same directory at once, whatever /stop,
\* /done, refusals, timeouts and reaped runtimes do to their workers.
THEOREM Exclusion == Spec => []PathExclusion
<1>1. IInv => PathExclusion
  <2> SUFFICES ASSUME IInv, NEW s \in Session, NEW u \in Session,
                      PathOf[s] = PathOf[u],
                      pc[s] \in Critical, pc[u] \in Critical
               PROVE  s = u
    BY DEF PathExclusion
  <2>1. PathOf[s] \in Path
    BY ConstantsAssumption
  <2> QED
    BY <2>1 DEF IInv, LockConsistent
<1> QED
  BY Inductive, <1>1, PTL

\* No task is answered twice, however its worker ends.
THEOREM AtMostOneNotice == Spec => []NoticeOnce
<1>1. IInv => NoticeOnce
  BY DEF IInv, NoticeDiscipline
<1> QED
  BY Inductive, <1>1, PTL

\* What /task lists is what the worker will dequeue: put_nowait, dequeue and
\* the draining of /done keep the two structures in step.
THEOREM PendingIsQueue == Spec => []PendingMirrorsQueue
<1> USE ConstantsAssumption DEF lockVars, askVars, dispatchVars, queueVars
<1>1. Init => PendingMirrorsQueue
  <2> SUFFICES ASSUME Init, NEW s \in Session PROVE pending[s] = Range(queue[s])
    BY DEF PendingMirrorsQueue
  <2> QED BY EmptyFacts DEF Init
<1>2. ASSUME IInv, PendingMirrorsQueue, [Next]_vars PROVE PendingMirrorsQueue'
  <2>1. TypeOK /\ TaskDiscipline
    BY <1>2 DEF IInv
  <2>2. ASSUME NEW t \in Task, Dispatch(t) PROVE PendingMirrorsQueue'
    <3> DEFINE s == OwnerOf[t]
    <3>1. s \in Session /\ queue[s] \in Seq(Task)
      BY <2>1 DEF TypeOK
    <3>2. CASE HasRoom(s)
      <4>1. /\ queue' = [queue EXCEPT ![s] = Append(queue[s], t)]
            /\ pending' = [pending EXCEPT ![s] = pending[s] \cup {t}]
        BY <2>2, <3>2 DEF Dispatch
      <4>2. Range(Append(queue[s], t)) = Range(queue[s]) \cup {t}
        BY <3>1, AppendFacts
      <4> QED
        BY <1>2, <2>1, <3>1, <4>1, <4>2 DEF PendingMirrorsQueue, TypeOK
    <3>3. CASE ~HasRoom(s)
      BY <1>2, <2>2, <3>3 DEF Dispatch, PendingMirrorsQueue
    <3> QED BY <3>2, <3>3
  <2>3. ASSUME NEW s \in Session, Take(s) PROVE PendingMirrorsQueue'
    <3>1. /\ queue[s] \in Seq(Task) /\ queue[s] # <<>>
          /\ queue' = [queue EXCEPT ![s] = Tail(queue[s])]
          /\ pending' = [pending EXCEPT ![s] = pending[s] \ {Head(queue[s])}]
      BY <2>1, <2>3 DEF TypeOK, Take
    <3>2. Range(Tail(queue[s])) = Range(queue[s]) \ {Head(queue[s])}
      BY <2>1, <3>1, TailFacts DEF TaskDiscipline
    <3> QED
      BY <1>2, <2>1, <3>1, <3>2 DEF PendingMirrorsQueue, TypeOK
  <2>4. ASSUME NEW s \in Session, DoneDrain(s) PROVE PendingMirrorsQueue'
    BY <1>2, <2>1, <2>4, EmptyFacts DEF DoneDrain, PendingMirrorsQueue, TypeOK
  <2>5. CASE UNCHANGED <<queue, pending>>
    BY <1>2, <2>5 DEF PendingMirrorsQueue
  <2>6. \/ UNCHANGED <<queue, pending>>
        \/ \E t \in Task : Dispatch(t)
        \/ \E s \in Session : Take(s) \/ DoneDrain(s)
    <3>1. ASSUME NEW t \in Task, EnsureWorker(t)
          PROVE  UNCHANGED <<queue, pending>>
      BY <3>1 DEF EnsureWorker
    <3>2. ASSUME NEW s \in Session, WorkerStep(s), ~Take(s)
          PROVE  UNCHANGED <<queue, pending>>
      BY <3>2 DEF WorkerStep, CardSent, LockWake, UpdateSent, StartExecute,
           ReadyFailed, Evicted, Reported, FinalSent, AskSent,
           PermissionAnswered, PermissionCancelled, Aborted
    <3>3. ASSUME NEW s \in Session, ExecuteEnds(s) \/ Unhandled(s) \/ Ask(s)
          PROVE  UNCHANGED <<queue, pending>>
      BY <3>3 DEF ExecuteEnds, Finish, Fail, Timeout, Unhandled, Ask
    <3>4. ASSUME NEW s \in Session, UserReply(s) \/ Stop(s)
          PROVE  UNCHANGED <<queue, pending>>
      BY <3>4 DEF UserReply, Click, TextReply, Stop
    <3>5. ASSUME NEW s \in Session, DoneBegin(s) \/ DoneEnd(s) \/ Reap(s)
          PROVE  UNCHANGED <<queue, pending>>
      BY <3>5 DEF DoneBegin, DoneEnd, Reap
    <3>6. CASE UNCHANGED vars
      BY <3>6 DEF vars
    <3> QED
      BY <1>2, <3>1, <3>2, <3>3, <3>4, <3>5, <3>6 DEF Next, Done
  <2> QED
    BY <2>2, <2>3, <2>4, <2>5, <2>6
<1> QED
  BY Inductive, <1>1, <1>2, PTL DEF Spec

-----------------------------------------------------------------------------
(* No task is lost *)

NoneClosing == \A s \in Session : closing[s] = "none"
LostInv == NoneClosing /\ NoTaskLost

LEMMA NonEmpty ==
  ASSUME TypeOK, NEW t \in Task, NEW outcome \in Outcome,
         shown' = [shown EXCEPT ![t] = Append(shown[t], outcome)]
  PROVE  /\ shown'[t] # <<>>
         /\ \A x \in Task : shown[x] # <<>> => shown'[x] # <<>>
<1>1. shown[t] \in Seq(Outcome)
  BY DEF TypeOK
<1>2. Append(shown[t], outcome) # <<>>
  BY <1>1
<1>3. /\ shown'[t] = Append(shown[t], outcome)
      /\ \A x \in Task : x # t => shown'[x] = shown[x]
  BY DEF TypeOK
<1> QED
  BY <1>2, <1>3

\* A step that moves no task loses none.
LEMMA LostKept ==
  ASSUME TypeOK, LostInv, UNCHANGED <<arrived, queue, active, closing, dropped>>,
         \A x \in Task : shown[x] # <<>> => shown'[x] # <<>>
  PROVE  LostInv'
BY DEF LostInv, NoneClosing, NoTaskLost, InQueue, TypeOK

\* A task that ends has been told, or dropped.
LEMMA LostEnded ==
  ASSUME TypeOK, TaskDiscipline, LostInv, UNCHANGED <<arrived, queue, closing, shown>>,
         NEW s \in Session, active' = [active EXCEPT ![s] = NoTask],
         dropped \subseteq dropped',
         shown[active[s]] # <<>> \/ active[s] \in dropped'
  PROVE  LostInv'
<1>1. NoneClosing'
  BY DEF LostInv, NoneClosing
<1>2. NoTaskLost'
  BY ConstantsAssumption DEF LostInv, NoTaskLost, InQueue, TypeOK
<1> QED
  BY <1>1, <1>2 DEF LostInv

\* A step whose only notice is one more for the active task of s.
LEMMA LostTold ==
  ASSUME TypeOK, LostInv, UNCHANGED <<arrived, queue, active, closing, dropped>>,
         NEW s \in Session, active[s] \in Task,
         NEW outcome \in Outcome, Notify(s, outcome)
  PROVE  LostInv'
<1>1. \A x \in Task : shown[x] # <<>> => shown'[x] # <<>>
  BY NonEmpty DEF Notify
<1> QED
  BY <1>1, LostKept

LEMMA LostStep ==
  ASSUME "done" \notin Command, IInv, LostInv, [Next]_vars PROVE LostInv'
<1> USE ConstantsAssumption DEF lockVars, askVars, dispatchVars, queueVars
<1>1. TypeOK /\ LockConsistent /\ TaskDiscipline /\ NoticeDiscipline /\ AbortDiscipline
  BY DEF IInv
<1>2. ASSUME NEW t \in Task, Dispatch(t) PROVE LostInv'
  <2> DEFINE s == OwnerOf[t]
  <2>1. /\ s \in Session
        /\ queue[s] \in Seq(Task)
        /\ t \notin arrived
        /\ arrived' = arrived \cup {t}
        /\ UNCHANGED <<active, closing, dropped>>
    BY <1>1, <1>2 DEF TypeOK, Dispatch
  <2>2. CASE HasRoom(s)
    <3>1. /\ queue' = [queue EXCEPT ![s] = Append(queue[s], t)]
          /\ shown' = shown
      BY <1>2, <2>2 DEF Dispatch
    <3>2. Range(Append(queue[s], t)) = Range(queue[s]) \cup {t}
      BY <2>1, AppendFacts
    <3>3. \A u \in Session : Range(queue[u]) \subseteq Range(queue'[u])
      BY <1>1, <2>1, <3>1, <3>2 DEF TypeOK
    <3>4. t \in Range(queue'[s])
      BY <1>1, <2>1, <3>1, <3>2 DEF TypeOK
    <3> QED
      BY <1>1, <2>1, <3>1, <3>3, <3>4
         DEF LostInv, NoneClosing, NoTaskLost, InQueue, TypeOK
  <2>3. CASE ~HasRoom(s)
    <3>1. /\ queue' = queue
          /\ shown' = [shown EXCEPT ![t] = Append(shown[t], "full")]
      BY <1>2, <2>3 DEF Dispatch
    <3>2. "full" \in Outcome
      BY DEF Outcome
    <3>3. /\ shown'[t] # <<>>
          /\ \A x \in Task : shown[x] # <<>> => shown'[x] # <<>>
      BY <1>1, <3>1, <3>2, NonEmpty
    <3>4. NoTaskLost'
      BY <1>1, <2>1, <3>1, <3>3 DEF LostInv, NoTaskLost, InQueue, TypeOK
    <3> QED BY <2>1, <3>4 DEF LostInv, NoneClosing
  <2> QED BY <2>2, <2>3
<1>3. ASSUME NEW t \in Task, EnsureWorker(t) PROVE LostInv'
  BY <1>1, <1>3, LostKept DEF EnsureWorker
<1>4. ASSUME NEW s \in Session, Take(s) PROVE LostInv'
  <2> DEFINE t == Head(queue[s])
  <2>1. /\ queue[s] \in Seq(Task) /\ queue[s] # <<>>
        /\ queue' = [queue EXCEPT ![s] = Tail(queue[s])]
        /\ pc[s] = "get"
        /\ UNCHANGED <<arrived, shown, closing, dropped>>
    BY <1>1, <1>4 DEF TypeOK, Take
  <2>2. Range(queue[s]) = {t} \cup Range(Tail(queue[s]))
    BY <2>1, TailFacts
  <2>3. t \notin canceled
    BY <1>1, <2>2 DEF TaskDiscipline
  <2>4. /\ active' = [active EXCEPT ![s] = t]
        /\ active[s] = NoTask
    BY <1>1, <1>4, <2>1, <2>3 DEF Take, TaskDiscipline, Busy, Critical
  <2>5. ASSUME NEW x \in arrived
        PROVE  \/ InQueue(x)' \/ active'[OwnerOf[x]] = x
               \/ shown'[x] # <<>> \/ x \in dropped'
    <3>1. x \in Task /\ OwnerOf[x] \in Session
      BY <1>1 DEF TypeOK
    <3>2. CASE OwnerOf[x] = s
      <4>1. /\ queue'[OwnerOf[x]] = Tail(queue[s])
            /\ active'[OwnerOf[x]] = t
        BY <1>1, <2>1, <2>4, <3>2 DEF TypeOK
      <4> QED
        BY <2>1, <2>2, <2>4, <3>1, <3>2, <4>1 DEF LostInv, NoTaskLost, InQueue
    <3>3. CASE OwnerOf[x] # s
      <4>1. /\ queue'[OwnerOf[x]] = queue[OwnerOf[x]]
            /\ active'[OwnerOf[x]] = active[OwnerOf[x]]
        BY <1>1, <2>1, <2>4, <3>1, <3>3 DEF TypeOK
      <4> QED
        BY <2>1, <4>1 DEF LostInv, NoTaskLost, InQueue
    <3> QED BY <3>2, <3>3
  <2> QED
    BY <2>1, <2>5 DEF LostInv, NoneClosing, NoTaskLost
<1>5. ASSUME NEW s \in Session, CardSent(s) PROVE LostInv'
  BY <1>1, <1>5, LostKept DEF CardSent
<1>6. ASSUME NEW s \in Session, LockWake(s) PROVE LostInv'
  BY <1>1, <1>6, LostKept DEF LockWake
<1>7. ASSUME NEW s \in Session, UpdateSent(s) PROVE LostInv'
  BY <1>1, <1>7, LostKept DEF UpdateSent
<1>8. ASSUME NEW s \in Session, StartExecute(s) PROVE LostInv'
  BY <1>1, <1>8, LostKept DEF StartExecute
<1>9. ASSUME NEW s \in Session, ReadyFailed(s) PROVE LostInv'
  <2>1. active[s] \in Task /\ "failed" \in Outcome /\ Notify(s, "failed")
    BY <1>1, <1>9 DEF ReadyFailed, Outcome, TypeOK, TaskDiscipline, Busy, Critical
  <2> QED
    BY <1>1, <1>9, <2>1, LostTold DEF ReadyFailed
<1>10. ASSUME NEW s \in Session, Evicted(s) PROVE LostInv'
  <2>1. active[s] \in Task /\ "failed" \in Outcome /\ Notify(s, "failed")
    BY <1>1, <1>10 DEF Evicted, Outcome, TypeOK, TaskDiscipline, Busy, Critical
  <2> QED
    BY <1>1, <1>10, <2>1, LostTold DEF Evicted
<1>11. ASSUME NEW s \in Session, Reported(s) PROVE LostInv'
  <2>1. /\ pc[s] \in Busy \ Unreported
        /\ active' = [active EXCEPT ![s] = NoTask]
        /\ UNCHANGED <<shown, dropped>>
    BY <1>1, <1>11 DEF Reported, EndTask, AbortDiscipline, Busy, Critical, Unreported
  <2>2. shown[active[s]] # <<>>
    BY <1>1, <2>1 DEF NoticeDiscipline
  <2> QED
    BY <1>1, <1>11, <2>1, <2>2, LostEnded DEF Reported
<1>12. ASSUME NEW s \in Session, FinalSent(s) PROVE LostInv'
  <2>1. /\ pc[s] \in Busy \ Unreported
        /\ active' = [active EXCEPT ![s] = NoTask]
        /\ UNCHANGED <<shown, dropped>>
    BY <1>1, <1>12 DEF FinalSent, EndTask, AbortDiscipline, Busy, Critical, Unreported
  <2>2. shown[active[s]] # <<>>
    BY <1>1, <2>1 DEF NoticeDiscipline
  <2> QED
    BY <1>1, <1>12, <2>1, <2>2, LostEnded DEF FinalSent
<1>13. ASSUME NEW s \in Session, AskSent(s) PROVE LostInv'
  BY <1>1, <1>13, LostKept DEF AskSent
<1>14. ASSUME NEW s \in Session, PermissionAnswered(s) PROVE LostInv'
  <2>1. /\ active[s] \in Task
        /\ "failed" \in Outcome
        /\ UNCHANGED <<arrived, queue, active, closing, dropped>>
    BY <1>1, <1>14 DEF PermissionAnswered, Outcome, TypeOK, TaskDiscipline,
       Busy, Critical
  <2>2. CASE s \in gone
    <3>1. Notify(s, "failed")
      BY <1>14, <2>2 DEF PermissionAnswered
    <3> QED
      BY <1>1, <2>1, <3>1, LostTold
  <2>3. CASE s \notin gone
    <3>1. shown' = shown
      BY <1>14, <2>3 DEF PermissionAnswered
    <3> QED
      BY <1>1, <2>1, <3>1, LostKept
  <2> QED BY <2>2, <2>3
<1>15. ASSUME NEW s \in Session, PermissionCancelled(s) PROVE LostInv'
  <2>1. active[s] \in Task /\ "cancelled" \in Outcome /\ Notify(s, "cancelled")
    BY <1>1, <1>15 DEF PermissionCancelled, Outcome, TypeOK, TaskDiscipline, Busy, Critical
  <2> QED
    BY <1>1, <1>15, <2>1, LostTold DEF PermissionCancelled
<1>16. ASSUME NEW s \in Session, Aborted(s) PROVE LostInv'
  <2>1. /\ pc[s] \in Busy \ Unreported
        /\ active' = [active EXCEPT ![s] = NoTask]
        /\ UNCHANGED <<shown, dropped>>
    BY <1>1, <1>16 DEF Aborted, EndTask, AbortDiscipline, Busy, Critical, Unreported
  <2>2. shown[active[s]] # <<>>
    BY <1>1, <2>1 DEF NoticeDiscipline
  <2> QED
    BY <1>1, <1>16, <2>1, <2>2, LostEnded DEF Aborted
<1>17. ASSUME NEW s \in Session, Finish(s) PROVE LostInv'
  <2>1. active[s] \in Task
    BY <1>1, <1>17 DEF Finish, TypeOK, TaskDiscipline, Busy, Critical
  <2>2. PICK outcome \in Outcome : Notify(s, outcome)
    BY <1>17 DEF Finish, Outcome
  <2> QED
    BY <1>1, <1>17, <2>1, <2>2, LostTold DEF Finish
<1>18. ASSUME NEW s \in Session, Fail(s) PROVE LostInv'
  <2>1. active[s] \in Task /\ "failed" \in Outcome /\ Notify(s, "failed")
    BY <1>1, <1>18 DEF Fail, Outcome, TypeOK, TaskDiscipline, Busy, Critical
  <2> QED
    BY <1>1, <1>18, <2>1, LostTold DEF Fail
<1>19. ASSUME NEW s \in Session, Timeout(s) PROVE LostInv'
  BY <1>1, <1>19, LostKept DEF Timeout
<1>20. ASSUME NEW s \in Session, Ask(s) PROVE LostInv'
  BY <1>1, <1>20, LostKept DEF Ask
<1>21. ASSUME NEW s \in Session, Stop(s) PROVE LostInv'
  BY <1>1, <1>21, LostKept DEF Stop
<1>22. ASSUME NEW s \in Session, DoneBegin(s) PROVE LostInv'
  BY <1>22 DEF DoneBegin, LostInv, NoneClosing
<1>23. ASSUME NEW s \in Session, DoneDrain(s) PROVE LostInv'
  BY <1>23 DEF DoneDrain, LostInv, NoneClosing
<1>24. ASSUME NEW s \in Session, DoneEnd(s) PROVE LostInv'
  BY <1>24 DEF DoneEnd, LostInv, NoneClosing
<1>25. ASSUME NEW s \in Session, Reap(s) PROVE LostInv'
  BY <1>1, <1>25, LostKept DEF Reap
<1>26. ASSUME NEW s \in Session, UserReply(s) PROVE LostInv'
  BY <1>1, <1>26, LostKept DEF UserReply, Click, TextReply
<1>28. ASSUME NEW s \in Session, Unhandled(s) PROVE LostInv'
  <2>1. /\ active' = [active EXCEPT ![s] = NoTask]
        /\ dropped' = dropped \cup {active[s]}
        /\ UNCHANGED <<arrived, queue, closing, shown>>
    BY <1>28 DEF Unhandled, EndTask
  <2> QED
    BY <1>1, <2>1, LostEnded
<1>27. CASE UNCHANGED vars
  BY <1>1, <1>27, LostKept DEF vars
<1> QED
  BY <1>2, <1>3, <1>4, <1>5, <1>6, <1>7, <1>8, <1>9, <1>10, <1>11, <1>12, <1>13, <1>14, <1>15, <1>16, <1>17, <1>18, <1>19, <1>20, <1>21, <1>22, <1>23, <1>24, <1>25, <1>26, <1>27, <1>28
     DEF Next, WorkerStep, ExecuteEnds, Done

\* As long as /done is not used, a message dispatch() saw is queued, running,
\* answered or the one its worker held when an exception ended it, in every
\* reachable state.
THEOREM NothingLost ==
  ASSUME "done" \notin Command PROVE Spec => []NoTaskLost
<1>1. Init => LostInv
  <2> SUFFICES ASSUME Init PROVE LostInv
    OBVIOUS
  <2> QED
    BY DEF Init, LostInv, NoneClosing, NoTaskLost
<1>2. IInv /\ LostInv /\ [Next]_vars => LostInv'
  BY LostStep
<1>3. LostInv => NoTaskLost
  BY DEF LostInv
<1> QED
  BY Inductive, <1>1, <1>2, <1>3, PTL DEF Spec

-----------------------------------------------------------------------------
(* Refinement of TaskService *)

\* How a notice changes the set of tasks whose sender was told.
LEMMA OneMoreTold ==
  ASSUME TypeOK, NEW t \in Task, NEW outcome \in Outcome,
         shown' = [shown EXCEPT ![t] = Append(shown[t], outcome)]
  PROVE  Told' = Told \cup {t}
<1>1. /\ shown'[t] # <<>>
      /\ \A x \in Task : x # t => shown'[x] = shown[x]
  BY NonEmpty DEF TypeOK
<1> QED BY <1>1 DEF Told

LEMMA SameTold ==
  ASSUME UNCHANGED shown PROVE UNCHANGED Told
BY DEF Told

\* A worker that notifies while it holds the lock maps to Tell.
LEMMA NotifyTells ==
  ASSUME IInv, NEW s \in Session, pc[s] \in Unreported \cap Critical,
         NEW outcome \in Outcome, Notify(s, outcome),
         UNCHANGED <<arrived, queue, active>>, holder' = holder \/ Release(s)
  PROVE  Abstract!Tell(s)
<1>1. TypeOK /\ LockConsistent /\ TaskDiscipline /\ NoticeDiscipline
  BY DEF IInv
<1>2. /\ active[s] \in Task /\ active[s] # NoTask
      /\ shown[active[s]] = <<>>
      /\ holder[PathOf[s]] = s
      /\ PathOf[s] \in Path
  BY <1>1, ConstantsAssumption
     DEF TypeOK, LockConsistent, TaskDiscipline, NoticeDiscipline, Busy
<1>3. active[s] \notin Told /\ Told' = Told \cup {active[s]}
  BY <1>1, <1>2, OneMoreTold DEF Told, Notify
<1>4. holder' \in {holder, Abstract!Left(s)}
  BY <1>2 DEF Release, Abstract!Left
<1> QED
  BY <1>2, <1>3, <1>4 DEF Abstract!Tell

LEMMA AbstractStep ==
  ASSUME IInv, [Next]_vars PROVE [Abstract!Next]_Abstract!vars
<1> USE ConstantsAssumption
    DEF lockVars, askVars, dispatchVars, queueVars
<1>1. /\ TypeOK /\ LockConsistent /\ TaskDiscipline
      /\ NoticeDiscipline /\ AbortDiscipline
  BY DEF IInv
<1>2. ASSUME NEW t \in Task, Dispatch(t) PROVE Abstract!Receive(t)
  <2>1. OwnerOf[t] \in Session
    OBVIOUS
  <2>2. CASE HasRoom(OwnerOf[t])
    <3>1. UNCHANGED Told
      BY <1>2, <2>2, SameTold DEF Dispatch
    <3> QED
      BY <1>2, <2>1, <2>2, <3>1 DEF Dispatch, HasRoom, Abstract!Receive
  <2>3. CASE ~HasRoom(OwnerOf[t])
    <3>1. Told' = Told \cup {t}
      BY <1>1, <1>2, <2>3, OneMoreTold DEF Dispatch, Outcome
    <3> QED
      BY <1>2, <2>1, <2>3, <3>1 DEF Dispatch, HasRoom, Abstract!Receive
  <2> QED BY <2>2, <2>3
<1>3. ASSUME NEW s \in Session, Take(s) PROVE Abstract!Begin(s)
  <2>0. pc[s] = "get" /\ queue[s] # <<>>
    BY <1>3 DEF Take
  <2>1. /\ queue[s] \in Seq(Task) /\ queue[s] # <<>>
        /\ active[s] = NoTask
    <3>1. queue[s] \in Seq(Task)
      BY <1>1 DEF TypeOK
    <3>2. active[s] = NoTask
      BY <1>1, <2>0 DEF TaskDiscipline, Busy, Critical
    <3> QED BY <2>0, <3>1, <3>2
  <2>2. Head(queue[s]) \notin canceled
    BY <1>1, <2>1, TailFacts DEF TaskDiscipline
  <2>3. UNCHANGED Told
    BY <1>3, SameTold DEF Take
  <2> QED
    BY <1>3, <2>1, <2>2, <2>3 DEF Take, Abstract!Begin
<1>4. ASSUME NEW s \in Session, EnterLock(s), holder[PathOf[s]] = NoSession,
             pc[s] \in Busy, UNCHANGED <<arrived, queue, active, shown>>
      PROVE  Abstract!Enter(s)
  BY <1>1, <1>4, SameTold DEF TaskDiscipline, EnterLock, Abstract!Enter
<1>5. ASSUME NEW s \in Session, CardSent(s)
      PROVE  Abstract!Enter(s) \/ UNCHANGED Abstract!vars
  <2>1. /\ pc[s] \in Busy
        /\ UNCHANGED <<arrived, queue, active, shown>>
    BY <1>5 DEF CardSent, Busy
  <2>2. CASE LockFree(PathOf[s])
    BY <1>4, <1>5, <2>1, <2>2 DEF CardSent, LockFree
  <2>3. CASE ~LockFree(PathOf[s])
    BY <1>5, <2>1, <2>3, SameTold DEF CardSent, Abstract!vars
  <2> QED BY <2>2, <2>3
<1>6. ASSUME NEW s \in Session, LockWake(s) PROVE Abstract!Enter(s)
  BY <1>4, <1>6 DEF LockWake, Busy
<1>7. ASSUME NEW s \in Session, pc[s] \in Critical
      PROVE  /\ holder[PathOf[s]] = s /\ PathOf[s] \in Path
             /\ active[s] \in Task /\ active[s] # NoTask
             /\ pc[s] \in Unreported <=> active[s] \notin Told
  BY <1>1, <1>7
  DEF TypeOK, LockConsistent, TaskDiscipline, NoticeDiscipline, Busy, Told
<1>8. ASSUME NEW s \in Session,
             ReadyFailed(s) \/ Evicted(s) \/ PermissionCancelled(s) \/ Fail(s)
      PROVE  Abstract!Tell(s)
  <2>1. /\ pc[s] \in Unreported \cap Critical
        /\ \E outcome \in Outcome : Notify(s, outcome)
        /\ UNCHANGED <<arrived, queue, active, holder>>
    BY <1>8 DEF ReadyFailed, Evicted, PermissionCancelled, Fail, Unreported,
         Critical, Outcome
  <2> QED BY <2>1, NotifyTells
<1>9. ASSUME NEW s \in Session, Finish(s) PROVE Abstract!Tell(s)
  <2>1. /\ pc[s] \in Unreported \cap Critical
        /\ \E outcome \in Outcome : Notify(s, outcome)
        /\ UNCHANGED <<arrived, queue, active>>
        /\ Release(s)
    BY <1>9 DEF Finish, Unreported, Critical, Outcome
  <2> QED BY <2>1, NotifyTells
<1>10. ASSUME NEW s \in Session, PermissionAnswered(s)
       PROVE  Abstract!Tell(s) \/ UNCHANGED Abstract!vars
  <2>1. UNCHANGED <<arrived, queue, active, holder>> /\ pc[s] = "perm"
    BY <1>10 DEF PermissionAnswered
  <2>2. CASE s \in gone
    <3>1. /\ Notify(s, "failed") /\ "failed" \in Outcome
          /\ pc[s] \in Unreported \cap Critical
      BY <1>10, <2>1, <2>2 DEF PermissionAnswered, Outcome, Unreported, Critical
    <3> QED BY <2>1, <3>1, NotifyTells
  <2>3. CASE s \notin gone
    <3>1. shown' = shown
      BY <1>10, <2>3 DEF PermissionAnswered
    <3> QED BY <2>1, <3>1, SameTold DEF Abstract!vars
  <2> QED BY <2>2, <2>3
<1>11. ASSUME NEW s \in Session, Reported(s) \/ Aborted(s) PROVE Abstract!End(s)
  <2>1. /\ pc[s] \in Critical /\ pc[s] \notin Unreported
        /\ Release(s)
        /\ active' = [active EXCEPT ![s] = NoTask]
        /\ UNCHANGED <<arrived, queue, shown>>
    BY <1>1, <1>11 DEF Reported, Aborted, EndTask, Critical, Unreported,
         AbortDiscipline
  <2> QED
    BY <1>7, <2>1, SameTold DEF Release, Abstract!End, Abstract!Left
<1>12. ASSUME NEW s \in Session, FinalSent(s) PROVE Abstract!End(s)
  <2>1. /\ pc[s] = "final"
        /\ active' = [active EXCEPT ![s] = NoTask]
        /\ UNCHANGED <<arrived, queue, holder, shown>>
    BY <1>12 DEF FinalSent, EndTask
  <2>2. /\ active[s] \in Told
        /\ PathOf[s] \in Path
        /\ holder[PathOf[s]] # s
    <3>1. pc[s] \in Busy /\ pc[s] \notin Unreported /\ pc[s] \notin Critical
      BY <2>1 DEF Busy, Critical, Unreported
    <3>2. active[s] \in Task /\ shown[active[s]] # <<>>
      BY <1>1, <3>1 DEF TypeOK, TaskDiscipline, NoticeDiscipline
    <3>3. holder[PathOf[s]] # s
      BY <1>1, <3>1 DEF LockConsistent
    <3> QED BY <3>2, <3>3 DEF Told
  <2>3. holder' = Abstract!Left(s)
    BY <1>1, <2>1, <2>2 DEF TypeOK, Abstract!Left
  <2> QED
    BY <2>1, <2>2, <2>3, SameTold DEF Abstract!End
<1>13. ASSUME NEW s \in Session, Unhandled(s) PROVE Abstract!Drop(s)
  <2>1. /\ pc[s] \in Critical /\ pc[s] \in Unreported
        /\ Release(s)
        /\ active' = [active EXCEPT ![s] = NoTask]
        /\ UNCHANGED <<arrived, queue, shown>>
    BY <1>13 DEF Unhandled, EndTask, Critical, Unreported
  <2> QED
    BY <1>7, <2>1, SameTold DEF Release, Abstract!Drop, Abstract!Left
<1>14. ASSUME NEW s \in Session, DoneDrain(s) PROVE Abstract!Discard(s)
  BY <1>14, SameTold DEF DoneDrain, Abstract!Discard
<1>15. ASSUME NEW t \in Task, EnsureWorker(t) PROVE UNCHANGED Abstract!vars
  BY <1>15, SameTold DEF EnsureWorker, Abstract!vars
<1>16. ASSUME NEW s \in Session,
              \/ UpdateSent(s) \/ StartExecute(s) \/ AskSent(s)
              \/ Timeout(s) \/ Ask(s)
       PROVE  UNCHANGED Abstract!vars
  BY <1>16, SameTold
  DEF UpdateSent, StartExecute, AskSent, Timeout, Ask, Abstract!vars
<1>17. ASSUME NEW s \in Session,
              UserReply(s) \/ Stop(s) \/ DoneBegin(s) \/ DoneEnd(s) \/ Reap(s)
       PROVE  UNCHANGED Abstract!vars
  BY <1>17, SameTold DEF UserReply, Click, TextReply, Stop, DoneBegin, DoneEnd,
       Reap, Abstract!vars
<1>18. CASE UNCHANGED vars
  BY <1>18, SameTold DEF vars, Abstract!vars
<1> QED
  BY <1>2, <1>3, <1>5, <1>6, <1>8, <1>9, <1>10, <1>11, <1>12, <1>13, <1>14,
     <1>15, <1>16, <1>17, <1>18
     DEF Next, WorkerStep, ExecuteEnds, Done, Abstract!Next

\* The task path serves the messages of a session one at a time, in order and
\* each at most once, the sessions of a directory one after the other, and no
\* message is over before its sender was told, unless an exception ended its
\* worker.
THEOREM Serves == Spec => ServesTasks
<1>1. Init => Abstract!Init
  <2> SUFFICES ASSUME Init PROVE Abstract!Init
    OBVIOUS
  <2>1. Told = {}
    BY DEF Init, Told
  <2> QED BY <2>1 DEF Init, Abstract!Init
<1>2. IInv /\ [Next]_vars => [Abstract!Next]_Abstract!vars
  BY AbstractStep
<1> QED
  BY Inductive, <1>1, <1>2, PTL DEF Spec, ServesTasks, Abstract!Spec

-----------------------------------------------------------------------------
(* Who looks after the queue *)

\* A step after which the workers that ran still run, no dispatch() has gone
\* away, and a queue that changed has been emptied or has a worker.
LEMMA StillAttended ==
  ASSUME NEW s \in Session, Attended(s),
         pc'[s] = pc[s] \/ pc'[s] # "none",
         queue'[s] \in {queue[s], <<>>} \/ pc'[s] # "none",
         acking \subseteq acking'
  PROVE  Attended(s)'
BY DEF Attended

\* A step of the worker that is not its end.
LEMMA GoesOn ==
  ASSUME TypeOK, NEW s \in Session, Attended(s), NEW u \in Session,
         NEW label \in PC \ {"none"}, Goto(u, label), UNCHANGED <<queue, acking>>
  PROVE  Attended(s)'
<1>1. pc'[s] = pc[s] \/ pc'[s] # "none"
  BY DEF Goto, TypeOK
<1> QED BY <1>1, StillAttended

LEMMA AttendedStep ==
  ASSUME TypeOK, [Next]_vars, NEW s \in Session, Attended(s),
         ~Aborted(s), ~Unhandled(s)
  PROVE  Attended(s)'
<1> USE ConstantsAssumption
    DEF lockVars, askVars, dispatchVars, queueVars, PC, Busy, Critical
<1>1. ASSUME NEW t \in Task, Dispatch(t) PROVE Attended(s)'
  <2>1. pc' = pc /\ acking \subseteq acking' /\ OwnerOf[t] \in Session
    BY <1>1 DEF Dispatch
  <2>2. CASE queue'[s] = queue[s]
    BY <2>1, <2>2, StillAttended
  <2>3. CASE queue'[s] # queue[s]
    <3>1. OwnerOf[t] = s /\ t \in acking'
      BY <1>1, <2>3 DEF Dispatch, TypeOK
    <3> QED BY <3>1 DEF Attended
  <2> QED BY <2>2, <2>3
<1>2. ASSUME NEW t \in Task, EnsureWorker(t) PROVE Attended(s)'
  <2>1. /\ queue' = queue /\ acking' = acking \ {t}
        /\ pc'[OwnerOf[t]] # "none"
        /\ s # OwnerOf[t] => pc'[s] = pc[s]
    BY <1>2 DEF EnsureWorker, TypeOK
  <2> QED BY <2>1 DEF Attended
<1>3. ASSUME NEW u \in Session, Take(u) PROVE Attended(s)'
  <2>1. /\ pc[u] = "get" /\ acking' = acking
        /\ pc'[u] = "get" \/ pc'[u] = "card"
        /\ s # u => pc'[s] = pc[s] /\ queue'[s] = queue[s]
    BY <1>3 DEF Take, Goto, TypeOK
  <2> QED BY <2>1, StillAttended
<1>4. ASSUME NEW u \in Session, EnterLock(u), UNCHANGED <<queue, acking>>
      PROVE  Attended(s)'
  <2>1. Goto(u, "update") \/ Goto(u, "ready")
    BY <1>4 DEF EnterLock
  <2> QED BY <1>4, <2>1, GoesOn
<1>5. ASSUME NEW u \in Session, CardSent(u) \/ LockWake(u) PROVE Attended(s)'
  <2>1. UNCHANGED <<queue, acking>> /\ (EnterLock(u) \/ Goto(u, "wait"))
    BY <1>5 DEF CardSent, LockWake
  <2> QED BY <1>4, <2>1, GoesOn
<1>6. ASSUME NEW u \in Session,
             \/ UpdateSent(u) \/ StartExecute(u) \/ ReadyFailed(u) \/ Finish(u)
             \/ Fail(u) \/ Timeout(u) \/ Evicted(u) \/ Ask(u) \/ AskSent(u)
             \/ PermissionAnswered(u) \/ PermissionCancelled(u)
      PROVE  Attended(s)'
  <2>1. /\ UNCHANGED <<queue, acking>>
        /\ \E label \in {"ready", "run", "report", "final", "evict", "ask",
                         "perm", "abort"} : Goto(u, label)
    BY <1>6 DEF UpdateSent, StartExecute, ReadyFailed, Finish, Fail, Timeout,
         Evicted, Ask, AskSent, PermissionAnswered, PermissionCancelled
  <2> QED BY <2>1, GoesOn
<1>7. ASSUME NEW u \in Session, Reported(u) \/ FinalSent(u) PROVE Attended(s)'
  <2>1. UNCHANGED <<queue, acking>> /\ Goto(u, "get")
    BY <1>7 DEF Reported, FinalSent, EndTask
  <2> QED BY <2>1, GoesOn
<1>8. ASSUME NEW u \in Session, Aborted(u) \/ Unhandled(u) PROVE Attended(s)'
  <2>1. u # s /\ UNCHANGED <<queue, acking>> /\ Goto(u, "none")
    BY <1>8 DEF Aborted, Unhandled, EndTask
  <2>2. pc'[s] = pc[s]
    BY <2>1 DEF Goto, TypeOK
  <2> QED BY <2>1, <2>2, StillAttended
<1>9. ASSUME NEW u \in Session,
             UserReply(u) \/ Stop(u) \/ DoneBegin(u) \/ DoneEnd(u) \/ Reap(u)
      PROVE  Attended(s)'
  <2>1. UNCHANGED <<queue, acking, pc>>
    BY <1>9 DEF UserReply, Click, TextReply, Stop, DoneBegin, DoneEnd, Reap
  <2> QED BY <2>1, StillAttended
<1>10. ASSUME NEW u \in Session, DoneDrain(u) PROVE Attended(s)'
  <2>1. UNCHANGED <<acking, pc>> /\ queue'[s] \in {queue[s], <<>>}
    BY <1>10 DEF DoneDrain, TypeOK
  <2> QED BY <2>1, StillAttended
<1>11. CASE UNCHANGED vars
  <2>1. UNCHANGED <<queue, acking, pc>>
    BY <1>11 DEF vars
  <2> QED BY <2>1, StillAttended
<1> QED
  BY <1>1, <1>2, <1>3, <1>5, <1>6, <1>7, <1>8, <1>9, <1>10, <1>11
     DEF Next, WorkerStep, ExecuteEnds, Done

\* Nothing but a cancelled permission request or an exception outside
\* execute(), which end the worker, leaves queued messages without a worker or
\* a dispatch() about to start one (worker.py 183-245, dispatcher.py
\* _ensure_worker).
THEOREM QueuesAreAttended == Spec => OnlyDeathStrands
<1>1. TypeOK /\ [Next]_vars =>
        [\A s \in Session :
           Attended(s) /\ ~Attended(s)' => Aborted(s) \/ Unhandled(s)]_vars
  BY AttendedStep
<1> QED BY TypeCorrect, <1>1, PTL DEF Spec, OnlyDeathStrands

\* No execute() waits for the user.
NeverAsks == \A s \in Session : pc[s] \notin {"ask", "perm", "abort"}

LEMMA NeverAsksStep ==
  ASSUME TypeOK, NeverAsks, Fragile = {}, MaxAsk = 0 \/ AcpSession = {},
         [Next]_vars
  PROVE  NeverAsks'
<1> USE DEF NeverAsks
<1>1. ASSUME NEW u \in Session, NEW label \in PC \ {"ask", "perm", "abort"}, Goto(u, label)
      PROVE  NeverAsks'
  BY <1>1 DEF Goto, TypeOK
<1>2. ASSUME NEW t \in Task, Dispatch(t) \/ EnsureWorker(t) PROVE NeverAsks'
  BY <1>2, ConstantsAssumption DEF Dispatch, EnsureWorker, TypeOK
<1>3. ASSUME NEW u \in Session, Ask(u) PROVE FALSE
  BY <1>3 DEF Ask, TypeOK
<1>4. ASSUME NEW u \in Session, pc' # pc,
             WorkerStep(u) \/ ExecuteEnds(u)
      PROVE  \E label \in PC \ {"ask", "perm", "abort"} : Goto(u, label)
  <2>1. ~AskSent(u) /\ ~PermissionAnswered(u) /\ ~PermissionCancelled(u) /\ ~Aborted(u)
    BY DEF AskSent, PermissionAnswered, PermissionCancelled, Aborted
  <2> QED
    BY <1>4, <2>1
    DEF WorkerStep, ExecuteEnds, Take, CardSent, LockWake, EnterLock, UpdateSent,
        StartExecute, ReadyFailed, Finish, Fail, Timeout, Evicted, Reported,
        FinalSent, EndTask, PC, Busy, Critical
<1>5. ASSUME NEW u \in Session, UserReply(u) \/ Stop(u) \/ Done(u) \/ Reap(u)
      PROVE  pc' = pc
  BY <1>5 DEF UserReply, Click, TextReply, Stop, Done, DoneBegin, DoneDrain, DoneEnd, Reap
<1>6. CASE pc' = pc
  BY <1>6
<1>7. CASE UNCHANGED vars
  BY <1>7 DEF vars
<1>8. \A u \in Session : ~Unhandled(u)
  BY DEF Unhandled
<1> QED BY <1>1, <1>2, <1>3, <1>4, <1>5, <1>6, <1>7, <1>8 DEF Next

\* Where no agent asks for permission and nothing raises outside execute(),
\* queued messages always have a worker or a dispatch() about to start one.
THEOREM AlwaysAttended ==
  ASSUME Fragile = {}, MaxAsk = 0 \/ AcpSession = {}
  PROVE  Spec => [](\A s \in Session : Attended(s))
<1> DEFINE All == \A s \in Session : Attended(s)
<1>1. Init => All /\ NeverAsks
  BY DEF Init, Attended, NeverAsks
<1>2. TypeOK /\ All /\ NeverAsks /\ [Next]_vars => All'
  <2> SUFFICES ASSUME TypeOK, All, NeverAsks, [Next]_vars, NEW s \in Session
               PROVE  Attended(s)'
    OBVIOUS
  <2>1. ~Aborted(s) /\ ~Unhandled(s)
    BY DEF Aborted, Unhandled, NeverAsks
  <2> QED BY <2>1, AttendedStep
<1>3. TypeOK /\ NeverAsks /\ [Next]_vars => NeverAsks'
  BY NeverAsksStep
<1> HIDE DEF All
<1>4. Spec => []All
  BY TypeCorrect, <1>1, <1>2, <1>3, PTL DEF Spec
<1> QED BY <1>4 DEF All

=============================================================================
