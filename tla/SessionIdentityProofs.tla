----------------------- MODULE SessionIdentityProofs -----------------------
(***************************************************************************)
(* Proofs about SessionIdentity.  IdentityInv is inductive as it stands:   *)
(* it bounds, by what is owed and by what was forgotten, every place an id *)
(* can be taken from.  Truth values are treated apart from ids and places, *)
(* as the SMT translation does badly on goals that mix them.               *)
(***************************************************************************)
EXTENDS SessionIdentity, TLAPS

RuntimeFlags == flag \in BOOLEAN /\ late \in BOOLEAN
RuntimePlaces ==
  /\ actual \in 0..minted
  /\ at \in {"none", "spawn", "feed", "read"}
  /\ proc \in {"none", "up", "told", "gone"}
  /\ resume \in 0..minted
  /\ talk \in 0..minted
  /\ minted \in Nat
  /\ at \in {"none", "spawn"} <=> proc = "none"
  /\ at \in {"none", "spawn"} <=> talk = 0

LEMMA RuntimeParts == RuntimeTypeOK <=> RuntimeFlags /\ RuntimePlaces
BY DEF RuntimeTypeOK, RuntimeFlags, RuntimePlaces

LEMMA RuntimePartsNext == RuntimeTypeOK' <=> RuntimeFlags' /\ RuntimePlaces'
BY DEF RuntimeTypeOK, RuntimeFlags, RuntimePlaces

\* Whatever the runtime does keeps its types, and ids only grow.
RuntimeGrows == RuntimeTypeOK' /\ minted' >= minted

LEMMA SpawnedGrows == RuntimeTypeOK /\ Spawned => RuntimeGrows
<1> SUFFICES ASSUME RuntimeTypeOK, Spawned PROVE RuntimeGrows
  OBVIOUS
<1> USE RuntimeParts DEF Spawned
<1>1. RuntimeFlags'
  BY DEF RuntimeFlags
<1>2. RuntimePlaces' /\ minted' >= minted
  BY DEF RuntimePlaces
<1> QED BY <1>1, <1>2, RuntimePartsNext DEF RuntimeGrows

LEMMA FedGrows == RuntimeTypeOK /\ Fed => RuntimeGrows
<1> SUFFICES ASSUME RuntimeTypeOK, Fed PROVE RuntimeGrows
  OBVIOUS
<1> USE RuntimeParts DEF Fed
<1>1. RuntimeFlags'
  BY DEF RuntimeFlags
<1>2. RuntimePlaces' /\ minted' >= minted
  BY DEF RuntimePlaces
<1> QED BY <1>1, <1>2, RuntimePartsNext DEF RuntimeGrows

LEMMA SystemGrows == RuntimeTypeOK /\ System => RuntimeGrows
<1> SUFFICES ASSUME RuntimeTypeOK, System PROVE RuntimeGrows
  OBVIOUS
<1> USE RuntimeParts DEF System, Undisturbed, Reading, executeVars
<1>1. RuntimeFlags'
  BY DEF RuntimeFlags
<1>2. RuntimePlaces' /\ minted' >= minted
  BY DEF RuntimePlaces
<1> QED BY <1>1, <1>2, RuntimePartsNext DEF RuntimeGrows

LEMMA ResultGrows == RuntimeTypeOK /\ Result => RuntimeGrows
<1> SUFFICES ASSUME RuntimeTypeOK, Result PROVE RuntimeGrows
  OBVIOUS
<1> USE RuntimeParts DEF Result, Undisturbed, Reading, Ended
<1>1. RuntimeFlags'
  BY DEF RuntimeFlags
<1>2. RuntimePlaces' /\ minted' >= minted
  BY DEF RuntimePlaces
<1> QED BY <1>1, <1>2, RuntimePartsNext DEF RuntimeGrows

LEMMA InterruptedGrows == RuntimeTypeOK /\ Interrupted => RuntimeGrows
<1> SUFFICES ASSUME RuntimeTypeOK, Interrupted PROVE RuntimeGrows
  OBVIOUS
<1> USE RuntimeParts DEF Interrupted, Reading, Ended
<1>1. RuntimeFlags'
  BY DEF RuntimeFlags
<1>2. RuntimePlaces' /\ minted' >= minted
  BY DEF RuntimePlaces
<1> QED BY <1>1, <1>2, RuntimePartsNext DEF RuntimeGrows

LEMMA OvertimeGrows == RuntimeTypeOK /\ Overtime => RuntimeGrows
<1> SUFFICES ASSUME RuntimeTypeOK, Overtime PROVE RuntimeGrows
  OBVIOUS
<1> USE RuntimeParts DEF Overtime, Reading, Ended
<1>1. RuntimeFlags'
  BY DEF RuntimeFlags
<1>2. RuntimePlaces' /\ minted' >= minted
  BY DEF RuntimePlaces
<1> QED BY <1>1, <1>2, RuntimePartsNext DEF RuntimeGrows

LEMMA EofGrows == RuntimeTypeOK /\ Eof => RuntimeGrows
<1> SUFFICES ASSUME RuntimeTypeOK, Eof PROVE RuntimeGrows
  OBVIOUS
<1> USE RuntimeParts DEF Eof, Ended
<1>1. RuntimeFlags'
  BY DEF RuntimeFlags
<1>2. RuntimePlaces' /\ minted' >= minted
  BY DEF RuntimePlaces
<1> QED BY <1>1, <1>2, RuntimePartsNext DEF RuntimeGrows

LEMMA BrokenGrows == RuntimeTypeOK /\ Broken => RuntimeGrows
<1> SUFFICES ASSUME RuntimeTypeOK, Broken PROVE RuntimeGrows
  OBVIOUS
<1> USE RuntimeParts DEF Broken, Ended
<1>1. RuntimeFlags'
  BY DEF RuntimeFlags
<1>2. RuntimePlaces' /\ minted' >= minted
  BY DEF RuntimePlaces
<1> QED BY <1>1, <1>2, RuntimePartsNext DEF RuntimeGrows

LEMMA CancelGrows == RuntimeTypeOK /\ Cancel => RuntimeGrows
<1> SUFFICES ASSUME RuntimeTypeOK, Cancel PROVE RuntimeGrows
  OBVIOUS
<1> USE RuntimeParts DEF Cancel, Terminate
<1>1. RuntimeFlags'
  BY DEF RuntimeFlags
<1>2. RuntimePlaces' /\ minted' >= minted
  BY DEF RuntimePlaces
<1> QED BY <1>1, <1>2, RuntimePartsNext DEF RuntimeGrows

LEMMA StopGrows == RuntimeTypeOK /\ Stop => RuntimeGrows
<1> SUFFICES ASSUME RuntimeTypeOK, Stop PROVE RuntimeGrows
  OBVIOUS
<1> USE RuntimeParts DEF Stop, Terminate
<1>1. RuntimeFlags'
  BY DEF RuntimeFlags
<1>2. RuntimePlaces' /\ minted' >= minted
  BY DEF RuntimePlaces
<1> QED BY <1>1, <1>2, RuntimePartsNext DEF RuntimeGrows

LEMMA ExitGrows == RuntimeTypeOK /\ Exit => RuntimeGrows
<1> SUFFICES ASSUME RuntimeTypeOK, Exit PROVE RuntimeGrows
  OBVIOUS
<1> USE RuntimeParts DEF Exit
<1>1. RuntimeFlags'
  BY DEF RuntimeFlags
<1>2. RuntimePlaces' /\ minted' >= minted
  BY DEF RuntimePlaces
<1> QED BY <1>1, <1>2, RuntimePartsNext DEF RuntimeGrows

LEMMA DeadlineGrows == RuntimeTypeOK /\ Deadline => RuntimeGrows
<1> SUFFICES ASSUME RuntimeTypeOK, Deadline PROVE RuntimeGrows
  OBVIOUS
<1> USE RuntimeParts DEF Deadline
<1>1. RuntimeFlags'
  BY DEF RuntimeFlags
<1>2. RuntimePlaces' /\ minted' >= minted
  BY DEF RuntimePlaces
<1> QED BY <1>1, <1>2, RuntimePartsNext DEF RuntimeGrows

LEMMA RenewedGrows == RuntimeTypeOK /\ Renewed => RuntimeGrows
<1> SUFFICES ASSUME RuntimeTypeOK, Renewed PROVE RuntimeGrows
  OBVIOUS
<1> USE RuntimeParts DEF Renewed
<1>1. RuntimeFlags'
  BY DEF RuntimeFlags
<1>2. RuntimePlaces' /\ minted' >= minted
  BY DEF RuntimePlaces
<1> QED BY <1>1, <1>2, RuntimePartsNext DEF RuntimeGrows

LEMMA IdleGrows == RuntimeTypeOK /\ UNCHANGED runtimeVars => RuntimeGrows
<1> SUFFICES ASSUME RuntimeTypeOK, UNCHANGED runtimeVars PROVE RuntimeGrows
  OBVIOUS
<1> USE RuntimeParts DEF runtimeVars, executeVars
<1>1. RuntimeFlags'
  BY DEF RuntimeFlags
<1>2. RuntimePlaces' /\ minted' >= minted
  BY DEF RuntimePlaces
<1> QED BY <1>1, <1>2, RuntimePartsNext DEF RuntimeGrows

LEMMA ExecuteGrows ==
  ASSUME RuntimeTypeOK, NEW id \in 0..minted, Execute(id) PROVE RuntimeGrows
<1> USE RuntimeParts DEF Execute
<1>1. RuntimeFlags'
  BY DEF RuntimeFlags
<1>2. RuntimePlaces' /\ minted' >= minted
  BY DEF RuntimePlaces
<1> QED BY <1>1, <1>2, RuntimePartsNext DEF RuntimeGrows

-----------------------------------------------------------------------------
(* The parts of TypeOK. *)

Flags ==
  /\ registered \in BOOLEAN
  /\ new \in BOOLEAN
  /\ dirty \in BOOLEAN
  /\ loop \in BOOLEAN
  /\ flushed \in BOOLEAN
  /\ quiet \in BOOLEAN
Places ==
  /\ pc \in {"idle", "card", "exec", "after"}
  /\ queued \in 0..1
  /\ unfinished \in Nat
  /\ phase \in {"up", "feishu", "drain", "stop", "close", "last", "exited"}
Counts == count \in [Event -> Nat]
Ids ==
  /\ session \in 0..minted
  /\ mem \in 0..minted
  /\ disk \in 0..minted
  /\ owed \in 0..minted
  /\ forgot \in 0..minted
  /\ filed \in [owed : 0..minted, forgot : 0..minted]
  /\ kept \in 0..minted

LEMMA TypeParts == TypeOK <=> RuntimeTypeOK /\ Flags /\ Places /\ Counts /\ Ids
BY DEF TypeOK, Flags, Places, Counts, Ids

LEMMA TypePartsNext ==
  TypeOK' <=> RuntimeTypeOK' /\ Flags' /\ Places' /\ Counts' /\ Ids'
BY DEF TypeOK, Flags, Places, Counts, Ids

LEMMA CountedTypes ==
  ASSUME Counts, NEW e \in Event, Counted(e) PROVE Counts'
BY DEF Counts, Counted

LEMMA InitHolds == Init => IdentityInv
<1> SUFFICES ASSUME Init PROVE IdentityInv
  OBVIOUS
<1> USE DEF Init, NewRuntime
<1>1. RuntimeFlags /\ Flags
  BY DEF RuntimeFlags, Flags
<1>2. RuntimePlaces /\ Places /\ Counts
  BY DEF RuntimePlaces, Places, Counts
<1>3. Ids
  BY DEF Ids
<1>4. SourcesInv /\ FileInv /\ WorkerInv
  BY DEF SourcesInv, FileInv, WorkerInv, Held
<1> QED BY <1>1, <1>2, <1>3, <1>4, RuntimeParts, TypeParts DEF IdentityInv

-----------------------------------------------------------------------------
(* One lemma per action. *)

LEMMA EnqueueKeeps == IdentityInv /\ Enqueue => IdentityInv'
<1> SUFFICES ASSUME IdentityInv, Enqueue PROVE IdentityInv'
  OBVIOUS
<1> USE TypeParts, RuntimeParts
    DEF IdentityInv, Enqueue, runtimeVars, executeVars, workerVars, storeVars, lifeVars, historyVars
<1>1. RuntimeGrows
  BY IdleGrows
<1>2. Flags'
  BY DEF Flags
<1>3. Counts'
  BY CountedTypes DEF Counts, Event
<1>4. Places' /\ WorkerInv'
  BY DEF Places, WorkerInv, RuntimePlaces
<1>5. Ids'
  BY <1>1 DEF Ids, RuntimeGrows, RuntimePlaces
<1>6. SourcesInv'
  BY DEF SourcesInv, Held, Ids, RuntimePlaces, WorkerInv
<1>7. FileInv'
  BY DEF FileInv, SourcesInv, Ids, RuntimePlaces, Places
<1> QED BY <1>1, <1>2, <1>3, <1>4, <1>5, <1>6, <1>7, TypePartsNext DEF RuntimeGrows

LEMMA TakeKeeps == IdentityInv /\ Take => IdentityInv'
<1> SUFFICES ASSUME IdentityInv, Take PROVE IdentityInv'
  OBVIOUS
<1> USE TypeParts, RuntimeParts
    DEF IdentityInv, Take, runtimeVars, executeVars, workerVars, storeVars, lifeVars, historyVars
<1>1. RuntimeGrows
  BY IdleGrows
<1>2. Flags'
  BY DEF Flags
<1>3. Counts'
  BY DEF Counts
<1>4. Places' /\ WorkerInv'
  BY DEF Places, WorkerInv, RuntimePlaces
<1>5. Ids'
  BY <1>1 DEF Ids, RuntimeGrows, RuntimePlaces
<1>6. SourcesInv'
  BY DEF SourcesInv, Held, Ids, RuntimePlaces, WorkerInv
<1>7. FileInv'
  BY DEF FileInv, SourcesInv, Ids, RuntimePlaces, Places
<1> QED BY <1>1, <1>2, <1>3, <1>4, <1>5, <1>6, <1>7, TypePartsNext DEF RuntimeGrows

LEMMA BeginKeeps == IdentityInv /\ Begin => IdentityInv'
<1> SUFFICES ASSUME IdentityInv, Begin PROVE IdentityInv'
  OBVIOUS
<1> USE TypeParts, RuntimeParts
    DEF IdentityInv, Begin, Execute, Resumable, Remembered, runtimeVars, executeVars, workerVars, storeVars, lifeVars, historyVars
<1>1. RuntimeGrows
  <2>1. Resumable \in 0..minted
    BY DEF RuntimePlaces, Ids
  <2> QED BY <2>1, ExecuteGrows
<1>2. Flags'
  BY DEF Flags
<1>3. Counts'
  BY DEF Counts
<1>4. Places' /\ WorkerInv'
  BY DEF Places, WorkerInv, RuntimePlaces
<1>5. Ids'
  BY <1>1 DEF Ids, RuntimeGrows, RuntimePlaces
<1>6. SourcesInv'
  BY DEF SourcesInv, Held, Ids, RuntimePlaces, WorkerInv
<1>7. FileInv'
  BY DEF FileInv, SourcesInv, Ids, RuntimePlaces, Places
<1> QED BY <1>1, <1>2, <1>3, <1>4, <1>5, <1>6, <1>7, TypePartsNext DEF RuntimeGrows

LEMMA ReturnKeeps == IdentityInv /\ Return => IdentityInv'
<1> SUFFICES ASSUME IdentityInv, Return PROVE IdentityInv'
  OBVIOUS
<1> USE TypeParts, RuntimeParts
    DEF IdentityInv, Return, Learned, Save, Result, Interrupted, Eof, Ended, Undisturbed, Reading, runtimeVars, executeVars, workerVars, storeVars, lifeVars, historyVars
<1>1. RuntimeGrows
  BY ResultGrows, InterruptedGrows, EofGrows
<1>2. Flags'
  BY DEF Flags
<1>3. Counts'
  BY DEF Counts
<1>4. Places' /\ WorkerInv'
  BY DEF Places, WorkerInv, RuntimePlaces
<1>5. Ids'
  BY <1>1 DEF Ids, RuntimeGrows, RuntimePlaces
<1>6. SourcesInv'
  BY DEF SourcesInv, Held, Ids, RuntimePlaces, WorkerInv
<1>7. FileInv'
  BY DEF FileInv, SourcesInv, Ids, RuntimePlaces, Places
<1> QED BY <1>1, <1>2, <1>3, <1>4, <1>5, <1>6, <1>7, TypePartsNext DEF RuntimeGrows

LEMMA RaiseKeeps == IdentityInv /\ Raise => IdentityInv'
<1> SUFFICES ASSUME IdentityInv, Raise PROVE IdentityInv'
  OBVIOUS
<1> USE TypeParts, RuntimeParts
    DEF IdentityInv, Raise, Result, Broken, Ended, Undisturbed, Reading, runtimeVars, executeVars, workerVars, storeVars, lifeVars, historyVars
<1>1. RuntimeGrows
  BY ResultGrows, BrokenGrows
<1>2. Flags'
  BY DEF Flags
<1>3. Counts'
  BY DEF Counts
<1>4. Places' /\ WorkerInv'
  BY DEF Places, WorkerInv, RuntimePlaces
<1>5. Ids'
  BY <1>1 DEF Ids, RuntimeGrows, RuntimePlaces
<1>6. SourcesInv'
  BY DEF SourcesInv, Held, Ids, RuntimePlaces, WorkerInv
<1>7. FileInv'
  BY DEF FileInv, SourcesInv, Ids, RuntimePlaces, Places
<1> QED BY <1>1, <1>2, <1>3, <1>4, <1>5, <1>6, <1>7, TypePartsNext DEF RuntimeGrows

LEMMA TimeOutKeeps == IdentityInv /\ TimeOut => IdentityInv'
<1> SUFFICES ASSUME IdentityInv, TimeOut PROVE IdentityInv'
  OBVIOUS
<1> USE TypeParts, RuntimeParts
    DEF IdentityInv, TimeOut, Overtime, Ended, Reading, runtimeVars, executeVars, workerVars, storeVars, lifeVars, historyVars
<1>1. RuntimeGrows
  BY OvertimeGrows
<1>2. Flags'
  BY DEF Flags
<1>3. Counts'
  BY DEF Counts
<1>4. Places' /\ WorkerInv'
  BY DEF Places, WorkerInv, RuntimePlaces
<1>5. Ids'
  BY <1>1 DEF Ids, RuntimeGrows, RuntimePlaces
<1>6. SourcesInv'
  BY DEF SourcesInv, Held, Ids, RuntimePlaces, WorkerInv
<1>7. FileInv'
  BY DEF FileInv, SourcesInv, Ids, RuntimePlaces, Places
<1> QED BY <1>1, <1>2, <1>3, <1>4, <1>5, <1>6, <1>7, TypePartsNext DEF RuntimeGrows

LEMMA FinalSentKeeps == IdentityInv /\ FinalSent => IdentityInv'
<1> SUFFICES ASSUME IdentityInv, FinalSent PROVE IdentityInv'
  OBVIOUS
<1> USE TypeParts, RuntimeParts
    DEF IdentityInv, FinalSent, runtimeVars, executeVars, workerVars, storeVars, lifeVars, historyVars
<1>1. RuntimeGrows
  BY IdleGrows
<1>2. Flags'
  BY DEF Flags
<1>3. Counts'
  BY DEF Counts
<1>4. Places' /\ WorkerInv'
  BY DEF Places, WorkerInv, RuntimePlaces
<1>5. Ids'
  BY <1>1 DEF Ids, RuntimeGrows, RuntimePlaces
<1>6. SourcesInv'
  BY DEF SourcesInv, Held, Ids, RuntimePlaces, WorkerInv
<1>7. FileInv'
  BY DEF FileInv, SourcesInv, Ids, RuntimePlaces, Places
<1> QED BY <1>1, <1>2, <1>3, <1>4, <1>5, <1>6, <1>7, TypePartsNext DEF RuntimeGrows

LEMMA InsideKeeps == IdentityInv /\ Inside => IdentityInv'
<1> SUFFICES ASSUME IdentityInv, Inside PROVE IdentityInv'
  OBVIOUS
<1> USE TypeParts, RuntimeParts
    DEF IdentityInv, Inside, Spawned, Fed, System, Exit, Deadline, Undisturbed, Reading, runtimeVars, executeVars, workerVars, storeVars, lifeVars, historyVars
<1>1. RuntimeGrows
  BY SpawnedGrows, FedGrows, SystemGrows, ExitGrows, DeadlineGrows
<1>2. Flags'
  BY DEF Flags
<1>3. Counts'
  BY DEF Counts
<1>4. Places' /\ WorkerInv'
  BY DEF Places, WorkerInv, RuntimePlaces
<1>5. Ids'
  BY <1>1 DEF Ids, RuntimeGrows, RuntimePlaces
<1>6. SourcesInv'
  BY DEF SourcesInv, Held, Ids, RuntimePlaces, WorkerInv
<1>7. FileInv'
  BY DEF FileInv, SourcesInv, Ids, RuntimePlaces, Places
<1> QED BY <1>1, <1>2, <1>3, <1>4, <1>5, <1>6, <1>7, TypePartsNext DEF RuntimeGrows

LEMMA NewBeginKeeps == IdentityInv /\ NewBegin => IdentityInv'
<1> SUFFICES ASSUME IdentityInv, NewBegin PROVE IdentityInv'
  OBVIOUS
<1> USE TypeParts, RuntimeParts
    DEF IdentityInv, NewBegin, runtimeVars, executeVars, workerVars, storeVars, lifeVars, historyVars
<1>1. RuntimeGrows
  <2>1. RuntimeFlags'
    BY DEF RuntimeFlags
  <2>2. RuntimePlaces' /\ minted' >= minted
    BY DEF RuntimePlaces
  <2> QED BY <2>1, <2>2, RuntimePartsNext DEF RuntimeGrows
<1>2. Flags'
  BY DEF Flags
<1>3. Counts'
  BY CountedTypes DEF Counts, Event
<1>4. Places' /\ WorkerInv'
  BY DEF Places, WorkerInv, RuntimePlaces
<1>5. Ids'
  BY <1>1 DEF Ids, RuntimeGrows, RuntimePlaces
<1>6. SourcesInv'
  BY DEF SourcesInv, Held, Ids, RuntimePlaces, WorkerInv
<1>7. FileInv'
  BY DEF FileInv, SourcesInv, Ids, RuntimePlaces, Places
<1> QED BY <1>1, <1>2, <1>3, <1>4, <1>5, <1>6, <1>7, TypePartsNext DEF RuntimeGrows

LEMMA NewEndKeeps == IdentityInv /\ NewEnd => IdentityInv'
<1> SUFFICES ASSUME IdentityInv, NewEnd PROVE IdentityInv'
  OBVIOUS
<1> USE TypeParts, RuntimeParts
    DEF IdentityInv, NewEnd, Save, runtimeVars, executeVars, workerVars, storeVars, lifeVars, historyVars
<1>1. RuntimeGrows
  BY IdleGrows
<1>2. Flags'
  BY DEF Flags
<1>3. Counts'
  BY DEF Counts
<1>4. Places' /\ WorkerInv'
  BY DEF Places, WorkerInv, RuntimePlaces
<1>5. Ids'
  BY <1>1 DEF Ids, RuntimeGrows, RuntimePlaces
<1>6. SourcesInv'
  BY DEF SourcesInv, Held, Ids, RuntimePlaces, WorkerInv
<1>7. FileInv'
  BY DEF FileInv, SourcesInv, Ids, RuntimePlaces, Places
<1> QED BY <1>1, <1>2, <1>3, <1>4, <1>5, <1>6, <1>7, TypePartsNext DEF RuntimeGrows

LEMMA StopCommandKeeps == IdentityInv /\ StopCommand => IdentityInv'
<1> SUFFICES ASSUME IdentityInv, StopCommand PROVE IdentityInv'
  OBVIOUS
<1> USE TypeParts, RuntimeParts
    DEF IdentityInv, StopCommand, Cancel, Terminate, runtimeVars, executeVars, workerVars, storeVars, lifeVars, historyVars
<1>1. RuntimeGrows
  BY CancelGrows
<1>2. Flags'
  BY DEF Flags
<1>3. Counts'
  BY CountedTypes DEF Counts, Event
<1>4. Places' /\ WorkerInv'
  BY DEF Places, WorkerInv, RuntimePlaces
<1>5. Ids'
  BY <1>1 DEF Ids, RuntimeGrows, RuntimePlaces
<1>6. SourcesInv'
  BY DEF SourcesInv, Held, Ids, RuntimePlaces, WorkerInv
<1>7. FileInv'
  BY DEF FileInv, SourcesInv, Ids, RuntimePlaces, Places
<1> QED BY <1>1, <1>2, <1>3, <1>4, <1>5, <1>6, <1>7, TypePartsNext DEF RuntimeGrows

LEMMA DoneCommandKeeps == IdentityInv /\ DoneCommand => IdentityInv'
<1> SUFFICES ASSUME IdentityInv, DoneCommand PROVE IdentityInv'
  OBVIOUS
<1> USE TypeParts, RuntimeParts
    DEF IdentityInv, DoneCommand, Cancel, Terminate, runtimeVars, executeVars, workerVars, storeVars, lifeVars, historyVars
<1>1. RuntimeGrows
  BY CancelGrows, IdleGrows
<1>2. Flags'
  BY DEF Flags
<1>3. Counts'
  BY CountedTypes DEF Counts, Event
<1>4. Places' /\ WorkerInv'
  BY DEF Places, WorkerInv, RuntimePlaces
<1>5. Ids'
  BY <1>1 DEF Ids, RuntimeGrows, RuntimePlaces
<1>6. SourcesInv'
  BY DEF SourcesInv, Held, Ids, RuntimePlaces, WorkerInv
<1>7. FileInv'
  BY DEF FileInv, SourcesInv, Ids, RuntimePlaces, Places
<1> QED BY <1>1, <1>2, <1>3, <1>4, <1>5, <1>6, <1>7, TypePartsNext DEF RuntimeGrows

LEMMA ReapKeeps == IdentityInv /\ Reap => IdentityInv'
<1> SUFFICES ASSUME IdentityInv, Reap PROVE IdentityInv'
  OBVIOUS
<1> USE TypeParts, RuntimeParts
    DEF IdentityInv, Reap, Stop, Terminate, runtimeVars, executeVars, workerVars, storeVars, lifeVars, historyVars
<1>1. RuntimeGrows
  BY StopGrows
<1>2. Flags'
  BY DEF Flags
<1>3. Counts'
  BY DEF Counts
<1>4. Places' /\ WorkerInv'
  BY DEF Places, WorkerInv, RuntimePlaces
<1>5. Ids'
  BY <1>1 DEF Ids, RuntimeGrows, RuntimePlaces
<1>6. SourcesInv'
  BY DEF SourcesInv, Held, Ids, RuntimePlaces, WorkerInv
<1>7. FileInv'
  BY DEF FileInv, SourcesInv, Ids, RuntimePlaces, Places
<1> QED BY <1>1, <1>2, <1>3, <1>4, <1>5, <1>6, <1>7, TypePartsNext DEF RuntimeGrows

LEMMA DebounceKeeps == IdentityInv /\ Debounce => IdentityInv'
<1> SUFFICES ASSUME IdentityInv, Debounce PROVE IdentityInv'
  OBVIOUS
<1> USE TypeParts, RuntimeParts
    DEF IdentityInv, Debounce, Flush, runtimeVars, executeVars, workerVars, storeVars, lifeVars, historyVars
<1>1. RuntimeGrows
  BY IdleGrows
<1>2. Flags'
  BY DEF Flags
<1>3. Counts'
  BY CountedTypes DEF Counts, Event
<1>4. Places' /\ WorkerInv'
  BY DEF Places, WorkerInv, RuntimePlaces
<1>5. Ids'
  <2>1. CASE Flush
    BY <1>1, <2>1 DEF Ids, RuntimeGrows, RuntimePlaces
  <2>2. CASE UNCHANGED <<mem, dirty, disk, filed>>
    BY <1>1, <2>2 DEF Ids, RuntimeGrows, RuntimePlaces
  <2> QED BY <2>1, <2>2
<1>6. SourcesInv'
  BY DEF SourcesInv, Held, Ids, RuntimePlaces, WorkerInv
<1>7. FileInv'
  <2>1. CASE Flush
    BY <2>1 DEF FileInv, SourcesInv, Ids, RuntimePlaces, Places
  <2>2. CASE UNCHANGED <<mem, dirty, disk, filed>>
    BY <2>2 DEF FileInv
  <2> QED BY <2>1, <2>2
<1> QED BY <1>1, <1>2, <1>3, <1>4, <1>5, <1>6, <1>7, TypePartsNext DEF RuntimeGrows

LEMMA SignalKeeps == IdentityInv /\ Signal => IdentityInv'
<1> SUFFICES ASSUME IdentityInv, Signal PROVE IdentityInv'
  OBVIOUS
<1> USE TypeParts, RuntimeParts
    DEF IdentityInv, Signal, runtimeVars, executeVars, workerVars, storeVars, lifeVars, historyVars
<1>1. RuntimeGrows
  BY IdleGrows
<1>2. Flags'
  BY DEF Flags
<1>3. Counts'
  BY DEF Counts
<1>4. Places' /\ WorkerInv'
  BY DEF Places, WorkerInv, RuntimePlaces
<1>5. Ids'
  BY <1>1 DEF Ids, RuntimeGrows, RuntimePlaces
<1>6. SourcesInv'
  BY DEF SourcesInv, Held, Ids, RuntimePlaces, WorkerInv
<1>7. FileInv'
  BY DEF FileInv, SourcesInv, Ids, RuntimePlaces, Places
<1> QED BY <1>1, <1>2, <1>3, <1>4, <1>5, <1>6, <1>7, TypePartsNext DEF RuntimeGrows

LEMMA StopAllKeeps == IdentityInv /\ StopAll /\ phase \in {"feishu", "drain"} => IdentityInv'
<1> SUFFICES ASSUME IdentityInv, StopAll /\ phase \in {"feishu", "drain"} PROVE IdentityInv'
  OBVIOUS
<1> USE TypeParts, RuntimeParts
    DEF IdentityInv, StopAll, Stop, Terminate, runtimeVars, executeVars, workerVars, storeVars, lifeVars, historyVars
<1>1. RuntimeGrows
  BY StopGrows, IdleGrows
<1>2. Flags'
  BY DEF Flags
<1>3. Counts'
  BY DEF Counts
<1>4. Places' /\ WorkerInv'
  BY DEF Places, WorkerInv, RuntimePlaces
<1>5. Ids'
  BY <1>1 DEF Ids, RuntimeGrows, RuntimePlaces
<1>6. SourcesInv'
  BY DEF SourcesInv, Held, Ids, RuntimePlaces, WorkerInv
<1>7. FileInv'
  BY DEF FileInv, SourcesInv, Ids, RuntimePlaces, Places
<1> QED BY <1>1, <1>2, <1>3, <1>4, <1>5, <1>6, <1>7, TypePartsNext DEF RuntimeGrows

LEMMA FeishuStoppedKeeps == IdentityInv /\ FeishuStopped => IdentityInv'
<1> SUFFICES ASSUME IdentityInv, FeishuStopped PROVE IdentityInv'
  OBVIOUS
<1>1. CASE queued = 0
  BY <1>1, StopAllKeeps DEF FeishuStopped
<1>2. CASE queued # 0
  <2> USE <1>2, TypeParts, RuntimeParts
      DEF IdentityInv, FeishuStopped, runtimeVars, executeVars, workerVars, storeVars, lifeVars, historyVars
  <2>1. RuntimeGrows
    BY IdleGrows
  <2>2. Flags' /\ Counts'
    BY DEF Flags, Counts
  <2>3. Places' /\ WorkerInv'
    BY DEF Places, WorkerInv
  <2>4. Ids' /\ SourcesInv' /\ FileInv'
    BY DEF Ids, SourcesInv, FileInv, Held
  <2> QED BY <2>1, <2>2, <2>3, <2>4, TypePartsNext DEF RuntimeGrows
<1> QED BY <1>1, <1>2

LEMMA RuntimesStoppedKeeps == IdentityInv /\ RuntimesStopped => IdentityInv'
<1> SUFFICES ASSUME IdentityInv, RuntimesStopped PROVE IdentityInv'
  OBVIOUS
<1> USE TypeParts, RuntimeParts
    DEF IdentityInv, RuntimesStopped, runtimeVars, executeVars, workerVars, storeVars, lifeVars, historyVars
<1>1. RuntimeGrows
  BY IdleGrows
<1>2. Flags'
  BY DEF Flags
<1>3. Counts'
  BY DEF Counts
<1>4. Places' /\ WorkerInv'
  BY DEF Places, WorkerInv, RuntimePlaces
<1>5. Ids'
  BY <1>1 DEF Ids, RuntimeGrows, RuntimePlaces
<1>6. SourcesInv'
  BY DEF SourcesInv, Held, Ids, RuntimePlaces, WorkerInv
<1>7. FileInv'
  BY DEF FileInv, SourcesInv, Ids, RuntimePlaces, Places
<1> QED BY <1>1, <1>2, <1>3, <1>4, <1>5, <1>6, <1>7, TypePartsNext DEF RuntimeGrows

LEMMA StoreStoppedKeeps == IdentityInv /\ StoreStopped => IdentityInv'
<1> SUFFICES ASSUME IdentityInv, StoreStopped PROVE IdentityInv'
  OBVIOUS
<1> USE TypeParts, RuntimeParts
    DEF IdentityInv, StoreStopped, Flush, runtimeVars, executeVars, workerVars, storeVars, lifeVars, historyVars
<1>1. RuntimeGrows
  BY IdleGrows
<1>2. Flags'
  BY DEF Flags
<1>3. Counts'
  BY CountedTypes DEF Counts, Event
<1>4. Places' /\ WorkerInv'
  BY DEF Places, WorkerInv, RuntimePlaces
<1>5. Ids'
  BY <1>1 DEF Ids, RuntimeGrows, RuntimePlaces
<1>6. SourcesInv'
  BY DEF SourcesInv, Held, Ids, RuntimePlaces, WorkerInv
<1>7. FileInv'
  BY DEF FileInv, SourcesInv, Ids, RuntimePlaces, Places
<1> QED BY <1>1, <1>2, <1>3, <1>4, <1>5, <1>6, <1>7, TypePartsNext DEF RuntimeGrows

LEMMA ExitedKeeps == IdentityInv /\ Exited => IdentityInv'
<1> SUFFICES ASSUME IdentityInv, Exited PROVE IdentityInv'
  OBVIOUS
<1> USE TypeParts, RuntimeParts
    DEF IdentityInv, Exited, runtimeVars, executeVars, workerVars, storeVars, lifeVars, historyVars
<1>1. RuntimeGrows
  BY IdleGrows
<1>2. Flags'
  BY DEF Flags
<1>3. Counts'
  BY DEF Counts
<1>4. Places' /\ WorkerInv'
  BY DEF Places, WorkerInv, RuntimePlaces
<1>5. Ids'
  BY <1>1 DEF Ids, RuntimeGrows, RuntimePlaces
<1>6. SourcesInv'
  BY DEF SourcesInv, Held, Ids, RuntimePlaces, WorkerInv
<1>7. FileInv'
  BY DEF FileInv, SourcesInv, Ids, RuntimePlaces, Places
<1> QED BY <1>1, <1>2, <1>3, <1>4, <1>5, <1>6, <1>7, TypePartsNext DEF RuntimeGrows

LEMMA RestartKeeps == IdentityInv /\ Restart => IdentityInv'
<1> SUFFICES ASSUME IdentityInv, Restart PROVE IdentityInv'
  OBVIOUS
<1> USE TypeParts, RuntimeParts
    DEF IdentityInv, Restart, Renewed, runtimeVars, executeVars, workerVars, storeVars, lifeVars, historyVars
<1>1. RuntimeGrows
  BY RenewedGrows
<1>2. Flags'
  BY DEF Flags
<1>3. Counts'
  BY CountedTypes DEF Counts, Event
<1>4. Places' /\ WorkerInv'
  BY DEF Places, WorkerInv, RuntimePlaces
<1>5. Ids'
  BY <1>1 DEF Ids, RuntimeGrows, RuntimePlaces
<1>6. SourcesInv'
  <2>1. CASE flushed
    BY <2>1 DEF SourcesInv, Held, FileInv, Ids
  <2>2. CASE ~flushed
    BY <2>2 DEF SourcesInv, Held, FileInv, Ids
  <2> QED BY <2>1, <2>2
<1>7. FileInv'
  BY DEF FileInv, SourcesInv, Ids, RuntimePlaces, Places
<1> QED BY <1>1, <1>2, <1>3, <1>4, <1>5, <1>6, <1>7, TypePartsNext DEF RuntimeGrows

LEMMA StutterKeeps == IdentityInv /\ UNCHANGED vars => IdentityInv'
<1> SUFFICES ASSUME IdentityInv, UNCHANGED vars PROVE IdentityInv'
  OBVIOUS
<1> USE TypeParts, RuntimeParts
    DEF IdentityInv, vars, runtimeVars, executeVars, workerVars, storeVars, lifeVars, historyVars
<1>1. RuntimeGrows
  BY IdleGrows
<1>2. Flags'
  BY DEF Flags
<1>3. Counts'
  BY DEF Counts
<1>4. Places' /\ WorkerInv'
  BY DEF Places, WorkerInv, RuntimePlaces
<1>5. Ids'
  BY <1>1 DEF Ids, RuntimeGrows, RuntimePlaces
<1>6. SourcesInv'
  BY DEF SourcesInv, Held, Ids, RuntimePlaces, WorkerInv
<1>7. FileInv'
  BY DEF FileInv, SourcesInv, Ids, RuntimePlaces, Places
<1> QED BY <1>1, <1>2, <1>3, <1>4, <1>5, <1>6, <1>7, TypePartsNext DEF RuntimeGrows

LEMMA DrainedKeeps == IdentityInv /\ Drained => IdentityInv'
BY StopAllKeeps DEF Drained

LEMMA StepKeeps == IdentityInv /\ [Next]_vars => IdentityInv'
<1> SUFFICES ASSUME IdentityInv, [Next]_vars PROVE IdentityInv'
  OBVIOUS
<1>1. CASE WorkerStep
  BY <1>1, TakeKeeps, BeginKeeps, FinalSentKeeps DEF WorkerStep
<1>2. CASE ExecuteStep
  BY <1>2, InsideKeeps, ReturnKeeps, RaiseKeeps, TimeOutKeeps DEF ExecuteStep
<1>3. CASE ShutdownStep
  BY <1>3, FeishuStoppedKeeps, DrainedKeeps, RuntimesStoppedKeeps,
     StoreStoppedKeeps, ExitedKeeps DEF ShutdownStep
<1>4. CASE Enqueue \/ NewBegin \/ NewEnd \/ StopCommand \/ DoneCommand
  BY <1>4, EnqueueKeeps, NewBeginKeeps, NewEndKeeps, StopCommandKeeps,
     DoneCommandKeeps
<1>5. CASE Reap \/ Debounce \/ Signal \/ Restart
  BY <1>5, ReapKeeps, DebounceKeeps, SignalKeeps, RestartKeeps
<1>6. CASE UNCHANGED vars
  BY <1>6, StutterKeeps
<1> QED BY <1>1, <1>2, <1>3, <1>4, <1>5, <1>6 DEF Next

-----------------------------------------------------------------------------
(* The theorems. *)

\* Every place the id of a conversation can be taken from (runtime object,
\* running process, store, file) is at least as new as what the next task is
\* owed, and newer than what a /new has put an end to: with any number of
\* tasks, commands, failing writes and restarts.
THEOREM Inductive == Spec => []IdentityInv
<1>1. Init => IdentityInv
  BY InitHolds
<1>2. IdentityInv /\ [Next]_vars => IdentityInv'
  BY StepKeeps
<1> QED BY <1>1, <1>2, PTL DEF Spec

\* A task goes on from the newest conversation that it must not lose, after
\* a janitor, a timeout, a failed task or a restart in between.
THEOREM Resumes == Spec => []ResumesLatest
<1>1. IdentityInv => ResumesLatest
  BY DEF IdentityInv, SourcesInv, ResumesLatest
<1> QED BY <1>1, Inductive, PTL

\* After a /new during which nothing was executed no task goes on with a
\* conversation from before it.
THEOREM Forgets == Spec => []NewForgets
<1>1. IdentityInv => NewForgets
  BY DEF IdentityInv, SourcesInv, NewForgets
<1> QED BY <1>1, Inductive, PTL

=============================================================================
