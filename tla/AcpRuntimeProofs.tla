-------------------------- MODULE AcpRuntimeProofs --------------------------
(***************************************************************************)
(* Proofs about AcpRuntime: its types, and the invariant on ids, turns and *)
(* the order of messages behind TextOwn, AnswerOwn, PromptWakes and        *)
(* NoOrphan.                                                               *)
(***************************************************************************)
EXTENDS AcpRuntime, QueueFacts

USE RuntimeAssumption

-----------------------------------------------------------------------------
(* Types *)

\* The variables that are TRUE or FALSE, and the others.
FlagsOK == listed \in BOOLEAN /\ ready \in BOOLEAN /\ resumed \in BOOLEAN

ObjectOK ==
  /\ at \in {"idle", "ensure", "init", "load", "new", "prompt", "perm",
             "evict"}
  /\ proc \in own \cup {0}
  /\ spawned \in 0..MaxProc
  /\ own \subseteq 1..spawned
  /\ alive \subseteq 1..spawned
  /\ reading \subseteq 1..spawned
  /\ ids \in Nat
  /\ waitId \in Nat
  /\ turn \in Turn
  /\ shownAsk \in Turn
  /\ text \subseteq Turn
  /\ cut \subseteq Turn

QueuesOK ==
  /\ pipe \in [Proc -> Seq(Message)]
  /\ duty \in [Proc -> SUBSET Request]
  /\ inbox \in Seq(Message)
  /\ stash \in Seq(Message)
  /\ stash # <<>> => Waiting

LEMMA TypeParts == TypeOK <=> FlagsOK /\ ObjectOK /\ QueuesOK
<1>1. {listed, ready, resumed} \subseteq BOOLEAN <=> FlagsOK
  BY Zenon DEF FlagsOK
<1>2. {ids, waitId} \subseteq Nat <=> ids \in Nat /\ waitId \in Nat
  BY Zenon
<1>3. {inbox, stash} \subseteq Seq(Message)
        <=> inbox \in Seq(Message) /\ stash \in Seq(Message)
  BY Zenon
<1>4. {turn, shownAsk} \subseteq Turn <=> turn \in Turn /\ shownAsk \in Turn
  BY Zenon
<1>5. own \cup alive \cup reading \subseteq 1..spawned
        <=> /\ own \subseteq 1..spawned
            /\ alive \subseteq 1..spawned
            /\ reading \subseteq 1..spawned
  BY Zenon
<1>6. text \cup cut \subseteq Turn <=> text \subseteq Turn /\ cut \subseteq Turn
  BY Zenon
<1> QED BY <1>1, <1>2, <1>3, <1>4, <1>5, <1>6, Zenon DEF TypeOK, ObjectOK, QueuesOK

LEMMA InitTypes == Init => FlagsOK /\ ObjectOK /\ QueuesOK
<1> SUFFICES ASSUME Init PROVE FlagsOK /\ ObjectOK /\ QueuesOK
  OBVIOUS
<1>1. FlagsOK
  BY DEF Init, FlagsOK
<1>2. ObjectOK
  BY DEF Init, ObjectOK, Turn
<1>3. QueuesOK
  BY DEF Init, QueuesOK
<1> QED BY <1>1, <1>2, <1>3

\* The requests a client sends, and what Send does to the types.
LEMMA ReqType ==
  ASSUME ObjectOK, NEW k \in {"initialize", "session", "prompt"}
  PROVE  /\ Req(k) \in Request /\ Req(k).id = ids + 1 /\ Req(k).kind = k
         /\ k # "prompt" => Req(k).turn = 0
BY DEF ObjectOK, Req, Request, Turn

LEMMA SendTypes ==
  ASSUME ObjectOK, QueuesOK, NEW r \in Request, Send(r)
  PROVE  ids' \in Nat /\ waitId' \in Nat /\ duty' \in [Proc -> SUBSET Request]
<1>1. proc \in Proc /\ ids' = ids + 1 /\ waitId' = ids + 1
  BY DEF Send, Post, ObjectOK, Proc
<1>2. duty' = [duty EXCEPT ![proc] = IF proc \in alive THEN @ \cup {r} ELSE @]
  BY DEF Send, Post
<1>3. duty' \in [Proc -> SUBSET Request]
  BY <1>1, <1>2 DEF QueuesOK
<1> QED BY <1>1, <1>3 DEF ObjectOK

LEMMA SendAndCancelTypes ==
  ASSUME ObjectOK, QueuesOK, NEW r \in Request, SendAndCancel(r)
  PROVE  duty' \in [Proc -> SUBSET Request]
<1>1. proc \in Proc
  BY DEF SendAndCancel, Post, ObjectOK, Proc
<1> QED BY <1>1 DEF SendAndCancel, Post, QueuesOK

LEMMA StopTypes ==
  ASSUME ObjectOK, QueuesOK, StopObject
  PROVE  /\ proc' = 0
         /\ ready' \in BOOLEAN
         /\ alive' \subseteq alive
         /\ reading' \subseteq reading
         /\ pipe' \in [Proc -> Seq(Message)]
         /\ duty' \in [Proc -> SUBSET Request]
<1>1. proc' = 0 /\ ready' = FALSE
      /\ alive' = alive \ {proc} /\ reading' = reading \ {proc}
  BY DEF StopObject
<1>2. pipe' \in [Proc -> Seq(Message)]
  BY DEF StopObject, QueuesOK
<1>3. duty' \in [Proc -> SUBSET Request]
  BY DEF StopObject, QueuesOK
<1> QED BY <1>1, <1>2, <1>3

LEMMA RemoveTypes ==
  ASSUME FlagsOK, ObjectOK, QueuesOK, RegistryRemove
  PROVE  /\ proc' \in {proc, 0}
         /\ ready' \in BOOLEAN /\ listed' = FALSE
         /\ alive' \subseteq alive
         /\ reading' \subseteq reading
         /\ pipe' \in [Proc -> Seq(Message)]
         /\ duty' \in [Proc -> SUBSET Request]
<1>1. listed' = FALSE
  BY DEF RegistryRemove
<1>2. CASE listed
  <2>1. StopObject
    BY <1>2 DEF RegistryRemove
  <2> QED BY <2>1, <1>1, StopTypes
<1>3. CASE ~listed
  <2>1. UNCHANGED <<proc, ready, reading, alive, pipe, duty>>
    BY <1>3 DEF RegistryRemove
  <2> QED BY <2>1, <1>1 DEF FlagsOK, QueuesOK
<1> QED BY <1>2, <1>3

\* Taking a message, or putting those set aside back.
LEMMA TakeTypes ==
  ASSUME QueuesOK, inbox # <<>>
  PROVE  /\ Head(inbox) \in Message /\ Tail(inbox) \in Seq(Message)
         /\ Head(inbox).turn \in Turn
         /\ Append(stash, Head(inbox)) \in Seq(Message)
<1>1. Head(inbox) \in Message /\ Tail(inbox) \in Seq(Message)
  BY TailFacts DEF QueuesOK
<1>2. Append(stash, Head(inbox)) \in Seq(Message)
  BY <1>1 DEF QueuesOK
<1> QED BY <1>1, <1>2 DEF Message

LEMMA RequeueTypes ==
  ASSUME QueuesOK, NEW q \in Seq(Message), Requeue(q)
  PROVE  inbox' \in Seq(Message) /\ stash' = <<>>
BY DEF QueuesOK, Requeue

LEMMA FlagsStep == FlagsOK /\ [Next]_vars => FlagsOK'
<1> SUFFICES ASSUME FlagsOK, [Next]_vars PROVE FlagsOK'
  OBVIOUS
<1>1. CASE Begin
  BY <1>1 DEF Begin, FlagsOK
<1>2. CASE AlreadyReady \/ Spawn \/ SpawnFails
  BY <1>2 DEF AlreadyReady, Spawn, SpawnFails, objectVars, FlagsOK
<1>3. CASE SetAside
  BY <1>3 DEF SetAside, objectVars, FlagsOK
<1>4. CASE Replied
  <2>1. ready' \in BOOLEAN
    BY <1>4 DEF Replied, FlagsOK
  <2>2. resumed' \in BOOLEAN
    BY <1>4 DEF Replied, FlagsOK
  <2>3. listed' \in BOOLEAN
    BY <1>4 DEF Replied, FlagsOK
  <2> QED BY <2>1, <2>2, <2>3 DEF FlagsOK
<1>5. CASE NotReplied
  BY <1>5 DEF NotReplied, objectVars, FlagsOK
<1>6. CASE WaitTimeout
  <2>1. ready' = ready \/ ready' = FALSE
    BY <1>6 DEF WaitTimeout, StopObject
  <2>2. resumed' \in BOOLEAN
    BY <1>6 DEF WaitTimeout, FlagsOK
  <2>3. listed' = listed
    BY <1>6 DEF WaitTimeout
  <2> QED BY <2>1, <2>2, <2>3 DEF FlagsOK
<1>7. CASE HandleMessage \/ Answered \/ PermissionCancelled \/ Deadline
  BY <1>7 DEF HandleMessage, PromptReplied, PromptEof, PromptUpdate, PromptAsks,
     Answered, PermissionCancelled, Deadline, objectVars, FlagsOK
<1>8. CASE Evict \/ Remove
  <2>1. listed' = FALSE /\ (ready' = ready \/ ready' = FALSE)
    BY <1>8 DEF Evict, Remove, RegistryRemove, StopObject
  <2>2. resumed' = resumed
    BY <1>8 DEF Evict, Remove
  <2> QED BY <2>1, <2>2 DEF FlagsOK
<1>9. ASSUME NEW p \in Proc, Agent(p) \/ Die(p) \/ Reader(p) \/ ReadBreaks(p)
      PROVE  FlagsOK'
  BY <1>9 DEF Agent, Die, Reader, Read, ReadEof, ReadBreaks, ReaderEnds, objectVars, FlagsOK
<1>10. CASE UNCHANGED vars
  BY <1>10 DEF vars, objectVars, FlagsOK
<1> QED BY <1>1, <1>2, <1>3, <1>4, <1>5, <1>6, <1>7, <1>8, <1>9, <1>10
        DEF Next, EnsureReady, WaitResponse

LEMMA ObjectStep ==
  ASSUME FlagsOK, ObjectOK, QueuesOK, [Next]_vars
  PROVE  ObjectOK'
<1> USE DEF ObjectOK
<1>1. CASE Begin
  <2>1. turn' \in Turn
    BY <1>1 DEF Begin, Turn
  <2>2. proc' \in own' \cup {0} /\ own' \subseteq 1..spawned'
    BY <1>1 DEF Begin, processVars
  <2> QED BY <1>1, <2>1, <2>2 DEF Begin, processVars, clientVars
<1>2. CASE AlreadyReady
  <2>1. Req("session") \in Request
    BY ReqType
  <2>2. ids' \in Nat /\ waitId' \in Nat
    BY <1>2, <2>1, SendTypes DEF AlreadyReady, OpenSession
  <2>3. at' \in {"load", "new"}
    BY <1>2 DEF AlreadyReady, OpenSession
  <2> QED BY <1>2, <2>2, <2>3 DEF AlreadyReady, objectVars, processVars, turnVars
<1>3. CASE Spawn
  <2>1. spawned' = spawned + 1 /\ spawned + 1 \in Proc
    BY <1>3 DEF Spawn
  <2>2. spawned' \in 0..MaxProc /\ \A x \in 1..spawned : x \in 1..spawned'
    BY <2>1 DEF Proc
  <2>3. /\ own' \subseteq 1..spawned'
        /\ alive' \subseteq 1..spawned'
        /\ reading' \subseteq 1..spawned'
        /\ proc' \in own' \cup {0}
    BY <1>3, <2>1, <2>2 DEF Spawn
  <2> QED BY <1>3, <2>2, <2>3 DEF Spawn, turnVars
<1>4. CASE SpawnFails
  BY <1>4 DEF SpawnFails, Abandon, objectVars, processVars, clientVars, turnVars
<1>5. CASE SetAside
  BY <1>5 DEF SetAside, objectVars, processVars, clientVars, turnVars
<1>6. CASE Replied
  <2>1. UNCHANGED <<proc, own, processVars, turnVars>>
    BY <1>6 DEF Replied
  <2>2. /\ at' \in {"ensure", "prompt", "idle"}
        /\ cut' = cut \/ cut' = cut \cup {turn}
    BY <1>6 DEF Replied, Abandon
  <2>3. ids' \in Nat /\ waitId' \in Nat
    BY <1>6 DEF Replied, Send, SendAndCancel, Post, clientVars
  <2> QED BY <2>1, <2>2, <2>3 DEF processVars, turnVars
<1>7. CASE NotReplied
  <2>1. UNCHANGED <<proc, own, processVars, turnVars>>
    BY <1>7 DEF NotReplied, objectVars
  <2>2. /\ at' \in {"new", "idle"}
        /\ cut' = cut \/ cut' = cut \cup {turn}
    BY <1>7 DEF NotReplied, Abandon
  <2>3. ids' \in Nat /\ waitId' \in Nat
    BY <1>7 DEF NotReplied, Send, Post, clientVars
  <2> QED BY <2>1, <2>2, <2>3 DEF processVars, turnVars
<1>8. CASE WaitTimeout
  <2>1. /\ UNCHANGED <<own, spawned, turnVars>>
        /\ proc' \in {proc, 0} /\ alive' \subseteq alive
        /\ reading' \subseteq reading
    BY <1>8 DEF WaitTimeout, StopObject
  <2>2. /\ at' \in {"new", "idle"}
        /\ cut' = cut \/ cut' = cut \cup {turn}
    BY <1>8 DEF WaitTimeout, Abandon
  <2>3. ids' \in Nat /\ waitId' \in Nat
    BY <1>8 DEF WaitTimeout, Send, Post, clientVars
  <2> QED BY <2>1, <2>2, <2>3 DEF turnVars
<1>9. CASE PromptReplied \/ PromptEof
  BY <1>9 DEF PromptReplied, PromptEof, Abandon, objectVars, processVars,
     clientVars, turnVars
<1>10. CASE PromptUpdate
  <2>1. Head(inbox).turn \in Turn
    BY <1>10, TakeTypes DEF PromptUpdate
  <2>2. text' \subseteq Turn
    BY <1>10, <2>1 DEF PromptUpdate
  <2>3. /\ at' \in {"prompt", "idle"}
        /\ cut' = cut \/ cut' = cut \cup {turn}
        /\ ids' \in {ids, ids + 1}
    BY <1>10 DEF PromptUpdate, LoopOrCancel, Abandon
  <2> QED BY <1>10, <2>2, <2>3 DEF PromptUpdate, objectVars, processVars
<1>11. CASE PromptAsks
  <2>1. shownAsk' \in Turn
    BY <1>11, TakeTypes DEF PromptAsks
  <2> QED BY <1>11, <2>1 DEF PromptAsks, objectVars, processVars, clientVars
<1>12. CASE Answered
  <2>1. /\ at' \in {"prompt", "idle"}
        /\ cut' = cut \/ cut' = cut \cup {turn}
        /\ ids' \in {ids, ids + 1}
    BY <1>12 DEF Answered, LoopOrCancel, Abandon
  <2>2. /\ shownAsk' \in Turn
        /\ UNCHANGED <<proc, own, spawned, alive, reading, waitId, turn, text>>
    BY <1>12 DEF Answered, objectVars, processVars, Turn
  <2> QED BY <2>1, <2>2
<1>13. CASE PermissionCancelled
  BY <1>13 DEF PermissionCancelled, Abandon, objectVars, processVars, clientVars, Turn
<1>14. CASE Deadline
  <2>1. ids' \in {ids, ids + 1}
    BY <1>14 DEF Deadline
  <2> QED BY <1>14, <2>1 DEF Deadline, objectVars, processVars, turnVars
<1>15. CASE Evict \/ Remove
  <2>1. /\ proc' \in {proc, 0} /\ alive' \subseteq alive
        /\ reading' \subseteq reading
    BY <1>15, RemoveTypes DEF Evict, Remove
  <2>2. at' \in {at, "idle"} /\ UNCHANGED <<own, spawned, clientVars, turnVars, cut>>
    BY <1>15 DEF Evict, Remove
  <2> QED BY <2>1, <2>2 DEF clientVars, turnVars
<1>16. ASSUME NEW p \in Proc, Agent(p) \/ Die(p) \/ Reader(p) \/ ReadBreaks(p)
       PROVE  ObjectOK'
  BY <1>16 DEF Agent, Die, Reader, Read, ReadEof, ReadBreaks, ReaderEnds, objectVars, clientVars, turnVars
<1>17. CASE UNCHANGED vars
  BY <1>17 DEF vars, objectVars, processVars, clientVars, turnVars
<1> QED BY <1>1, <1>2, <1>3, <1>4, <1>5, <1>6, <1>7, <1>8, <1>9, <1>10, <1>11,
           <1>12, <1>13, <1>14, <1>15, <1>16, <1>17
        DEF Next, EnsureReady, WaitResponse, HandleMessage

LEMMA QueuesStep ==
  ASSUME FlagsOK, ObjectOK, QueuesOK, [Next]_vars
  PROVE  QueuesOK'
<1>0. /\ pipe \in [Proc -> Seq(Message)]
      /\ duty \in [Proc -> SUBSET Request]
      /\ inbox \in Seq(Message)
      /\ stash \in Seq(Message)
      /\ ~Waiting => stash = <<>>
  BY DEF QueuesOK
<1>1. CASE Begin
  <2>1. inbox' \in Seq(Message)
    <3>1. inbox' = inbox \/ inbox' = <<>>
      BY <1>1 DEF Begin
    <3>2. CASE inbox' = inbox
      BY <3>2, <1>0
    <3>3. CASE inbox' = <<>>
      BY <3>3
    <3> QED BY <3>1, <3>2, <3>3
  <2>2. stash' = <<>> /\ pipe' = pipe /\ duty' = duty
    BY <1>0, <1>1 DEF Begin, processVars, Waiting
  <2> QED BY <1>0, <2>1, <2>2 DEF QueuesOK
<1>2. CASE AlreadyReady
  <2>1. Req("session") \in Request
    BY ReqType
  <2>2. duty' \in [Proc -> SUBSET Request]
    BY <1>2, <2>1, SendTypes DEF AlreadyReady, OpenSession
  <2>3. stash' = <<>> /\ pipe' = pipe /\ inbox' = inbox
    BY <1>0, <1>2 DEF AlreadyReady, processVars, Waiting
  <2> QED BY <1>0, <2>2, <2>3 DEF QueuesOK
<1>3. CASE Spawn
  <2>1. [Req("initialize") EXCEPT !.id = 1] \in Request
    <3>1. Req("initialize") \in Request
      BY ReqType
    <3> QED BY <3>1 DEF Request
  <2>2. spawned + 1 \in Proc /\ duty' = [duty EXCEPT ![spawned + 1] =
                              {[Req("initialize") EXCEPT !.id = 1]}]
    BY <1>3 DEF Spawn
  <2>3. duty' \in [Proc -> SUBSET Request]
    BY <1>0, <2>1, <2>2
  <2>4. stash' = <<>> /\ pipe' = pipe /\ inbox' = <<>>
    BY <1>0, <1>3 DEF Spawn, Waiting
  <2> QED BY <1>0, <2>3, <2>4 DEF QueuesOK
<1>4. CASE SpawnFails
  <2>1. stash' = <<>> /\ pipe' = pipe /\ inbox' = inbox /\ duty' = duty
    BY <1>0, <1>4 DEF SpawnFails, processVars, Waiting
  <2> QED BY <1>0, <2>1 DEF QueuesOK
<1>5. CASE SetAside
  <2>1. inbox' \in Seq(Message) /\ stash' \in Seq(Message)
    BY <1>5, TakeTypes DEF SetAside
  <2>2. Waiting' /\ pipe' = pipe /\ duty' = duty
    BY <1>5 DEF SetAside, processVars, Waiting
  <2> QED BY <1>0, <2>1, <2>2 DEF QueuesOK
<1>6. CASE Replied \/ NotReplied \/ WaitTimeout
  <2>1. PICK q \in Seq(Message) : Requeue(q)
    BY <1>0, <1>6, TakeTypes DEF Replied, NotReplied, WaitTimeout
  <2>2. inbox' \in Seq(Message) /\ stash' = <<>>
    BY <2>1, RequeueTypes
  <2>3. Req("prompt") \in Request /\ Req("session") \in Request
    BY ReqType
  <2>4. CASE Replied
    <3>1. duty' \in [Proc -> SUBSET Request]
      BY <1>0, <2>3, <2>4, SendTypes, SendAndCancelTypes DEF Replied
    <3> QED BY <1>0, <2>2, <2>4, <3>1 DEF Replied, processVars, QueuesOK
  <2>5. CASE NotReplied
    <3>1. duty' \in [Proc -> SUBSET Request]
      BY <1>0, <2>3, <2>5, SendTypes DEF NotReplied
    <3> QED BY <1>0, <2>2, <2>5, <3>1 DEF NotReplied, processVars, QueuesOK
  <2>6. CASE WaitTimeout
    <3>1. duty' \in [Proc -> SUBSET Request]
      BY <1>0, <2>3, <2>6, SendTypes, StopTypes DEF WaitTimeout
    <3>2. pipe' \in [Proc -> Seq(Message)]
      BY <1>0, <2>6, StopTypes DEF WaitTimeout
    <3> QED BY <2>2, <3>1, <3>2 DEF QueuesOK
  <2> QED BY <1>6, <2>4, <2>5, <2>6
<1>7. CASE HandleMessage
  <2>1. inbox' \in Seq(Message)
    BY <1>7, TakeTypes DEF HandleMessage, PromptReplied, PromptEof,
       PromptUpdate, PromptAsks
  <2>2. stash' = <<>> /\ pipe' = pipe /\ duty' = duty
    BY <1>0, <1>7 DEF HandleMessage, PromptReplied, PromptEof,
       PromptUpdate, PromptAsks, processVars, Waiting
  <2> QED BY <1>0, <2>1, <2>2 DEF QueuesOK
<1>8. CASE Answered
  <2>1. duty' \in [Proc -> SUBSET Request]
    <3>1. CASE duty' = duty
      BY <3>1, <1>0
    <3>2. CASE proc # 0 /\ duty' = [duty EXCEPT ![proc] =
             {IF r.turn = shownAsk THEN [r EXCEPT !.blocked = FALSE] ELSE r :
                r \in @}]
      <4>1. proc \in Proc
        BY <3>2 DEF ObjectOK, Proc
      <4>2. \A r \in Request : [r EXCEPT !.blocked = FALSE] \in Request
        BY DEF Request
      <4>3. {IF r.turn = shownAsk THEN [r EXCEPT !.blocked = FALSE] ELSE r :
                r \in duty[proc]} \subseteq Request
        BY <1>0, <4>1, <4>2
      <4> QED BY <1>0, <3>2, <4>1, <4>3
    <3> QED BY <1>8, <3>1, <3>2 DEF Answered
  <2>2. stash' = <<>> /\ pipe' = pipe /\ inbox' = inbox
    BY <1>0, <1>8 DEF Answered, processVars, Waiting
  <2> QED BY <1>0, <2>1, <2>2 DEF QueuesOK
<1>9. CASE PermissionCancelled \/ Deadline
  <2>1. stash' = <<>> /\ pipe' = pipe /\ inbox' = inbox /\ duty' = duty
    BY <1>0, <1>9 DEF PermissionCancelled, Deadline, processVars, Waiting
  <2> QED BY <1>0, <2>1 DEF QueuesOK
<1>10. CASE Evict \/ Remove
  <2>1. /\ pipe' \in [Proc -> Seq(Message)]
        /\ duty' \in [Proc -> SUBSET Request]
    BY <1>10, RemoveTypes DEF Evict, Remove
  <2>2. stash' = stash /\ inbox' = inbox /\ (stash # <<>> => Waiting')
    BY <1>0, <1>10 DEF Evict, Remove, Waiting
  <2> QED BY <1>0, <2>1, <2>2 DEF QueuesOK
<1>11. ASSUME NEW p \in Proc, Agent(p) \/ Die(p) PROVE QueuesOK'
  <2>1. stash' = stash /\ inbox' = inbox /\ (stash # <<>> => Waiting')
    BY <1>0, <1>11 DEF Agent, Die, Waiting
  <2>2. CASE Die(p)
    BY <1>0, <2>1, <2>2 DEF Die, QueuesOK
  <2>3. CASE Agent(p)
    <3>1. PICK r \in duty[p] : Respond(p, r) \/ Chunk(p, r) \/ Ask(p, r)
      BY <2>3 DEF Agent
    <3>2. r \in Request
      BY <1>0
    <3>3. PICK k \in {"response", "refusal", "chunk", "ask"} : Emit(p, k, r)
      BY <3>1 DEF Respond, Chunk, Ask
    <3>4. [kind |-> k, id |-> r.id, turn |-> r.turn, proc |-> p] \in Message
      BY <3>2 DEF Request, Message
    <3>5. pipe' \in [Proc -> Seq(Message)]
      BY <1>0, <3>3, <3>4 DEF Emit
    <3>6. PICK new \in SUBSET Request : Replace(p, r, new)
      <4>1. CASE Respond(p, r)
        BY <4>1 DEF Respond
      <4>2. CASE Chunk(p, r)
        <5>1. [r EXCEPT !.say = @ - 1] \in Request
          BY <3>2, <4>2 DEF Request, Chunk
        <5> QED BY <4>2, <5>1 DEF Chunk
      <4>3. CASE Ask(p, r)
        <5>1. [r EXCEPT !.say = @ - 1] \in Request
          BY <3>2, <4>3 DEF Request, Ask
        <5>2. [r EXCEPT !.say = @ - 1, !.blocked = TRUE]
                = [[r EXCEPT !.say = @ - 1] EXCEPT !.blocked = TRUE]
          BY <3>2 DEF Request
        <5>3. [r EXCEPT !.say = @ - 1, !.blocked = TRUE] \in Request
          BY <5>1, <5>2 DEF Request
        <5> QED BY <4>3, <5>3 DEF Ask
      <4> QED BY <3>1, <4>1, <4>2, <4>3
    <3>7. duty' \in [Proc -> SUBSET Request]
      BY <1>0, <3>6 DEF Replace
    <3> QED BY <2>1, <1>0, <3>5, <3>7 DEF QueuesOK
  <2> QED BY <1>11, <2>2, <2>3
<1>12. ASSUME NEW p \in Proc, Reader(p) \/ ReadBreaks(p) PROVE QueuesOK'
  <2>1. stash' = stash /\ duty' = duty /\ (stash # <<>> => Waiting')
    BY <1>0, <1>12 DEF Reader, Read, ReadEof, ReadBreaks, ReaderEnds, Waiting
  <2>2. CASE Read(p)
    <3>1. Head(pipe[p]) \in Message /\ Tail(pipe[p]) \in Seq(Message)
      BY <1>0, <2>2, TailFacts DEF Read
    <3>2. pipe' \in [Proc -> Seq(Message)]
      BY <1>0, <2>2, <3>1 DEF Read
    <3>3. inbox' \in Seq(Message)
      BY <1>0, <2>2, <3>1 DEF Read, Deliver
    <3> QED BY <1>0, <2>1, <3>2, <3>3 DEF QueuesOK
  <2>3. CASE ReaderEnds(p)
    <3>1. [kind |-> "eof", id |-> 0, turn |-> 0, proc |-> p] \in Message
      BY DEF Message, Turn
    <3>2. inbox' \in Seq(Message)
      BY <1>0, <2>3, <3>1 DEF ReaderEnds, Deliver
    <3> QED BY <1>0, <2>1, <2>3, <3>2 DEF ReaderEnds, QueuesOK
  <2> QED BY <1>12, <2>2, <2>3 DEF Reader, ReadEof, ReadBreaks
<1>13. CASE UNCHANGED vars
  BY <1>0, <1>13 DEF vars, processVars, QueuesOK, Waiting
<1> QED BY <1>1, <1>2, <1>3, <1>4, <1>5, <1>6, <1>7, <1>8, <1>9, <1>10, <1>11,
           <1>12, <1>13
        DEF Next, EnsureReady, WaitResponse, HandleMessage

Types == FlagsOK /\ ObjectOK /\ QueuesOK

LEMMA TypesStep == ASSUME Types, [Next]_vars PROVE Types'
BY FlagsStep, ObjectStep, QueuesStep DEF Types

-----------------------------------------------------------------------------
(* The inductive invariant *)

Core == ReaderInv /\ IdInv /\ TurnInv /\ OrderInv /\ WakeInv /\ ProcessInv

IInv == Types /\ ("lag" \notin Fault => Core)

LEMMA InitCore == ASSUME Init PROVE Core
<1>1. Coming = {} /\ Open = {} /\ ~InPrompt
  BY EmptyFacts DEF Init, Coming, Open, InPrompt
<1>2. ReaderInv
  BY DEF Init, ReaderInv
<1>3. IdInv
  BY <1>1 DEF Init, IdInv
<1>4. TurnInv
  BY <1>1 DEF Init, TurnInv
<1>5. OrderInv
  BY <1>1 DEF OrderInv
<1>6. WakeInv
  BY <1>1 DEF Init, WakeInv
<1>7. ProcessInv
  BY <1>1 DEF Init, ProcessInv
<1> QED BY <1>2, <1>3, <1>4, <1>5, <1>6, <1>7 DEF Core

\* What is left of a queue whose first message was taken.
LEMMA FinalTail ==
  ASSUME NEW q \in Seq(Message), q # <<>>, Final(q)
  PROVE  /\ Final(Tail(q))
         /\ Head(q) \in Answers(Range(q)) => Silent(Range(Tail(q)))
         /\ Answers(Range(Tail(q))) \subseteq Answers(Range(q))
<1>1. /\ Len(q) \in Nat \ {0}
      /\ DOMAIN q = 1..Len(q)
      /\ DOMAIN Tail(q) = 1..(Len(q) - 1)
      /\ \A i \in 1..(Len(q) - 1) : Tail(q)[i] = q[i + 1]
      /\ Head(q) = q[1]
  OBVIOUS
<1>2. Range(Tail(q)) \subseteq Range(q)
  BY TailFacts
<1>3. Answers(Range(Tail(q))) \subseteq Answers(Range(q))
  BY <1>2 DEF Answers
<1>4. Final(Tail(q))
  <2> SUFFICES ASSUME NEW i \in DOMAIN Tail(q), NEW j \in DOMAIN Tail(q),
                      i < j, Tail(q)[i] \in Answers(Range(Tail(q)))
               PROVE  Tail(q)[j].id # waitId
    BY DEF Final
  <2>1. /\ i + 1 \in DOMAIN q /\ j + 1 \in DOMAIN q /\ i + 1 < j + 1
        /\ Tail(q)[i] = q[i + 1] /\ Tail(q)[j] = q[j + 1]
    BY <1>1
  <2> QED BY <2>1, <1>3 DEF Final
<1>5. ASSUME Head(q) \in Answers(Range(q)), NEW m \in Range(Tail(q))
      PROVE  m.id # waitId
  <2>1. PICK j \in DOMAIN Tail(q) : m = Tail(q)[j]
    BY DEF Range
  <2>2. /\ j + 1 \in DOMAIN q /\ 1 \in DOMAIN q /\ 1 < j + 1
        /\ m = q[j + 1] /\ q[1] \in Answers(Range(q))
    BY <1>1, <1>5, <2>1
  <2> QED BY <2>2 DEF Final
<1> QED BY <1>3, <1>4, <1>5 DEF Silent

\* One more message, which does not follow the response.
LEMMA FinalAppend ==
  ASSUME NEW q \in Seq(Message), NEW m \in Message, Final(q),
         Answers(Range(q)) # {} => m.id # waitId
  PROVE  Final(Append(q, m))
<1>1. /\ Len(q) \in Nat
      /\ DOMAIN q = 1..Len(q)
      /\ DOMAIN Append(q, m) = 1..(Len(q) + 1)
      /\ \A i \in 1..Len(q) : Append(q, m)[i] = q[i]
      /\ Append(q, m)[Len(q) + 1] = m
  OBVIOUS
<1> SUFFICES ASSUME NEW i \in DOMAIN Append(q, m), NEW j \in DOMAIN Append(q, m),
                    i < j, Append(q, m)[i] \in Answers(Range(Append(q, m)))
             PROVE  Append(q, m)[j].id # waitId
  BY DEF Final
<1>2. i \in DOMAIN q /\ Append(q, m)[i] = q[i]
  BY <1>1
<1>3. q[i] \in Answers(Range(q))
  BY <1>2 DEF Answers, Range
<1>4. CASE j \in DOMAIN q
  BY <1>1, <1>2, <1>3, <1>4 DEF Final
<1>5. CASE j \notin DOMAIN q
  BY <1>1, <1>3, <1>5
<1> QED BY <1>4, <1>5

\* Where the open requests of the next state come from: N is new, the others
\* may have less to say.
OpenFrom(N) ==
  /\ \A r \in Open' :
       \/ r \in N
       \/ \E q \in Open : q.id = r.id /\ q.turn = r.turn /\ q.kind = r.kind
  /\ \A r, q \in Open' : r.id = q.id => r = q

LEMMA OpenShrinks ==
  ASSUME IdInv, Open' \subseteq Open
  PROVE  OpenFrom({})
BY DEF OpenFrom, IdInv

LEMMA OpenSends ==
  ASSUME Types, IdInv, NEW r \in Request, r.id = ids + 1, Post(r), proc' = proc
  PROVE  OpenFrom({r})
<1>1. /\ proc \in Proc /\ Open = duty[proc] /\ Open' \subseteq duty[proc] \cup {r}
  BY DEF Post, Open, Types, ObjectOK, QueuesOK, Proc
<1>2. \A q \in Open : q.id <= ids /\ q.id \in Nat /\ ids \in Nat
  BY <1>1 DEF IdInv, Types, ObjectOK, QueuesOK, Request
<1>3. \A q \in Open' : q \in Open \/ q = r
  BY <1>1
<1>4. \A q \in Open : q.id # r.id
  BY <1>2
<1>5. ASSUME NEW s \in Open', NEW q \in Open', s.id = q.id PROVE s = q
  BY <1>3, <1>4, <1>5 DEF IdInv
<1> QED BY <1>3, <1>5 DEF OpenFrom

\* The current process stays or is forgotten, and nothing new comes.
Settles(N) ==
  /\ Coming' \subseteq Coming
  /\ proc' \in {proc, 0}
  /\ reading' \subseteq reading
  /\ proc' # 0 => pipe'[proc'] = pipe[proc']
  /\ ids' \in {ids, ids + 1}
  /\ waitId' <= ids'
  /\ OpenFrom(N)
  /\ \A r \in N : r.id = ids' /\ r.turn = 0 /\ r.kind # "prompt"
  /\ text' \subseteq {turn', 0} \cup cut'
  /\ cut \subseteq cut'

LEMMA SettledIds ==
  ASSUME Types, Types', IdInv, NEW N, Settles(N), InPrompt' => waitId' > 0,
         InPrompt' => InPrompt
  PROVE  IdInv'
<1>1. ids \in Nat /\ ids' \in Nat /\ waitId' \in Nat /\ ids <= ids'
  BY DEF Types, ObjectOK, Settles
<1>2. ASSUME NEW m \in Coming'
      PROVE  /\ m.id <= ids'
             /\ proc' # 0 => m.proc = proc'
             /\ m.kind = "eof" => proc' \notin reading'
  <2>1. /\ m.id <= ids /\ (proc # 0 => m.proc = proc)
        /\ (m.kind = "eof" => proc \notin reading)
    BY DEF IdInv, Settles
  <2>2. m.id \in Nat
    <3>1. proc \in Proc \/ proc = 0
      BY DEF Types, ObjectOK, Proc
    <3>2. Coming \subseteq Message
      BY <3>1, RangeTypes DEF Types, QueuesOK, Coming
    <3> QED BY <3>2 DEF Settles, Message
  <2>3. 0 \notin reading
    BY DEF Types, ObjectOK
  <2> QED BY <2>1, <2>2, <2>3, <1>1 DEF Settles
<1>3. proc' # 0 => \A m \in Range(pipe'[proc']) : m.kind # "eof"
  BY DEF IdInv, Settles
<1>4. ASSUME NEW r \in Open'
      PROVE  r.id <= ids'
  <2>1. CASE r \in N
    BY <2>1, <1>1 DEF Settles
  <2>2. CASE \E q \in Open : q.id = r.id
    <3>1. PICK q \in Open : q.id = r.id
      BY <2>2
    <3>2. q.id <= ids
      BY DEF IdInv
    <3>3. q.id \in Nat
      BY DEF Open, Types, ObjectOK, QueuesOK, Request, Proc
    <3> QED BY <3>1, <3>2, <3>3, <1>1
  <2> QED BY <2>1, <2>2 DEF Settles, OpenFrom
<1>5. \A r, q \in Open' : r.id = q.id => r = q
  BY DEF Settles, OpenFrom
<1>6. proc' # 0 \/ InPrompt' => ids' > 0
  BY <1>1 DEF IdInv, Settles, Types, ObjectOK
<1> QED BY <1>1, <1>2, <1>3, <1>4, <1>5, <1>6 DEF IdInv, Settles

\* Outside a prompt nothing is owed to the task: what it may still hear from
\* the last prompt is about a task that was cut short, or does not exist.
LEMMA Outside ==
  ASSUME Types, IdInv, TurnInv, NEW N, Settles(N), ~InPrompt',
         InPrompt => \/ turn \in cut'
                     \/ Silent(Coming') /\ Silent(Open')
  PROVE  TurnInv' /\ OrderInv'
<1>1. OrderInv'
  BY DEF OrderInv
<1>2. text' \subseteq {turn', 0} \cup cut'
  BY DEF Settles
<1>3. ASSUME NEW m \in Coming', m.kind \in {"chunk", "ask"}
      PROVE  m.turn \in cut' \/ History(m)
  <2>1. /\ m.turn \in cut \/ (InPrompt /\ m.id = waitId) \/ History(m)
        /\ InPrompt /\ m.id = waitId => m.turn = turn
    BY <1>3 DEF TurnInv, Settles
  <2> QED BY <1>3, <2>1 DEF Settles, Silent
<1>4. ASSUME NEW r \in Open'
      PROVE  IF r.kind = "prompt" THEN r.turn \in cut' ELSE r.turn = 0
  <2>0. CASE r.kind # "prompt"
    BY <2>0 DEF Settles, OpenFrom, TurnInv
  <2> SUFFICES ASSUME r.kind = "prompt" PROVE r.turn \in cut'
    BY <2>0
  <2>1. PICK q \in Open : q.id = r.id /\ q.turn = r.turn /\ q.kind = r.kind
    BY DEF Settles, OpenFrom
  <2>2. /\ q.turn \in cut \/ (InPrompt /\ q.id = waitId)
        /\ InPrompt /\ q.id = waitId => q.turn = turn
    BY <2>1 DEF TurnInv
  <2> QED BY <2>1, <2>2 DEF Settles, Silent
<1> QED BY <1>1, <1>2, <1>3, <1>4 DEF TurnInv

\* Inside it, a message taken leaves the others in their order.
LEMMA Inside ==
  ASSUME Types, IdInv, TurnInv, OrderInv, Settles({}), InPrompt, InPrompt',
         UNCHANGED <<waitId, turn>>,
         inbox' = inbox \/ (inbox # <<>> /\ inbox' = Tail(inbox))
  PROVE  TurnInv' /\ OrderInv'
<1>1. /\ Final(inbox)
      /\ proc # 0 => /\ Final(pipe[proc])
                     /\ Answers(Range(inbox)) # {} => Silent(Range(pipe[proc]))
                     /\ Answers(Coming) # {} => Silent(Open)
  BY DEF OrderInv
<1>2. Final(inbox') /\ Answers(Range(inbox')) \subseteq Answers(Range(inbox))
  <2>1. CASE inbox' = inbox
    BY <1>1, <2>1
  <2>2. CASE inbox # <<>> /\ inbox' = Tail(inbox)
    <3>1. inbox \in Seq(Message)
      BY DEF Types, QueuesOK
    <3> QED BY <1>1, <2>2, <3>1, FinalTail
  <2> QED BY <2>1, <2>2
<1>3. Answers(Coming') \subseteq Answers(Coming)
  BY DEF Settles, Answers
<1>4. \A r \in Open' : \E q \in Open : q.id = r.id /\ q.turn = r.turn /\ q.kind = r.kind
  BY DEF Settles, OpenFrom
<1>5. Silent(Open) => Silent(Open')
  BY <1>4 DEF Silent
<1>6. proc' # 0 => proc' = proc /\ pipe'[proc'] = pipe[proc]
  BY DEF Settles
<1>7. /\ Final(inbox')
      /\ proc' # 0 => /\ Final(pipe'[proc'])
                      /\ Answers(Range(inbox')) # {} => Silent(Range(pipe'[proc']))
                      /\ Answers(Coming') # {} => Silent(Open')
  BY <1>1, <1>2, <1>3, <1>5, <1>6
<1>8. OrderInv'
  BY <1>7 DEF OrderInv, Final, Answers, Silent
<1>9. TurnInv'
  <2>1. text' \subseteq {turn', 0} \cup cut' /\ cut \subseteq cut'
    BY DEF Settles
  <2>2. ASSUME NEW m \in Coming'
        PROVE  /\ m.id = waitId => m.turn = turn
               /\ m.kind \in {"chunk", "ask"}
                    => m.turn \in cut' \/ m.id = waitId \/ History(m)
    BY <2>1 DEF TurnInv, Settles
  <2>3. ASSUME NEW r \in Open'
        PROVE  /\ r.id = waitId => r.turn = turn
               /\ IF r.kind = "prompt" THEN r.turn \in cut' \/ r.id = waitId
                  ELSE r.turn = 0
    BY <1>4, <2>1 DEF TurnInv
  <2> QED BY <2>1, <2>2, <2>3 DEF TurnInv
<1> QED BY <1>8, <1>9

-----------------------------------------------------------------------------
(* One lemma per action *)

LEMMA BeginCore ==
  ASSUME Types, Types', Core, Begin
  PROVE  Core'
<1> USE DEF Core
<1>1. ~InPrompt /\ ~InPrompt' /\ stash = <<>>
  BY DEF Begin, InPrompt, Types, QueuesOK, Waiting
<1>2. /\ UNCHANGED <<spawned, alive, reading, pipe, duty, ids, waitId, stash, cut>>
      /\ text' = {} /\ listed' = TRUE /\ at' = "ensure" /\ at = "idle"
      /\ IF listed THEN UNCHANGED <<proc, ready, own, inbox>>
         ELSE proc' = 0 /\ ready' = FALSE /\ own' = {} /\ inbox' = <<>>
  BY DEF Begin, processVars, clientVars
<1>3. /\ Coming' = IF listed THEN Coming ELSE {}
      /\ Open' = IF listed THEN Open ELSE {}
  BY <1>1, <1>2, EmptyFacts DEF Coming, Open
<1>4. OpenFrom({})
  BY <1>3, OpenShrinks
<1>5. waitId <= ids
  BY DEF IdInv
<1>6. Settles({})
  BY <1>2, <1>3, <1>4, <1>5 DEF Settles
<1>7. IdInv'
  BY <1>1, <1>6, SettledIds
<1>8. TurnInv' /\ OrderInv'
  BY <1>1, <1>6, Outside
<1>9. 0 \notin alive
  BY DEF Types, ObjectOK
<1>10. ReaderInv'
  BY <1>2, <1>9 DEF ReaderInv
<1>11. WakeInv'
  BY <1>1, <1>2 DEF WakeInv
<1>12. ProcessInv'
  <2>1. CASE listed
    BY <1>2, <1>3, <2>1 DEF ProcessInv
  <2>2. CASE ~listed
    BY <1>2, <1>3, <1>9, <2>2 DEF ProcessInv
  <2> QED BY <2>1, <2>2
<1> QED BY <1>7, <1>8, <1>10, <1>11, <1>12

LEMMA AlreadyReadyCore ==
  ASSUME Types, Types', Core, AlreadyReady
  PROVE  Core'
<1> USE DEF Core
<1> DEFINE r == Req("session")
<1>1. ~InPrompt /\ ~InPrompt' /\ at' \in {"load", "new"}
  BY DEF AlreadyReady, OpenSession, InPrompt
<1>2. /\ UNCHANGED <<listed, proc, ready, own, spawned, alive, reading, pipe,
                     inbox, stash, turn, text, cut>>
      /\ Send(r) /\ proc \in alive /\ proc # 0
  BY DEF AlreadyReady, OpenSession, objectVars, processVars, turnVars, Running
<1>3. r \in Request /\ r.id = ids + 1 /\ r.turn = 0 /\ r.kind = "session"
  BY ReqType DEF Types
<1>4. ids' = ids + 1 /\ waitId' = ids + 1 /\ ids \in Nat
  BY <1>2 DEF Send, Post, Types, ObjectOK
<1> HIDE DEF r
<1>5. OpenFrom({r})
  BY <1>2, <1>3, OpenSends DEF Send
<1>6. Coming' = Coming
  BY <1>2 DEF Coming
<1>7. Settles({r})
  <2>1. text' \subseteq {turn', 0} \cup cut'
    BY <1>2 DEF TurnInv
  <2> QED BY <1>2, <1>3, <1>4, <1>5, <1>6, <2>1 DEF Settles
<1>8. IdInv'
  BY <1>1, <1>7, SettledIds
<1>9. TurnInv' /\ OrderInv'
  BY <1>1, <1>7, Outside
<1>10. proc \in Proc /\ proc <= spawned
  BY <1>2 DEF Types, ObjectOK, Proc
<1>11. /\ duty' = [duty EXCEPT ![proc] = duty[proc] \cup {r}]
       /\ duty \in [Proc -> SUBSET Request]
  BY <1>2 DEF Send, Post, Types, QueuesOK
<1>12. ReaderInv'
  BY <1>2, <1>10, <1>11 DEF ReaderInv, Types, ObjectOK, Proc
<1>13. WakeInv'
  <2>1. Coming \subseteq Message
    BY <1>10, RangeTypes DEF Types, QueuesOK, Coming
  <2>2. \A m \in Coming : m.id # waitId'
    BY <1>4, <2>1 DEF IdInv, Message
  <2>3. \A m \in Range(inbox') \cup Range(stash') : m.id # waitId'
    BY <1>2, <2>2 DEF Coming
  <2> QED BY <1>1, <2>3 DEF WakeInv
<1>14. Open' = Open \cup {r}
  BY <1>2, <1>10, <1>11 DEF Open
<1>15. r.id > 1
  BY <1>2, <1>3, <1>4 DEF IdInv
<1>16. ProcessInv'
  BY <1>1, <1>2, <1>6, <1>14, <1>15 DEF ProcessInv, AlreadyReady
<1> QED BY <1>8, <1>9, <1>12, <1>13, <1>16

LEMMA SpawnCore ==
  ASSUME Types, Types', Core, Spawn, "lag" \notin Fault
  PROVE  Core'
<1> USE DEF Core
<1> DEFINE p == spawned + 1
           r == [Req("initialize") EXCEPT !.id = 1]
<1>1. /\ p \in Proc /\ own \cap reading = {} /\ ~(ready /\ Running)
      /\ spawned' = p /\ proc' = p /\ own' = own \cup {p}
      /\ alive' = alive \cup {p} /\ reading' = reading \cup {p}
      /\ inbox' = <<>> /\ ids' = 1 /\ waitId' = 1
      /\ duty' = [duty EXCEPT ![p] = {r}]
      /\ at' = "init" /\ at = "ensure" /\ listed' = listed
      /\ UNCHANGED <<pipe, stash, turn, text, cut>>
  BY DEF Spawn, turnVars
<1>2. r.id = 1 /\ r.turn = 0 /\ r.kind = "initialize"
  BY DEF Req
<1>3. stash = <<>> /\ ~InPrompt /\ ~InPrompt'
  BY <1>1 DEF InPrompt, Types, QueuesOK, Waiting
<1>4. /\ p > spawned /\ p # 0 /\ p \notin own /\ p \notin alive /\ p \notin reading
      /\ p \in 1..MaxProc /\ spawned \in Nat
  BY <1>1 DEF Types, ObjectOK, Proc
<1>5. pipe[p] = <<>> /\ duty \in [Proc -> SUBSET Request]
  BY <1>1, <1>4 DEF ReaderInv, Types, QueuesOK
<1> HIDE DEF r
<1>6. Coming' = {}
  BY <1>1, <1>3, <1>4, <1>5, EmptyFacts DEF Coming
<1>7. Open' = {r}
  BY <1>1, <1>4, <1>5 DEF Open
<1>8. ReaderInv'
  <2>1. own' \cap reading' \subseteq {proc'}
    BY <1>1
  <2>2. \A x \in Proc : x > spawned' => pipe'[x] = <<>> /\ duty'[x] = {}
    BY <1>1, <1>4, <1>5 DEF ReaderInv, Proc
  <2> QED BY <1>1, <2>1, <2>2 DEF ReaderInv
<1>9. IdInv'
  BY <1>1, <1>2, <1>3, <1>4, <1>5, <1>6, <1>7, EmptyFacts DEF IdInv
<1>10. TurnInv'
  BY <1>1, <1>2, <1>3, <1>6, <1>7 DEF TurnInv
<1>11. OrderInv'
  BY <1>3 DEF OrderInv
<1>12. WakeInv'
  BY <1>1, <1>3 DEF WakeInv
<1>13. ProcessInv'
  <2> SUFFICES ASSUME "race" \notin Fault, "badinit" \notin Fault PROVE ProcessInv'
    BY DEF ProcessInv
  <2>1. listed /\ alive \subseteq {proc} /\ proc \notin alive
    BY <1>1 DEF ProcessInv, Running, Types, ObjectOK
  <2>2. alive' \subseteq {proc'}
    BY <1>1, <2>1
  <2> QED BY <1>1, <1>2, <1>6, <1>7, <2>1, <2>2 DEF ProcessInv
<1> QED BY <1>8, <1>9, <1>10, <1>11, <1>12, <1>13

\* The actions that only end the task, or shift messages between the queues.
LEMMA SpawnFailsCore ==
  ASSUME Types, Types', Core, SpawnFails
  PROVE  Core'
<1> USE DEF Core
<1>1. ~InPrompt /\ ~InPrompt' /\ at = "ensure" /\ at' = "idle"
  BY DEF SpawnFails, Abandon, InPrompt
<1>2. UNCHANGED <<listed, proc, ready, own, spawned, alive, reading, pipe, duty,
                  ids, waitId, inbox, stash, turn, text>>
      /\ cut' = cut \cup {turn}
  BY DEF SpawnFails, Abandon, objectVars, processVars, clientVars, turnVars
<1>3. Coming' = Coming /\ Open' = Open
  BY <1>2 DEF Coming, Open
<1>4. OpenFrom({})
  BY <1>3, OpenShrinks
<1>5. Settles({})
  BY <1>2, <1>3, <1>4 DEF Settles, IdInv, TurnInv
<1>6. IdInv' /\ TurnInv' /\ OrderInv'
  BY <1>1, <1>5, SettledIds, Outside
<1>7. ReaderInv' /\ WakeInv'
  BY <1>1, <1>2 DEF ReaderInv, WakeInv
<1>8. ProcessInv'
  BY <1>1, <1>2, <1>3 DEF ProcessInv
<1> QED BY <1>6, <1>7, <1>8

LEMMA SetAsideCore ==
  ASSUME Types, Types', Core, SetAside
  PROVE  Core'
<1> USE DEF Core
<1>1. ~InPrompt /\ ~InPrompt' /\ at' = at /\ at \in {"init", "load", "new"}
  BY DEF SetAside, InPrompt, Waiting
<1>2. /\ UNCHANGED <<listed, proc, ready, own, spawned, alive, reading, pipe,
                     duty, ids, waitId, turn, text, cut>>
      /\ inbox # <<>> /\ inbox' = Tail(inbox) /\ stash' = Append(stash, Head(inbox))
      /\ Head(inbox).kind # "eof"
  BY DEF SetAside, objectVars, processVars, clientVars, turnVars
<1>3. /\ Range(inbox) = {Head(inbox)} \cup Range(inbox')
      /\ Range(stash') = Range(stash) \cup {Head(inbox)}
  <2>1. inbox \in Seq(Message) /\ stash \in Seq(Message) /\ Head(inbox) \in Message
    BY <1>2, TakeTypes DEF Types, QueuesOK
  <2> QED BY <1>2, <2>1, TailFacts, AppendFacts
<1>4. Coming' = Coming /\ Open' = Open
  BY <1>2, <1>3 DEF Coming, Open
<1>5. OpenFrom({})
  BY <1>4, OpenShrinks
<1>6. Settles({})
  BY <1>2, <1>4, <1>5 DEF Settles, IdInv, TurnInv
<1>7. IdInv' /\ TurnInv' /\ OrderInv'
  BY <1>1, <1>6, SettledIds, Outside
<1>8. ReaderInv'
  BY <1>2 DEF ReaderInv
<1>9. Range(inbox') \cup Range(stash') = Range(inbox) \cup Range(stash)
  BY <1>3
<1>10. WakeInv'
  BY <1>1, <1>2, <1>3, <1>9 DEF WakeInv, Wakes, InPrompt
<1>11. ProcessInv'
  BY <1>1, <1>2, <1>4 DEF ProcessInv
<1> QED BY <1>7, <1>8, <1>10, <1>11

\* Sending a request that is not a prompt, outside a prompt.
LEMMA SendsSession ==
  ASSUME Types, Types', Core, NEW r \in Request, r.id = ids + 1, r.turn = 0,
         r.kind = "session", Send(r), ~InPrompt, ~InPrompt', Coming' \subseteq Coming,
         UNCHANGED <<proc, reading, pipe, spawned, turn, text, cut>>
  PROVE  /\ IdInv' /\ TurnInv' /\ OrderInv'
         /\ ids' = ids + 1 /\ waitId' = ids + 1 /\ ids \in Nat /\ ids > 0
         /\ Open' \subseteq Open \cup {r}
         /\ \A x \in Proc : x > spawned => duty'[x] = {}
<1> USE DEF Core
<1>1. proc # 0 /\ ids' = ids + 1 /\ waitId' = ids + 1 /\ ids \in Nat /\ ids > 0
  BY DEF Send, Post, Types, ObjectOK, IdInv
<1>2. OpenFrom({r})
  BY OpenSends DEF Send
<1>3. Settles({r})
  BY <1>1, <1>2 DEF Settles, TurnInv
<1>4. IdInv' /\ TurnInv' /\ OrderInv'
  BY <1>3, SettledIds, Outside
<1>5. proc \in Proc /\ proc <= spawned
  BY <1>1 DEF Types, ObjectOK, Proc
<1>6. /\ duty' = [duty EXCEPT ![proc] = IF proc \in alive THEN duty[proc] \cup {r}
                                                          ELSE duty[proc]]
      /\ duty \in [Proc -> SUBSET Request]
  BY DEF Send, Post, Types, QueuesOK
<1>7. Open' \subseteq Open \cup {r}
  BY <1>1, <1>5, <1>6 DEF Open
<1>8. \A x \in Proc : x > spawned => duty'[x] = {}
  BY <1>5, <1>6 DEF ReaderInv, Types, ObjectOK, Proc
<1> QED BY <1>1, <1>4, <1>7, <1>8

\* Ending the task outside a prompt.
LEMMA Abandons ==
  ASSUME Types, Types', Core, Abandon, Coming' \subseteq Coming, Open' \subseteq Open,
         UNCHANGED <<proc, reading, pipe, ids, waitId, turn, text>>
  PROVE  IdInv' /\ TurnInv' /\ OrderInv' /\ ~InPrompt'
<1> USE DEF Core
<1>1. at' = "idle" /\ cut' = cut \cup {turn} /\ ~InPrompt'
  BY DEF Abandon, InPrompt
<1>2. OpenFrom({})
  BY OpenShrinks
<1>3. Settles({})
  BY <1>1, <1>2 DEF Settles, TurnInv, IdInv
<1> QED BY <1>1, <1>3, SettledIds, Outside

\* What leaves _wait_response goes back to the queue.
LEMMA RequeueFacts ==
  ASSUME Types, Requeue(Tail(inbox)), inbox # <<>>
  PROVE  /\ stash' = <<>> /\ Range(stash') = {}
         /\ Range(inbox') = Range(Tail(inbox)) \cup Range(stash)
         /\ Range(inbox) = {Head(inbox)} \cup Range(Tail(inbox))
         /\ Head(inbox) \in Range(inbox) /\ Head(inbox) \in Message
         /\ Head(inbox) \in Coming
<1>1. inbox \in Seq(Message) /\ stash \in Seq(Message)
  BY DEF Types, QueuesOK
<1>2. Tail(inbox) \in Seq(Message) /\ Head(inbox) \in Message
      /\ Range(inbox) = {Head(inbox)} \cup Range(Tail(inbox))
  BY <1>1, TailFacts
<1>3. Range(inbox') = Range(Tail(inbox)) \cup Range(stash)
  <2>1. inbox' = Tail(inbox) \o stash
    BY DEF Requeue
  <2> DEFINE q == Tail(inbox)
  <2>2. q \in Seq(Message)
    BY <1>2
  <2> HIDE DEF q
  <2>3. Range(q \o stash) = Range(q) \cup Range(stash)
    BY <1>1, <2>2, ConcatFacts
  <2> QED BY <2>1, <2>3 DEF q
<1>4. stash' = <<>> /\ Range(stash') = {}
  BY EmptyFacts DEF Requeue
<1> QED BY <1>2, <1>3, <1>4 DEF Coming

LEMMA RepliedCore ==
  ASSUME Types, Types', Core, Replied
  PROVE  Core'
<1> USE DEF Core
<1>1. /\ inbox # <<>> /\ Requeue(Tail(inbox))
      /\ Head(inbox).kind = "response" /\ Head(inbox).id = waitId
      /\ at \in {"init", "load", "new"} /\ ~InPrompt
      /\ UNCHANGED <<listed, proc, own, spawned, alive, reading, pipe, turn, text>>
      /\ ready' = (IF at = "init" THEN TRUE ELSE ready)
  BY DEF Replied, processVars, turnVars, Waiting, IsReply, InPrompt
<1>2. /\ stash' = <<>> /\ Range(stash') = {}
      /\ Range(inbox') = Range(Tail(inbox)) \cup Range(stash)
      /\ Range(inbox) = {Head(inbox)} \cup Range(Tail(inbox))
      /\ Head(inbox) \in Range(inbox)
  BY <1>1, RequeueFacts
<1>3. Coming' \subseteq Coming
  BY <1>1, <1>2 DEF Coming
<1>4. CASE /\ at = "init" /\ at' = "ensure"
           /\ UNCHANGED <<clientVars, duty, cut>>
  <2>1. UNCHANGED <<ids, waitId, duty, cut>> /\ ~InPrompt'
    BY <1>4 DEF clientVars, InPrompt
  <2>2. Open' = Open
    BY <1>1, <2>1 DEF Open
  <2>3. OpenFrom({})
    BY <2>2, OpenShrinks
  <2>4. Settles({})
    BY <1>1, <1>3, <2>1, <2>3 DEF Settles, IdInv, TurnInv
  <2>5. IdInv' /\ TurnInv' /\ OrderInv'
    BY <1>1, <2>1, <2>4, SettledIds, Outside
  <2>6. ReaderInv' /\ WakeInv'
    BY <1>1, <1>4, <2>1 DEF ReaderInv, WakeInv
  <2>7. ready' = TRUE
    BY <1>1, <1>4
  <2>8. ProcessInv'
    BY <1>1, <1>3, <1>4, <2>2, <2>1, <2>7 DEF ProcessInv
  <2> QED BY <2>5, <2>6, <2>8
<1>5. CASE /\ at # "init" /\ at' = "prompt"
           /\ Send(Req("prompt")) /\ UNCHANGED cut
  <2> DEFINE r == Req("prompt")
  <2>1. r \in Request /\ r.id = ids + 1 /\ r.kind = "prompt" /\ r.turn = turn
    BY ReqType DEF Req, Types
  <2>2. Send(r)
    BY <1>5
  <2>3. proc # 0 /\ ids' = ids + 1 /\ waitId' = ids + 1 /\ ids \in Nat
    BY <2>2 DEF Send, Post, Types, ObjectOK
  <2> HIDE DEF r
  <2>4. OpenFrom({r})
    BY <1>1, <2>1, <2>2, OpenSends DEF Send
  <2>5. proc \in Proc /\ proc <= spawned
    BY <2>3 DEF Types, ObjectOK, Proc
  <2>6. /\ duty' = [duty EXCEPT ![proc] = IF proc \in alive THEN duty[proc] \cup {r}
                                                            ELSE duty[proc]]
        /\ duty \in [Proc -> SUBSET Request]
    BY <2>2 DEF Send, Post, Types, QueuesOK
  <2>7. Open' \subseteq Open \cup {r}
    BY <1>1, <2>3, <2>5, <2>6 DEF Open
  <2>8. Coming \subseteq Message /\ Open \subseteq Request
    BY <2>3, <2>5, <2>6, RangeTypes DEF Types, QueuesOK, Coming, Open
  <2>9. \A m \in Coming : m.id <= ids /\ m.id \in Nat /\ m.id # waitId'
    BY <2>3, <2>8 DEF IdInv, Message
  <2>10. \A q \in Open : q.id <= ids /\ q.id \in Nat /\ q.id # waitId'
    BY <2>3, <2>8 DEF IdInv, Request
  <2>11. InPrompt'
    BY <1>5 DEF InPrompt
  <2>12. ReaderInv'
    BY <1>1, <2>5, <2>6 DEF ReaderInv, Types, ObjectOK, Proc
  <2>13. IdInv'
    <3>1. ids' > 0 /\ waitId' > 0 /\ waitId' <= ids'
      BY <2>3
    <3>2. \A m \in Coming' : /\ m.id <= ids'
                             /\ proc' # 0 => m.proc = proc'
                             /\ m.kind = "eof" => proc' \notin reading'
      BY <1>1, <1>3, <2>3, <2>9 DEF IdInv
    <3>3. proc' # 0 => \A m \in Range(pipe'[proc']) : m.kind # "eof"
      BY <1>1 DEF IdInv
    <3>4. \A q \in Open' : q.id <= ids'
      BY <2>1, <2>3, <2>7, <2>10 DEF IdInv
    <3>5. \A q, s \in Open' : q.id = s.id => q = s
      BY <2>4 DEF OpenFrom
    <3> QED BY <3>1, <3>2, <3>3, <3>4, <3>5 DEF IdInv
  <2>14. TurnInv'
    <3>1. text' \subseteq {turn', 0} \cup cut'
      BY <1>1, <1>5 DEF TurnInv
    <3>2. \A m \in Coming' : /\ m.id # waitId'
                             /\ m.kind \in {"chunk", "ask"}
                                  => m.turn \in cut' \/ History(m)
      BY <1>1, <1>3, <1>5, <2>9 DEF TurnInv
    <3>3. \A q \in Open' : \/ q.id = waitId' /\ q.turn = turn'
                             /\ q.kind = "prompt"
                           \/ /\ q.id # waitId'
                              /\ IF q.kind = "prompt" THEN q.turn \in cut'
                                 ELSE q.turn = 0
      BY <1>1, <1>5, <2>1, <2>3, <2>7, <2>10 DEF TurnInv
    <3> QED BY <2>11, <3>1, <3>2, <3>3 DEF TurnInv
  <2>15. OrderInv'
    <3>1. \A m \in Coming' : m.id # waitId'
      BY <1>3, <2>9
    <3>2. Range(inbox') \subseteq Coming' /\ (proc' # 0 => Range(pipe'[proc']) \subseteq Coming')
      BY DEF Coming
    <3> QED BY <3>1, <3>2 DEF OrderInv, Final, Answers, Silent
  <2>16. Wakes
    BY <1>1, <1>2, <1>5 DEF WakeInv
  <2>17. Wakes'
    BY <1>1, <1>2, <2>16 DEF Wakes
  <2>18. WakeInv'
    BY <1>5, <2>17 DEF WakeInv
  <2>19. ProcessInv'
    <3> SUFFICES ASSUME "race" \notin Fault, "badinit" \notin Fault PROVE ProcessInv'
      BY DEF ProcessInv
    <3>1. \A q \in Open' : q.kind # "initialize" => q.id > 1
      BY <2>1, <2>3, <2>7 DEF ProcessInv, IdInv
    <3> QED BY <1>1, <1>3, <1>5, <3>1 DEF ProcessInv
  <2> QED BY <2>12, <2>13, <2>14, <2>15, <2>18, <2>19
<1>6. CASE /\ at # "init" /\ ~Running /\ Abandon
           /\ UNCHANGED <<clientVars, duty>>
  <2>1. UNCHANGED <<ids, waitId, duty>> /\ at' = "idle"
    BY <1>6 DEF clientVars, Abandon
  <2>2. Open' = Open
    BY <1>1, <2>1 DEF Open
  <2>3. IdInv' /\ TurnInv' /\ OrderInv' /\ ~InPrompt'
    BY <1>1, <1>3, <1>6, <2>1, <2>2, Abandons
  <2>4. ReaderInv' /\ WakeInv'
    BY <1>1, <2>1, <2>3 DEF ReaderInv, WakeInv
  <2>5. ProcessInv'
    BY <1>1, <1>3, <1>6, <2>1, <2>2 DEF ProcessInv
  <2> QED BY <2>3, <2>4, <2>5
<1>7. CASE at # "init" /\ SendAndCancel(Req("prompt")) /\ Abandon
  <2> DEFINE r == Req("prompt")
  <2>1. r \in Request /\ r.id = ids + 1 /\ r.kind = "prompt" /\ r.turn = turn
    BY ReqType DEF Req, Types
  <2>2. Post(r) /\ ids' \in {ids + 1, ids + 2}
    BY <1>7 DEF SendAndCancel
  <2>3. proc # 0 /\ waitId' = ids + 1 /\ ids \in Nat /\ ids > 0
    BY <2>2 DEF Post, Types, ObjectOK, IdInv
  <2>4. at' = "idle" /\ cut' = cut \cup {turn} /\ ~InPrompt'
    BY <1>7 DEF Abandon, InPrompt
  <2> HIDE DEF r
  <2>5. OpenFrom({r})
    BY <1>1, <2>1, <2>2, OpenSends
  <2>6. proc \in Proc /\ proc <= spawned
    BY <2>3 DEF Types, ObjectOK, Proc
  <2>7. /\ duty' = [duty EXCEPT ![proc] = IF proc \in alive THEN duty[proc] \cup {r}
                                                            ELSE duty[proc]]
        /\ duty \in [Proc -> SUBSET Request]
    BY <2>2 DEF Post, Types, QueuesOK
  <2>8. Open' \subseteq Open \cup {r}
    BY <1>1, <2>3, <2>6, <2>7 DEF Open
  <2>9. Coming \subseteq Message /\ Open \subseteq Request
    BY <2>3, <2>6, <2>7, RangeTypes DEF Types, QueuesOK, Coming, Open
  <2>10. ReaderInv'
    BY <1>1, <2>6, <2>7 DEF ReaderInv, Types, ObjectOK, Proc
  <2>11. IdInv'
    <3>1. \A m \in Coming : m.id <= ids /\ m.id \in Nat
      BY <2>9 DEF IdInv, Message
    <3>2. \A m \in Coming' : /\ m.id <= ids'
                             /\ proc' # 0 => m.proc = proc'
                             /\ m.kind = "eof" => proc' \notin reading'
      BY <1>1, <1>3, <2>2, <2>3, <3>1 DEF IdInv
    <3>3. proc' # 0 => \A m \in Range(pipe'[proc']) : m.kind # "eof"
      BY <1>1 DEF IdInv
    <3>4. \A q \in Open : q.id <= ids /\ q.id \in Nat
      BY <2>9 DEF IdInv, Request
    <3>5. \A q \in Open' : q.id <= ids'
      BY <2>1, <2>2, <2>3, <2>8, <3>4
    <3>6. \A q, s \in Open' : q.id = s.id => q = s
      BY <2>5 DEF OpenFrom
    <3>7. ids' > 0 /\ waitId' <= ids'
      BY <2>2, <2>3
    <3> QED BY <2>4, <3>2, <3>3, <3>5, <3>6, <3>7 DEF IdInv
  <2>12. TurnInv'
    <3>1. text' \subseteq {turn', 0} \cup cut'
      BY <1>1, <2>4 DEF TurnInv
    <3>2. \A m \in Coming' : m.kind \in {"chunk", "ask"}
                               => m.turn \in cut' \/ History(m)
      BY <1>1, <1>3, <2>4 DEF TurnInv
    <3>3. \A q \in Open' : IF q.kind = "prompt" THEN q.turn \in cut' ELSE q.turn = 0
      BY <1>1, <2>1, <2>4, <2>8 DEF TurnInv
    <3> QED BY <2>4, <3>1, <3>2, <3>3 DEF TurnInv
  <2>13. OrderInv' /\ WakeInv'
    BY <2>4 DEF OrderInv, WakeInv
  <2>14. ProcessInv'
    <3> SUFFICES ASSUME "race" \notin Fault, "badinit" \notin Fault PROVE ProcessInv'
      BY DEF ProcessInv
    <3>1. \A q \in Open' : q.kind # "initialize" => q.id > 1
      BY <2>1, <2>3, <2>8 DEF ProcessInv
    <3> QED BY <1>1, <1>3, <1>7, <2>4, <3>1 DEF ProcessInv
  <2> QED BY <2>10, <2>11, <2>12, <2>13, <2>14
<1> QED BY <1>4, <1>5, <1>6, <1>7 DEF Replied

LEMMA NotRepliedCore ==
  ASSUME Types, Types', Core, NotReplied
  PROVE  Core'
<1> USE DEF Core
<1>1. /\ inbox # <<>> /\ Requeue(Tail(inbox))
      /\ \/ Head(inbox).kind = "eof"
         \/ Head(inbox).kind = "refusal" /\ Head(inbox).id = waitId
      /\ at \in {"init", "load", "new"} /\ ~InPrompt
      /\ UNCHANGED <<listed, proc, ready, own, spawned, alive, reading, pipe,
                     turn, text>>
  BY DEF NotReplied, processVars, objectVars, turnVars, Waiting, IsReply, InPrompt
<1>2. /\ stash' = <<>> /\ Range(stash') = {}
      /\ Range(inbox') = Range(Tail(inbox)) \cup Range(stash)
      /\ Range(inbox) = {Head(inbox)} \cup Range(Tail(inbox))
      /\ Head(inbox) \in Coming
  BY <1>1, RequeueFacts
<1>3. Coming' \subseteq Coming
  BY <1>1, <1>2 DEF Coming
<1>4. CASE /\ at = "load" /\ at' = "new"
           /\ Send(Req("session")) /\ UNCHANGED cut
  <2> DEFINE r == Req("session")
  <2>1. r \in Request /\ r.id = ids + 1 /\ r.turn = 0 /\ r.kind = "session"
    BY ReqType DEF Types
  <2>2. Send(r) /\ ~InPrompt'
    BY <1>4 DEF InPrompt
  <2> HIDE DEF r
  <2>3. /\ IdInv' /\ TurnInv' /\ OrderInv'
        /\ ids' = ids + 1 /\ waitId' = ids + 1 /\ ids \in Nat /\ ids > 0
        /\ Open' \subseteq Open \cup {r}
        /\ \A x \in Proc : x > spawned => duty'[x] = {}
    BY <1>1, <1>3, <1>4, <2>1, <2>2, SendsSession
  <2>4. ReaderInv'
    BY <1>1, <2>3 DEF ReaderInv
  <2>5. Coming \subseteq Message
    <3>1. proc \in Proc \/ proc = 0
      BY DEF Types, ObjectOK, Proc
    <3> QED BY <3>1, RangeTypes DEF Types, QueuesOK, Coming
  <2>6. \A m \in Coming : m.id # waitId'
    BY <2>3, <2>5 DEF IdInv, Message
  <2>7. \A m \in Range(inbox') \cup Range(stash') : m.id # waitId'
    BY <1>3, <2>6 DEF Coming
  <2>8. WakeInv'
    BY <1>4, <2>2, <2>7 DEF WakeInv
  <2>9. ProcessInv'
    <3> SUFFICES ASSUME "race" \notin Fault, "badinit" \notin Fault PROVE ProcessInv'
      BY DEF ProcessInv
    <3>1. \A q \in Open' : q.kind # "initialize" => q.id > 1
      BY <2>1, <2>3 DEF ProcessInv
    <3> QED BY <1>1, <1>3, <1>4, <3>1 DEF ProcessInv
  <2> QED BY <2>3, <2>4, <2>8, <2>9
<1>5. CASE Abandon /\ UNCHANGED <<clientVars, duty>>
  <2>1. UNCHANGED <<ids, waitId, duty>> /\ at' = "idle"
    BY <1>5 DEF clientVars, Abandon
  <2>2. Open' = Open
    BY <1>1, <2>1 DEF Open
  <2>3. IdInv' /\ TurnInv' /\ OrderInv' /\ ~InPrompt'
    BY <1>1, <1>3, <1>5, <2>1, <2>2, Abandons
  <2>4. ReaderInv' /\ WakeInv'
    BY <1>1, <2>1, <2>3 DEF ReaderInv, WakeInv
  <2>5. ProcessInv'
    <3> SUFFICES ASSUME "race" \notin Fault, "badinit" \notin Fault PROVE ProcessInv'
      BY DEF ProcessInv
    <3>1. at = "init" => proc \notin alive
      <4>1. CASE Head(inbox).kind = "eof"
        BY <1>2, <4>1 DEF IdInv, ProcessInv
      <4>2. CASE Head(inbox).kind = "refusal" /\ Head(inbox).id = waitId
        BY <1>2, <4>2 DEF ProcessInv
      <4> QED BY <1>1, <4>1, <4>2
    <3> QED BY <1>1, <1>3, <2>1, <2>2, <3>1 DEF ProcessInv
  <2> QED BY <2>3, <2>4, <2>5
<1> QED BY <1>4, <1>5 DEF NotReplied

LEMMA WaitTimeoutCore ==
  ASSUME Types, Types', Core, WaitTimeout
  PROVE  Core'
<1> USE DEF Core
<1>1. /\ Requeue(inbox) /\ at \in {"init", "load", "new"} /\ ~InPrompt
      /\ UNCHANGED <<listed, own, spawned, turn, text>>
  BY DEF WaitTimeout, turnVars, Waiting, InPrompt
<1>2. Range(stash') = {} /\ Range(inbox') = Range(inbox) \cup Range(stash)
  <2>1. inbox' = inbox \o stash /\ stash' = <<>>
    BY <1>1 DEF Requeue
  <2>2. Range(inbox \o stash) = Range(inbox) \cup Range(stash)
    BY ConcatFacts DEF Types, QueuesOK
  <2> QED BY <2>1, <2>2, EmptyFacts
<1>3. CASE /\ at = "init" /\ StopObject /\ Abandon /\ UNCHANGED clientVars
  <2>1. /\ proc' = 0 /\ alive' = alive \ {proc} /\ reading' = reading \ {proc}
        /\ pipe' = [p \in Proc |-> IF p = proc THEN <<>> ELSE pipe[p]]
        /\ duty' = [p \in Proc |-> IF p = proc THEN {} ELSE duty[p]]
        /\ at' = "idle" /\ ~InPrompt' /\ cut' = cut \cup {turn}
        /\ UNCHANGED <<ids, waitId>>
    BY <1>3 DEF StopObject, Abandon, clientVars, InPrompt
  <2>2. Coming' \subseteq Coming /\ Open' = {}
    BY <1>2, <2>1 DEF Coming, Open
  <2>3. OpenFrom({})
    BY <2>2, OpenShrinks
  <2>4. Settles({})
    BY <1>1, <2>1, <2>2, <2>3 DEF Settles, IdInv, TurnInv
  <2>5. IdInv' /\ TurnInv' /\ OrderInv'
    BY <1>1, <2>1, <2>4, SettledIds, Outside
  <2>6. 0 \notin alive' /\ alive' \subseteq alive
    BY <2>1 DEF Types, ObjectOK
  <2>7. ReaderInv'
    BY <1>1, <2>1, <2>6 DEF ReaderInv
  <2>8. WakeInv'
    BY <2>1 DEF WakeInv
  <2>9. ProcessInv'
    BY <1>1, <2>1, <2>2, <2>6 DEF ProcessInv
  <2> QED BY <2>5, <2>7, <2>8, <2>9
<1>4. CASE /\ at = "load" /\ Send(Req("session")) /\ at' = "new"
           /\ UNCHANGED <<proc, ready, alive, reading, pipe, cut>>
  <2> DEFINE r == Req("session")
  <2>1. r \in Request /\ r.id = ids + 1 /\ r.turn = 0 /\ r.kind = "session"
    BY ReqType DEF Types
  <2>2. Send(r) /\ ~InPrompt' /\ Coming' \subseteq Coming
    BY <1>2, <1>4 DEF InPrompt, Coming
  <2> HIDE DEF r
  <2>3. /\ IdInv' /\ TurnInv' /\ OrderInv'
        /\ ids' = ids + 1 /\ waitId' = ids + 1 /\ ids \in Nat /\ ids > 0
        /\ Open' \subseteq Open \cup {r}
        /\ \A x \in Proc : x > spawned => duty'[x] = {}
    BY <1>1, <1>4, <2>1, <2>2, SendsSession
  <2>4. ReaderInv'
    BY <1>1, <1>4, <2>3 DEF ReaderInv
  <2>5. Coming \subseteq Message
    <3>1. proc \in Proc \/ proc = 0
      BY DEF Types, ObjectOK, Proc
    <3> QED BY <3>1, RangeTypes DEF Types, QueuesOK, Coming
  <2>6. \A m \in Coming : m.id # waitId'
    BY <2>3, <2>5 DEF IdInv, Message
  <2>7. \A m \in Range(inbox') \cup Range(stash') : m.id # waitId'
    BY <2>2, <2>6 DEF Coming
  <2>8. WakeInv'
    BY <1>4, <2>2, <2>7 DEF WakeInv
  <2>9. ProcessInv'
    <3> SUFFICES ASSUME "race" \notin Fault, "badinit" \notin Fault PROVE ProcessInv'
      BY DEF ProcessInv
    <3>1. \A q \in Open' : q.kind # "initialize" => q.id > 1
      BY <2>1, <2>3 DEF ProcessInv
    <3> QED BY <1>1, <1>4, <2>2, <3>1 DEF ProcessInv
  <2> QED BY <2>3, <2>4, <2>8, <2>9
<1>5. CASE /\ at # "init" /\ Abandon
           /\ UNCHANGED <<proc, ready, alive, reading, pipe, duty, clientVars>>
  <2>1. UNCHANGED <<ids, waitId>> /\ at' = "idle"
    BY <1>5 DEF clientVars, Abandon
  <2>2. Open' = Open /\ Coming' \subseteq Coming
    BY <1>2, <1>5 DEF Open, Coming
  <2>3. IdInv' /\ TurnInv' /\ OrderInv' /\ ~InPrompt'
    BY <1>1, <1>5, <2>1, <2>2, Abandons
  <2>4. ReaderInv' /\ WakeInv'
    BY <1>1, <1>5, <2>1, <2>3 DEF ReaderInv, WakeInv
  <2>5. ProcessInv'
    BY <1>1, <1>5, <2>1, <2>2 DEF ProcessInv
  <2> QED BY <2>3, <2>4, <2>5
<1> QED BY <1>3, <1>4, <1>5 DEF WaitTimeout

\* The messages of the prompt.
LEMMA PromptTakes ==
  ASSUME Types, at = "prompt", inbox # <<>>, inbox' = Tail(inbox),
         UNCHANGED <<proc, pipe, stash>>
  PROVE  /\ InPrompt /\ stash = <<>>
         /\ Range(inbox) = {Head(inbox)} \cup Range(inbox')
         /\ Head(inbox) \in Coming /\ Head(inbox) \in Message
         /\ Coming' \subseteq Coming
         /\ Coming' = Range(inbox') \cup (IF proc = 0 THEN {} ELSE Range(pipe[proc]))
         /\ Range(inbox) \subseteq Coming
<1>1. inbox \in Seq(Message) /\ stash = <<>> /\ InPrompt
  BY DEF Types, QueuesOK, Waiting, InPrompt
<1>2. Range(inbox) = {Head(inbox)} \cup Range(inbox') /\ Head(inbox) \in Message
  BY <1>1, TailFacts
<1>3. Coming' = Range(inbox') \cup (IF proc = 0 THEN {} ELSE Range(pipe[proc]))
  BY <1>1, EmptyFacts DEF Coming
<1> QED BY <1>1, <1>2, <1>3 DEF Coming

LEMMA PromptRepliedCore ==
  ASSUME Types, Types', Core, PromptReplied
  PROVE  Core' /\ Head(inbox).turn = turn
<1> USE DEF Core
<1>1. /\ inbox # <<>> /\ inbox' = Tail(inbox) /\ at = "prompt" /\ at' = "idle"
      /\ Head(inbox).kind = "response" /\ Head(inbox).id = waitId /\ ~InPrompt'
      /\ UNCHANGED <<listed, proc, ready, own, spawned, alive, reading, pipe, duty,
                     ids, waitId, stash, turn, text, cut>>
  BY DEF PromptReplied, objectVars, processVars, clientVars, turnVars, IsReply, InPrompt
<1>2. /\ InPrompt /\ stash = <<>>
      /\ Range(inbox) = {Head(inbox)} \cup Range(inbox')
      /\ Head(inbox) \in Coming
      /\ Coming' \subseteq Coming
      /\ Coming' = Range(inbox') \cup (IF proc = 0 THEN {} ELSE Range(pipe[proc]))
      /\ Range(inbox) \subseteq Coming
  BY <1>1, PromptTakes
<1>3. Head(inbox).turn = turn
  BY <1>1, <1>2 DEF TurnInv
<1>4. Head(inbox) \in Answers(Range(inbox)) /\ Head(inbox) \in Answers(Coming)
  BY <1>1, <1>2 DEF Answers
<1>5. Final(inbox) /\ inbox \in Seq(Message)
  BY <1>2 DEF OrderInv, Types, QueuesOK
<1>6. Silent(Range(inbox'))
  BY <1>1, <1>4, <1>5, FinalTail
<1>7. proc # 0 => Silent(Range(pipe[proc])) /\ Silent(Open)
  BY <1>2, <1>4 DEF OrderInv
<1>8. Open' = Open /\ Silent(Open')
  BY <1>1, <1>7 DEF Open, Silent
<1>9. Silent(Coming')
  BY <1>1, <1>2, <1>6, <1>7 DEF Silent
<1>10. OpenFrom({})
  BY <1>8, OpenShrinks
<1>11. Settles({})
  BY <1>1, <1>2, <1>10 DEF Settles, IdInv, TurnInv
<1>12. IdInv' /\ TurnInv' /\ OrderInv'
  BY <1>1, <1>8, <1>9, <1>11, SettledIds, Outside
<1>13. ReaderInv' /\ WakeInv'
  BY <1>1 DEF ReaderInv, WakeInv
<1>14. ProcessInv'
  BY <1>1, <1>2, <1>8 DEF ProcessInv
<1> QED BY <1>3, <1>12, <1>13, <1>14

LEMMA PromptEofCore ==
  ASSUME Types, Types', Core, PromptEof
  PROVE  Core'
<1> USE DEF Core
<1>1. /\ inbox # <<>> /\ inbox' = Tail(inbox) /\ at = "prompt" /\ at' = "idle"
      /\ cut' = cut \cup {turn} /\ ~InPrompt'
      /\ UNCHANGED <<listed, proc, ready, own, spawned, alive, reading, pipe, duty,
                     ids, waitId, stash, turn, text>>
  BY DEF PromptEof, Abandon, objectVars, processVars, clientVars, turnVars, InPrompt
<1>2. InPrompt /\ Coming' \subseteq Coming
  BY <1>1, PromptTakes
<1>3. Open' = Open
  BY <1>1 DEF Open
<1>4. OpenFrom({})
  BY <1>3, OpenShrinks
<1>5. Settles({})
  BY <1>1, <1>2, <1>4 DEF Settles, IdInv, TurnInv
<1>6. IdInv' /\ TurnInv' /\ OrderInv'
  BY <1>1, <1>5, SettledIds, Outside
<1>7. ReaderInv' /\ WakeInv'
  BY <1>1 DEF ReaderInv, WakeInv
<1>8. ProcessInv'
  BY <1>1, <1>2, <1>3 DEF ProcessInv
<1> QED BY <1>6, <1>7, <1>8

LEMMA PromptUpdateCore ==
  ASSUME Types, Types', Core, PromptUpdate
  PROVE  Core'
<1> USE DEF Core
<1> DEFINE m == Head(inbox)
<1>1. /\ inbox # <<>> /\ inbox' = Tail(inbox) /\ at = "prompt"
      /\ m.kind \in {"chunk", "response", "refusal"}
      /\ text' = IF m.kind = "chunk" THEN text \cup {m.turn} ELSE text
      /\ UNCHANGED <<listed, proc, ready, own, spawned, alive, reading, pipe, duty,
                     waitId, stash, turn>>
  BY DEF PromptUpdate, objectVars, processVars
<1>2. /\ \/ at' = "prompt" /\ cut' = cut /\ InPrompt'
         \/ at' = "idle" /\ cut' = cut \cup {turn} /\ ~InPrompt'
      /\ ids' \in {ids, ids + 1}
  BY DEF PromptUpdate, LoopOrCancel, Abandon, InPrompt
<1>3. /\ InPrompt /\ m \in Coming /\ Coming' \subseteq Coming
      /\ Range(inbox) = {m} \cup Range(inbox')
  BY <1>1, PromptTakes
<1> HIDE DEF m
<1>4. Open' = Open
  BY <1>1 DEF Open
<1>5. OpenFrom({})
  BY <1>4, OpenShrinks
<1>6. text' \subseteq {turn', 0} \cup cut'
  <2>1. m.kind = "chunk" => m.turn \in cut \cup {turn, 0}
    BY <1>3 DEF TurnInv, History
  <2> QED BY <1>1, <1>2, <2>1 DEF TurnInv
<1>7. waitId' <= ids' /\ waitId > 0
  BY <1>1, <1>2, <1>3 DEF IdInv, Types, ObjectOK
<1>8. Settles({})
  BY <1>1, <1>2, <1>3, <1>5, <1>6, <1>7 DEF Settles
<1>9. IdInv'
  BY <1>1, <1>3, <1>7, <1>8, SettledIds
<1>10. TurnInv' /\ OrderInv'
  <2>1. CASE InPrompt'
    BY <1>1, <1>3, <1>8, <2>1, Inside
  <2>2. CASE ~InPrompt'
    BY <1>2, <1>8, <2>2, Outside
  <2> QED BY <2>1, <2>2
<1>11. ReaderInv'
  BY <1>1 DEF ReaderInv
<1>12. WakeInv'
  BY <1>1, <1>2, <1>3 DEF WakeInv, Wakes
<1>13. ProcessInv'
  BY <1>1, <1>2, <1>3, <1>4 DEF ProcessInv
<1> QED BY <1>9, <1>10, <1>11, <1>12, <1>13

LEMMA PromptAsksCore ==
  ASSUME Types, Types', Core, PromptAsks
  PROVE  Core'
<1> USE DEF Core
<1>1. /\ inbox # <<>> /\ inbox' = Tail(inbox) /\ at = "prompt" /\ at' = "perm"
      /\ Head(inbox).kind = "ask" /\ InPrompt'
      /\ UNCHANGED <<listed, proc, ready, own, spawned, alive, reading, pipe, duty,
                     ids, waitId, stash, turn, text, cut>>
  BY DEF PromptAsks, objectVars, processVars, clientVars, InPrompt
<1>2. /\ InPrompt /\ Coming' \subseteq Coming
      /\ Range(inbox) = {Head(inbox)} \cup Range(inbox')
  BY <1>1, PromptTakes
<1>3. Open' = Open
  BY <1>1 DEF Open
<1>4. OpenFrom({})
  BY <1>3, OpenShrinks
<1>5. Settles({}) /\ waitId > 0
  BY <1>1, <1>2, <1>4 DEF Settles, IdInv, TurnInv
<1>6. IdInv'
  BY <1>1, <1>2, <1>5, SettledIds
<1>7. TurnInv' /\ OrderInv'
  BY <1>1, <1>2, <1>5, Inside
<1>8. ReaderInv'
  BY <1>1 DEF ReaderInv
<1>9. WakeInv'
  BY <1>1, <1>2 DEF WakeInv, Wakes
<1>10. ProcessInv'
  BY <1>1, <1>2, <1>3 DEF ProcessInv
<1> QED BY <1>6, <1>7, <1>8, <1>9, <1>10

LEMMA AnsweredCore ==
  ASSUME Types, Types', Core, Answered
  PROVE  Core'
<1> USE DEF Core
<1>1. /\ at = "perm" /\ InPrompt
      /\ UNCHANGED <<listed, proc, ready, own, spawned, alive, reading, pipe,
                     waitId, inbox, stash, turn, text>>
  BY DEF Answered, objectVars, processVars, InPrompt
<1>2. /\ \/ at' = "prompt" /\ cut' = cut /\ InPrompt'
         \/ at' = "idle" /\ cut' = cut \cup {turn} /\ ~InPrompt'
      /\ ids' \in {ids, ids + 1}
  BY DEF Answered, LoopOrCancel, Abandon, InPrompt
<1>3. Coming' = Coming
  BY <1>1 DEF Coming
<1>4. /\ OpenFrom({})
      /\ \A r \in Open' : \E q \in Open : q.id = r.id /\ q.kind = r.kind
      /\ \A x \in Proc : x > spawned => duty'[x] = {}
  <2>1. CASE duty' = duty
    <3>1. Open' = Open
      BY <1>1, <2>1 DEF Open
    <3> QED BY <2>1, <3>1, OpenShrinks DEF ReaderInv
  <2>2. CASE proc # 0 /\ duty' = [duty EXCEPT ![proc] =
             {IF r.turn = shownAsk THEN [r EXCEPT !.blocked = FALSE] ELSE r :
                r \in @}]
    <3> DEFINE F(r) == IF r.turn = shownAsk THEN [r EXCEPT !.blocked = FALSE] ELSE r
    <3>1. proc \in Proc /\ proc <= spawned /\ duty \in [Proc -> SUBSET Request]
      BY <2>2 DEF Types, ObjectOK, QueuesOK, Proc
    <3>2. Open = duty[proc] /\ Open' = {F(r) : r \in duty[proc]}
      BY <1>1, <2>2, <3>1 DEF Open
    <3>3. \A r \in Request : /\ F(r).id = r.id /\ F(r).turn = r.turn
                             /\ F(r).kind = r.kind
      BY DEF Request
    <3> HIDE DEF F
    <3>4. \A s \in Open' : \E q \in Open : s = F(q) /\ q \in Request
      BY <3>1, <3>2
    <3>5. \A s \in Open' : \E q \in Open : /\ q.id = s.id /\ q.turn = s.turn
                                           /\ q.kind = s.kind
      BY <3>3, <3>4
    <3>6. ASSUME NEW s \in Open', NEW t \in Open', s.id = t.id PROVE s = t
      <4>1. PICK q \in Open : s = F(q) /\ q \in Request
        BY <3>4
      <4>2. PICK u \in Open : t = F(u) /\ u \in Request
        BY <3>4
      <4>3. q.id = u.id
        BY <3>3, <3>6, <4>1, <4>2
      <4> QED BY <4>1, <4>2, <4>3 DEF IdInv
    <3>7. OpenFrom({})
      BY <3>5, <3>6 DEF OpenFrom
    <3>8. \A x \in Proc : x > spawned => duty'[x] = {}
      BY <2>2, <3>1 DEF ReaderInv, Types, ObjectOK, Proc
    <3> QED BY <3>5, <3>7, <3>8
  <2> QED BY <2>1, <2>2 DEF Answered
<1>5. waitId' <= ids' /\ waitId > 0
  BY <1>1, <1>2 DEF IdInv, Types, ObjectOK
<1>6. Settles({})
  BY <1>1, <1>2, <1>3, <1>4, <1>5 DEF Settles, TurnInv
<1>7. IdInv'
  BY <1>1, <1>5, <1>6, SettledIds
<1>8. TurnInv' /\ OrderInv'
  <2>1. CASE InPrompt'
    BY <1>1, <1>6, <2>1, Inside
  <2>2. CASE ~InPrompt'
    BY <1>2, <1>6, <2>2, Outside
  <2> QED BY <2>1, <2>2
<1>9. ReaderInv'
  BY <1>1, <1>4 DEF ReaderInv
<1>10. WakeInv'
  BY <1>1, <1>2 DEF WakeInv, Wakes
<1>11. ProcessInv'
  <2> SUFFICES ASSUME "race" \notin Fault, "badinit" \notin Fault PROVE ProcessInv'
    BY DEF ProcessInv
  <2>1. \A q \in Open' : q.kind # "initialize" => q.id > 1
    BY <1>4 DEF ProcessInv
  <2> QED BY <1>1, <1>2, <1>3, <2>1 DEF ProcessInv
<1> QED BY <1>7, <1>8, <1>9, <1>10, <1>11

\* A cancelled permission and the deadline leave the queues alone.
LEMMA CutShortCore ==
  ASSUME Types, Types', Core, PermissionCancelled \/ Deadline
  PROVE  Core'
<1> USE DEF Core
<1>1. /\ at \in {"prompt", "perm"} /\ at' \in {"idle", "evict"}
      /\ InPrompt /\ ~InPrompt' /\ cut' = cut \cup {turn}
      /\ ids' \in {ids, ids + 1}
      /\ UNCHANGED <<listed, proc, ready, own, spawned, alive, reading, pipe, duty,
                     waitId, inbox, stash, turn, text>>
  BY DEF PermissionCancelled, Deadline, Abandon, objectVars, processVars,
     clientVars, turnVars, InPrompt
<1>2. Coming' = Coming /\ Open' = Open
  BY <1>1 DEF Coming, Open
<1>3. OpenFrom({})
  BY <1>2, OpenShrinks
<1>4. waitId' <= ids'
  BY <1>1 DEF IdInv, Types, ObjectOK
<1>5. Settles({})
  BY <1>1, <1>2, <1>3, <1>4 DEF Settles, TurnInv
<1>6. IdInv' /\ TurnInv' /\ OrderInv'
  BY <1>1, <1>5, SettledIds, Outside
<1>7. ReaderInv' /\ WakeInv'
  BY <1>1 DEF ReaderInv, WakeInv
<1>8. ProcessInv'
  BY <1>1, <1>2 DEF ProcessInv
<1> QED BY <1>6, <1>7, <1>8

\* A runtime that is stopped keeps its queue and has no process.
LEMMA RemoveCore ==
  ASSUME Types, Types', Core, Evict \/ Remove
  PROVE  Core'
<1> USE DEF Core
<1>1. /\ RegistryRemove /\ listed' = FALSE
      /\ \/ at = "evict" /\ at' = "idle" /\ ~InPrompt /\ ~InPrompt'
         \/ at' = at /\ InPrompt' = InPrompt /\ listed
            /\ (at \in {"ensure", "init"} => "race" \in Fault)
      /\ UNCHANGED <<own, spawned, ids, waitId, inbox, stash, turn, text, cut>>
  BY DEF Evict, Remove, RegistryRemove, clientVars, turnVars, InPrompt
<1>2. 0 \notin alive
  BY DEF Types, ObjectOK
<1>3. CASE ~listed
  <2>1. /\ UNCHANGED <<proc, ready, reading, alive, pipe, duty>>
        /\ at' = "idle" /\ ~InPrompt /\ ~InPrompt'
    BY <1>1, <1>3 DEF RegistryRemove
  <2>2. Coming' = Coming /\ Open' = Open
    BY <1>1, <2>1 DEF Coming, Open
  <2>3. OpenFrom({})
    BY <2>2, OpenShrinks
  <2>4. Settles({})
    BY <1>1, <2>1, <2>2, <2>3 DEF Settles, IdInv, TurnInv
  <2>5. IdInv' /\ TurnInv' /\ OrderInv'
    BY <2>1, <2>4, SettledIds, Outside
  <2>6. ReaderInv' /\ WakeInv'
    BY <1>1, <2>1 DEF ReaderInv, WakeInv
  <2>7. ProcessInv'
    BY <1>1, <1>2, <1>3, <2>1, <2>2 DEF ProcessInv
  <2> QED BY <2>5, <2>6, <2>7
<1>4. CASE listed
  <2>1. /\ proc' = 0 /\ alive' = alive \ {proc} /\ reading' = reading \ {proc}
        /\ pipe' = [p \in Proc |-> IF p = proc THEN <<>> ELSE pipe[p]]
        /\ duty' = [p \in Proc |-> IF p = proc THEN {} ELSE duty[p]]
    BY <1>1, <1>4 DEF RegistryRemove, StopObject
  <2>2. Coming' \subseteq Coming /\ Open' = {}
    BY <1>1, <2>1 DEF Coming, Open
  <2>3. OpenFrom({})
    BY <2>2, OpenShrinks
  <2>4. Settles({})
    BY <1>1, <2>1, <2>2, <2>3 DEF Settles, IdInv, TurnInv
  <2>5. InPrompt' => InPrompt /\ waitId > 0
    BY <1>1 DEF IdInv
  <2>6. IdInv'
    BY <1>1, <2>4, <2>5, SettledIds
  <2>7. TurnInv' /\ OrderInv'
    <3>1. CASE InPrompt'
      BY <1>1, <2>4, <2>5, <3>1, Inside
    <3>2. CASE ~InPrompt'
      BY <1>1, <2>4, <3>2, Outside
    <3> QED BY <3>1, <3>2
  <2>8. ReaderInv'
    BY <1>1, <1>2, <2>1 DEF ReaderInv
  <2>9. WakeInv'
    BY <2>1 DEF WakeInv, Wakes
  <2>10. ProcessInv'
    BY <1>1, <1>2, <2>1, <2>2 DEF ProcessInv
  <2> QED BY <2>6, <2>7, <2>8, <2>9, <2>10
<1> QED BY <1>3, <1>4

\* The agent says something about an open request, and is done with it if it
\* responds.
LEMMA AgentCore ==
  ASSUME Types, Types', Core, NEW p \in Proc, Agent(p)
  PROVE  Core'
<1> USE DEF Core
<1>1. /\ UNCHANGED <<at, listed, proc, ready, own, spawned, alive, reading, ids,
                     waitId, inbox, stash, turn, text, cut>>
      /\ InPrompt' = InPrompt
  BY DEF Agent, objectVars, clientVars, turnVars, InPrompt
<1>2. PICK r \in duty[p] : Respond(p, r) \/ Chunk(p, r) \/ Ask(p, r)
  BY DEF Agent
<1>3. /\ duty \in [Proc -> SUBSET Request] /\ pipe \in [Proc -> Seq(Message)]
      /\ r \in Request
  BY DEF Types, QueuesOK
<1>4. PICK k \in {"response", "refusal", "chunk", "ask"} :
        /\ Emit(p, k, r)
        /\ \/ /\ k = "response" \/ (k = "refusal" /\
                   (r.kind = "session" \/ (r.kind = "initialize" /\ "badinit" \in Fault)))
              /\ Replace(p, r, {})
           \/ /\ k \in {"chunk", "ask"} /\ (k = "ask" => r.kind = "prompt")
              /\ \E s \in Request :
                   /\ s.id = r.id /\ s.turn = r.turn /\ s.kind = r.kind
                   /\ Replace(p, r, {s})
  <2>1. CASE Respond(p, r)
    BY <2>1 DEF Respond
  <2>2. CASE Chunk(p, r)
    <3> DEFINE s == [r EXCEPT !.say = @ - 1]
    <3>0. r.say - 1 \in Nat
      BY <1>3, <2>2 DEF Chunk, Request
    <3>1. s \in Request /\ s.id = r.id /\ s.turn = r.turn /\ s.kind = r.kind
      BY <1>3, <3>0 DEF Request
    <3>2. Emit(p, "chunk", r) /\ Replace(p, r, {s})
      BY <2>2 DEF Chunk
    <3> HIDE DEF s
    <3> QED BY <3>1, <3>2
  <2>3. CASE Ask(p, r)
    <3> DEFINE t == [r EXCEPT !.say = @ - 1]
    <3>0. r.kind = "prompt" /\ r.say - 1 \in Nat
      BY <1>3, <2>3 DEF Ask, Request
    <3>1. t \in Request /\ t.id = r.id /\ t.turn = r.turn /\ t.kind = r.kind
      BY <1>3, <3>0 DEF Request
    <3> DEFINE s == [t EXCEPT !.blocked = TRUE]
    <3>2. s \in Request /\ s.id = t.id /\ s.turn = t.turn /\ s.kind = t.kind
      BY <3>1 DEF Request
    <3>3. [r EXCEPT !.say = @ - 1, !.blocked = TRUE] = s
      BY <1>3 DEF Request
    <3>4. Replace(p, r, {s})
      BY <2>3, <3>3 DEF Ask
    <3>5. Emit(p, "ask", r)
      BY <2>3 DEF Ask
    <3> HIDE DEF s, t
    <3> QED BY <3>0, <3>1, <3>2, <3>4, <3>5
  <2> QED BY <1>2, <2>1, <2>2, <2>3
<1> DEFINE m == [kind |-> k, id |-> r.id, turn |-> r.turn, proc |-> p]
<1>5. /\ m \in Message
      /\ m.kind = k /\ m.id = r.id /\ m.turn = r.turn /\ m.proc = p
  BY <1>3 DEF Message, Request
<1>6. p \in alive /\ pipe' = [pipe EXCEPT ![p] = Append(pipe[p], m)]
  BY <1>4 DEF Emit
<1> HIDE DEF m
<1>7. PICK new \in SUBSET Request :
        /\ duty' = [duty EXCEPT ![p] = (duty[p] \ {r}) \cup new]
        /\ \/ new = {} /\ k \in {"response", "refusal"}
           \/ k # "response" /\ k # "refusal" /\ (k = "ask" => r.kind = "prompt")
              /\ \E s \in Request : /\ new = {s} /\ s.id = r.id
                                    /\ s.turn = r.turn /\ s.kind = r.kind
        /\ k = "refusal" => r.kind = "session"
                            \/ (r.kind = "initialize" /\ "badinit" \in Fault)
  <2>1. CASE Replace(p, r, {}) /\ k \in {"response", "refusal"}
    <3>1. duty' = [duty EXCEPT ![p] = (duty[p] \ {r}) \cup {}]
      BY <2>1 DEF Replace
    <3>2. k = "refusal" => r.kind = "session"
                           \/ (r.kind = "initialize" /\ "badinit" \in Fault)
      BY <1>4
    <3> WITNESS {} \in SUBSET Request
    <3> QED BY <2>1, <3>1, <3>2
  <2>2. CASE k \in {"chunk", "ask"} /\ (k = "ask" => r.kind = "prompt")
    <3>1. PICK s \in Request : /\ s.id = r.id /\ s.turn = r.turn /\ s.kind = r.kind
                               /\ Replace(p, r, {s})
      BY <1>4, <2>2
    <3>2. duty' = [duty EXCEPT ![p] = (duty[p] \ {r}) \cup {s}]
      BY <3>1 DEF Replace
    <3> WITNESS {s} \in SUBSET Request
    <3> QED BY <2>2, <3>1, <3>2
  <2> QED BY <1>4, <2>1, <2>2
<1>8. p <= spawned /\ p # 0
  BY <1>6 DEF Types, ObjectOK, Proc
<1>9. ReaderInv'
  <2>1. \A x \in Proc : x > spawned => x # p /\ pipe'[x] = pipe[x] /\ duty'[x] = duty[x]
    BY <1>3, <1>6, <1>7, <1>8 DEF Types, ObjectOK, Proc
  <2> QED BY <1>1, <2>1 DEF ReaderInv
<1>10. WakeInv'
  BY <1>1 DEF WakeInv, Wakes
<1>11. CASE p # proc
  <2>1. proc # 0 => /\ proc \in Proc /\ pipe'[proc] = pipe[proc]
                    /\ duty'[proc] = duty[proc]
    BY <1>3, <1>6, <1>7, <1>11 DEF Types, ObjectOK, Proc
  <2>2. Coming' = Coming /\ Open' = Open
    BY <1>1, <2>1 DEF Coming, Open
  <2>3. OpenFrom({})
    BY <2>2, OpenShrinks
  <2>4. Settles({}) /\ (InPrompt' => InPrompt /\ waitId > 0)
    BY <1>1, <2>1, <2>2, <2>3 DEF Settles, IdInv, TurnInv
  <2>5. IdInv'
    BY <1>1, <2>4, SettledIds
  <2>6. TurnInv' /\ OrderInv'
    <3>1. CASE InPrompt'
      BY <1>1, <2>4, <3>1, Inside
    <3>2. CASE ~InPrompt'
      BY <1>1, <2>4, <3>2, Outside
    <3> QED BY <3>1, <3>2
  <2>7. ProcessInv'
    BY <1>1, <2>2 DEF ProcessInv
  <2> QED BY <1>9, <1>10, <2>5, <2>6, <2>7
<1>12. CASE p = proc
  <2>1. /\ pipe'[proc] = Append(pipe[proc], m) /\ pipe[proc] \in Seq(Message)
        /\ Range(pipe'[proc]) = Range(pipe[proc]) \cup {m}
    BY <1>3, <1>5, <1>6, <1>12, AppendFacts
  <2>2. Coming' = Coming \cup {m} /\ r \in Open
    BY <1>1, <1>8, <1>12, <2>1 DEF Coming, Open
  <2>3. Open' = (Open \ {r}) \cup new
    BY <1>1, <1>3, <1>7, <1>8, <1>12 DEF Open
  <2>4. \A s \in Open' : \E q \in Open : /\ q.id = s.id /\ q.turn = s.turn
                                         /\ q.kind = s.kind
    BY <1>7, <2>2, <2>3
  <2>5. ASSUME NEW s \in Open', NEW t \in Open', s.id = t.id PROVE s = t
    BY <1>7, <2>2, <2>3, <2>5 DEF IdInv
  <2>6. r.id <= ids
    BY <2>2 DEF IdInv
  <2>7. IdInv'
    <3>1. \A x \in Coming' : /\ x.id <= ids'
                             /\ proc' # 0 => x.proc = proc'
                             /\ x.kind = "eof" => proc' \notin reading'
      BY <1>1, <1>5, <1>12, <2>2, <2>6 DEF IdInv
    <3>2. proc' # 0 => \A x \in Range(pipe'[proc']) : x.kind # "eof"
      BY <1>1, <1>5, <2>1 DEF IdInv
    <3>3. \A s \in Open' : s.id <= ids'
      BY <1>1, <2>4 DEF IdInv
    <3> QED BY <1>1, <2>5, <3>1, <3>2, <3>3 DEF IdInv
  <2>8. TurnInv'
    <3>1. \A x \in Coming' :
            /\ InPrompt /\ x.id = waitId => x.turn = turn
            /\ x.kind \in {"chunk", "ask"} =>
                 x.turn \in cut \/ (InPrompt /\ x.id = waitId) \/ History(x)
      <4>1. \A x \in Coming :
            /\ InPrompt /\ x.id = waitId => x.turn = turn
            /\ x.kind \in {"chunk", "ask"} =>
                 x.turn \in cut \/ (InPrompt /\ x.id = waitId) \/ History(x)
        BY DEF TurnInv
      <4>2. /\ InPrompt /\ m.id = waitId => m.turn = turn
            /\ m.kind \in {"chunk", "ask"} =>
                 m.turn \in cut \/ (InPrompt /\ m.id = waitId) \/ History(m)
        BY <1>5, <1>7, <2>2 DEF TurnInv, History
      <4> QED BY <2>2, <4>1, <4>2
    <3>2. \A s \in Open' :
            /\ InPrompt /\ s.id = waitId => s.turn = turn
            /\ IF s.kind = "prompt" THEN s.turn \in cut \/ (InPrompt /\ s.id = waitId)
               ELSE s.turn = 0
      BY <2>4 DEF TurnInv
    <3> QED BY <1>1, <3>1, <3>2 DEF TurnInv
  <2>9. OrderInv'
    <3> SUFFICES ASSUME InPrompt PROVE OrderInv'
      BY <1>1 DEF OrderInv
    <3>1. /\ Final(inbox) /\ Final(pipe[proc])
          /\ Answers(Range(inbox)) # {} => Silent(Range(pipe[proc]))
          /\ Answers(Coming) # {} => Silent(Open)
      BY <1>8, <1>12 DEF OrderInv
    <3>2. Range(inbox) \subseteq Coming /\ Range(pipe[proc]) \subseteq Coming
      BY <1>8, <1>12 DEF Coming
    <3>3. Answers(Coming) # {} => m.id # waitId
      BY <1>5, <2>2, <3>1 DEF Silent
    <3>4. Final(Append(pipe[proc], m))
      BY <1>5, <2>1, <3>1, <3>2, <3>3, FinalAppend DEF Answers
    <3>5. Answers(Range(inbox)) # {} => Silent(Range(pipe'[proc]))
      BY <2>1, <3>1, <3>2, <3>3 DEF Answers, Silent
    <3>6. Answers(Coming') # {} => Silent(Open')
      <4>1. CASE Answers(Coming) # {}
        BY <2>4, <3>1, <4>1 DEF Silent
      <4>2. CASE Answers(Coming) = {} /\ Answers(Coming') # {}
        <5>1. m.kind = "response" /\ m.id = waitId
          BY <2>2, <4>2 DEF Answers
        <5>2. Open' = Open \ {r} /\ r.id = waitId
          BY <1>5, <1>7, <2>3, <5>1
        <5> QED BY <2>2, <5>2 DEF Silent, IdInv
      <4> QED BY <4>1, <4>2
    <3>7. /\ Final(inbox')
          /\ proc' # 0 => /\ Final(pipe'[proc'])
                          /\ Answers(Range(inbox')) # {} => Silent(Range(pipe'[proc']))
                          /\ Answers(Coming') # {} => Silent(Open')
      BY <1>1, <2>1, <3>1, <3>4, <3>5, <3>6
    <3> QED BY <1>1, <3>7 DEF OrderInv, Final, Answers, Silent
  <2>10. ProcessInv'
    <3> SUFFICES ASSUME "race" \notin Fault, "badinit" \notin Fault PROVE ProcessInv'
      BY DEF ProcessInv
    <3>1. \A s \in Open' : s.kind # "initialize" => s.id > 1
      BY <2>4 DEF ProcessInv
    <3>2. m.kind = "refusal" => m.id > 1
      BY <1>5, <1>7, <2>2 DEF ProcessInv
    <3> QED BY <1>1, <2>2, <3>1, <3>2 DEF ProcessInv
  <2> QED BY <1>9, <1>10, <2>7, <2>8, <2>9, <2>10
<1> QED BY <1>11, <1>12

LEMMA DieCore ==
  ASSUME Types, Types', Core, NEW p \in Proc, Die(p)
  PROVE  Core'
<1> USE DEF Core
<1>1. /\ UNCHANGED <<at, listed, proc, ready, own, spawned, reading, pipe, ids,
                     waitId, inbox, stash, turn, text, cut>>
      /\ InPrompt' = InPrompt
      /\ alive' = alive \ {p} /\ duty' = [duty EXCEPT ![p] = {}]
      /\ duty \in [Proc -> SUBSET Request]
  BY DEF Die, objectVars, clientVars, turnVars, InPrompt, Types, QueuesOK
<1>2. \A x \in Proc : duty'[x] \subseteq duty[x]
  BY <1>1
<1>3. Coming' = Coming /\ Open' \subseteq Open
  BY <1>1, <1>2 DEF Coming, Open, Types, ObjectOK, Proc
<1>4. OpenFrom({})
  BY <1>3, OpenShrinks
<1>5. Settles({}) /\ (InPrompt' => InPrompt /\ waitId > 0)
  BY <1>1, <1>3, <1>4 DEF Settles, IdInv, TurnInv
<1>6. IdInv'
  BY <1>1, <1>5, SettledIds
<1>7. TurnInv' /\ OrderInv'
  <2>1. CASE InPrompt'
    BY <1>1, <1>5, <2>1, Inside
  <2>2. CASE ~InPrompt'
    BY <1>1, <1>5, <2>2, Outside
  <2> QED BY <2>1, <2>2
<1>8. ReaderInv'
  BY <1>1, <1>2 DEF ReaderInv
<1>9. WakeInv'
  BY <1>1 DEF WakeInv, Wakes
<1>10. ProcessInv'
  BY <1>1, <1>3 DEF ProcessInv
<1> QED BY <1>6, <1>7, <1>8, <1>9, <1>10

\* The reader of a process that is not the current one changes nothing the
\* worker can see.
LEMMA ForeignReader ==
  ASSUME Types, Types', Core, NEW p \in Proc, Reader(p) \/ ReadBreaks(p), p \notin own
  PROVE  Core'
<1> USE DEF Core
<1>1. /\ UNCHANGED <<at, listed, proc, ready, own, spawned, alive, duty, ids,
                     waitId, inbox, stash, turn, text, cut>>
      /\ InPrompt' = InPrompt
      /\ reading' = reading \/ reading' = reading \ {p}
      /\ pipe' = pipe \/ (p \in reading /\ pipe' = [pipe EXCEPT ![p] = Tail(@)])
  <2>1. CASE Read(p)
    BY <2>1 DEF Read, Deliver, objectVars, clientVars, turnVars, InPrompt
  <2>2. CASE ReaderEnds(p)
    BY <2>2 DEF ReaderEnds, Deliver, objectVars, clientVars, turnVars, InPrompt
  <2> QED BY <2>1, <2>2 DEF Reader, ReadEof, ReadBreaks
<1>2. p # proc /\ pipe \in [Proc -> Seq(Message)] /\ (proc # 0 => proc \in Proc)
  <2>1. proc = 0 \/ (proc \in own /\ proc \in Proc)
    BY DEF Types, ObjectOK, Proc
  <2>2. p # 0
    BY DEF Proc
  <2> QED BY <2>1, <2>2 DEF Types, QueuesOK
<1>3. proc # 0 => pipe'[proc] = pipe[proc]
  BY <1>1, <1>2
<1>4. Coming' = Coming /\ Open' = Open
  BY <1>1, <1>3 DEF Coming, Open
<1>5. OpenFrom({})
  BY <1>4, OpenShrinks
<1>6. Settles({}) /\ (InPrompt' => InPrompt /\ waitId > 0)
  BY <1>1, <1>3, <1>4, <1>5 DEF Settles, IdInv, TurnInv
<1>7. IdInv'
  BY <1>1, <1>6, SettledIds
<1>8. TurnInv' /\ OrderInv'
  <2>1. CASE InPrompt'
    BY <1>1, <1>6, <2>1, Inside
  <2>2. CASE ~InPrompt'
    BY <1>1, <1>6, <2>2, Outside
  <2> QED BY <2>1, <2>2
<1>9. ReaderInv'
  <2>1. p \in reading => p <= spawned
    BY DEF Types, ObjectOK
  <2>2. \A x \in Proc : x > spawned => pipe'[x] = pipe[x]
    BY <1>1, <1>2, <2>1 DEF Types, ObjectOK, Proc
  <2> QED BY <1>1, <1>2, <2>2 DEF ReaderInv
<1>10. WakeInv'
  BY <1>1, <1>2 DEF WakeInv, Wakes
<1>11. ProcessInv'
  BY <1>1, <1>2, <1>4 DEF ProcessInv
<1> QED BY <1>7, <1>8, <1>9, <1>10, <1>11

LEMMA ReadCore ==
  ASSUME Types, Types', Core, NEW p \in Proc, Read(p), p \in own
  PROVE  Core'
<1> USE DEF Core
<1>1. /\ UNCHANGED <<at, listed, proc, ready, own, spawned, alive, reading, duty,
                     ids, waitId, stash, turn, text, cut>>
      /\ InPrompt' = InPrompt /\ p \in reading /\ pipe[p] # <<>>
      /\ inbox' = Append(inbox, Head(pipe[p]))
      /\ pipe' = [pipe EXCEPT ![p] = Tail(pipe[p])]
  BY DEF Read, Deliver, objectVars, clientVars, turnVars, InPrompt
<1>2. /\ p = proc /\ proc # 0 /\ p <= spawned
      /\ pipe \in [Proc -> Seq(Message)] /\ inbox \in Seq(Message)
  BY <1>1 DEF ReaderInv, Types, ObjectOK, QueuesOK, Proc
<1> DEFINE m == Head(pipe[proc])
<1>3. /\ m \in Message /\ Range(pipe[proc]) = {m} \cup Range(Tail(pipe[proc]))
      /\ pipe[proc] \in Seq(Message) /\ pipe[proc] # <<>>
  BY <1>1, <1>2, TailFacts
<1>4. pipe'[proc] = Tail(pipe[proc]) /\ inbox' = Append(inbox, m)
  BY <1>1, <1>2
<1> HIDE DEF m
<1>5. Range(inbox') = Range(inbox) \cup {m}
  BY <1>2, <1>3, <1>4, AppendFacts
<1>6. Coming' = Coming /\ Open' = Open
  BY <1>1, <1>2, <1>3, <1>4, <1>5 DEF Coming, Open
<1>7. IdInv'
  <2>1. proc' # 0 => \A x \in Range(pipe'[proc']) : x.kind # "eof"
    BY <1>1, <1>3, <1>4 DEF IdInv
  <2> QED BY <1>1, <1>6, <2>1 DEF IdInv
<1>8. TurnInv'
  BY <1>1, <1>6 DEF TurnInv
<1>9. OrderInv'
  <2> SUFFICES ASSUME InPrompt PROVE OrderInv'
    BY <1>1 DEF OrderInv
  <2>1. /\ Final(inbox) /\ Final(pipe[proc])
        /\ Answers(Range(inbox)) # {} => Silent(Range(pipe[proc]))
        /\ Answers(Coming) # {} => Silent(Open)
    BY <1>2 DEF OrderInv
  <2>2. Answers(Range(inbox)) # {} => m.id # waitId
    BY <1>3, <2>1 DEF Silent
  <2>3. Final(inbox')
    BY <1>2, <1>3, <1>4, <2>1, <2>2, FinalAppend
  <2>4. /\ Final(Tail(pipe[proc]))
        /\ m \in Answers(Range(pipe[proc])) => Silent(Range(Tail(pipe[proc])))
    BY <1>3, <2>1, FinalTail DEF m
  <2>5. Answers(Range(inbox')) # {} => Silent(Range(pipe'[proc]))
    <3>1. CASE Answers(Range(inbox)) # {}
      BY <1>3, <1>4, <2>1, <3>1 DEF Silent
    <3>2. CASE Answers(Range(inbox)) = {} /\ Answers(Range(inbox')) # {}
      <4>1. m \in Answers(Range(pipe[proc]))
        BY <1>3, <1>5, <3>2 DEF Answers
      <4> QED BY <1>4, <2>4, <4>1
    <3> QED BY <3>1, <3>2
  <2>6. /\ Final(inbox')
        /\ proc' # 0 => /\ Final(pipe'[proc'])
                        /\ Answers(Range(inbox')) # {} => Silent(Range(pipe'[proc']))
                        /\ Answers(Coming') # {} => Silent(Open')
    BY <1>1, <1>4, <1>6, <2>1, <2>3, <2>4, <2>5
  <2> QED BY <1>1, <2>6 DEF OrderInv, Final, Answers, Silent
<1>10. ReaderInv'
  <2>1. \A x \in Proc : x > spawned => pipe'[x] = pipe[x]
    BY <1>1, <1>2 DEF Types, ObjectOK, Proc
  <2> QED BY <1>1, <2>1 DEF ReaderInv
<1>11. WakeInv'
  BY <1>1, <1>2 DEF WakeInv, Wakes
<1>12. ProcessInv'
  BY <1>1, <1>6 DEF ProcessInv
<1> QED BY <1>7, <1>8, <1>9, <1>10, <1>11, <1>12

LEMMA ReaderEndsCore ==
  ASSUME Types, Types', Core, NEW p \in Proc, ReadEof(p) \/ ReadBreaks(p), p \in own
  PROVE  Core'
<1> USE DEF Core
<1> DEFINE m == [kind |-> "eof", id |-> 0, turn |-> 0, proc |-> p]
<1>1. /\ UNCHANGED <<at, listed, proc, ready, own, spawned, alive, pipe, duty,
                     ids, waitId, stash, turn, text, cut>>
      /\ InPrompt' = InPrompt /\ p \in reading
      /\ inbox' = Append(inbox, m) /\ reading' = reading \ {p}
      /\ "badinit" \in Fault \/ p \notin alive \/ ~(p = proc /\ at = "init")
  BY DEF ReadEof, ReadBreaks, ReaderEnds, Deliver, objectVars, clientVars, turnVars, InPrompt
<1>2. /\ p = proc /\ proc # 0 /\ inbox \in Seq(Message)
  BY <1>1 DEF ReaderInv, Types, ObjectOK, QueuesOK, Proc
<1>3. m \in Message /\ m.kind = "eof" /\ m.id = 0 /\ m.proc = p
  BY DEF Message, Turn
<1> HIDE DEF m
<1>4. Range(inbox') = Range(inbox) \cup {m}
  BY <1>1, <1>2, <1>3, AppendFacts
<1>5. Coming' = Coming \cup {m} /\ Open' = Open
  BY <1>1, <1>4 DEF Coming, Open
<1>6. IdInv'
  <2>1. \A x \in Coming' : /\ x.id <= ids'
                           /\ proc' # 0 => x.proc = proc'
                           /\ x.kind = "eof" => proc' \notin reading'
    BY <1>1, <1>2, <1>3, <1>5 DEF IdInv, Types, ObjectOK
  <2> QED BY <1>1, <1>5, <2>1 DEF IdInv
<1>7. InPrompt => m.id # waitId
  BY <1>3 DEF IdInv, Types, ObjectOK
<1>8. TurnInv'
  <2>1. \A x \in Coming' :
          /\ InPrompt /\ x.id = waitId => x.turn = turn
          /\ x.kind \in {"chunk", "ask"} =>
               x.turn \in cut \/ (InPrompt /\ x.id = waitId) \/ History(x)
    BY <1>3, <1>5, <1>7 DEF TurnInv
  <2> QED BY <1>1, <1>5, <2>1 DEF TurnInv
<1>9. OrderInv'
  <2> SUFFICES ASSUME InPrompt PROVE OrderInv'
    BY <1>1 DEF OrderInv
  <2>1. /\ Final(inbox) /\ Final(pipe[proc])
        /\ Answers(Range(inbox)) # {} => Silent(Range(pipe[proc]))
        /\ Answers(Coming) # {} => Silent(Open)
    BY <1>2 DEF OrderInv
  <2>2. Final(inbox')
    BY <1>1, <1>2, <1>3, <1>7, <2>1, FinalAppend
  <2>3. /\ Answers(Range(inbox')) \subseteq Answers(Range(inbox))
        /\ Answers(Coming') \subseteq Answers(Coming)
    BY <1>3, <1>4, <1>5 DEF Answers
  <2>4. /\ Final(inbox')
        /\ proc' # 0 => /\ Final(pipe'[proc'])
                        /\ Answers(Range(inbox')) # {} => Silent(Range(pipe'[proc']))
                        /\ Answers(Coming') # {} => Silent(Open')
    BY <1>1, <1>5, <2>1, <2>2, <2>3
  <2> QED BY <1>1, <2>4 DEF OrderInv, Final, Answers, Silent
<1>10. ReaderInv'
  BY <1>1, <1>2 DEF ReaderInv
<1>11. Wakes'
  BY <1>3, <1>4 DEF Wakes
<1>12. WakeInv'
  BY <1>11 DEF WakeInv
<1>13. ProcessInv'
  BY <1>1, <1>2, <1>3, <1>5 DEF ProcessInv
<1> QED BY <1>6, <1>8, <1>9, <1>10, <1>12, <1>13

LEMMA StutterCore ==
  ASSUME Core, UNCHANGED vars
  PROVE  Core'
<1>1. UNCHANGED <<at, listed, proc, ready, own, spawned, alive, reading, pipe, duty,
                  ids, waitId, inbox, stash, turn, text, cut>>
  BY DEF vars, objectVars, processVars, clientVars, turnVars
<1>2. Coming' = Coming /\ Open' = Open /\ InPrompt' = InPrompt /\ Wakes' = Wakes
  BY <1>1 DEF Coming, Open, InPrompt, Wakes
<1>3. ReaderInv' /\ IdInv' /\ TurnInv'
  BY <1>1, <1>2 DEF Core, ReaderInv, IdInv, TurnInv
<1>4. OrderInv'
  BY <1>1, <1>2 DEF Core, OrderInv, Final, Answers, Silent
<1>5. WakeInv' /\ ProcessInv'
  BY <1>1, <1>2 DEF Core, WakeInv, ProcessInv
<1> QED BY <1>3, <1>4, <1>5 DEF Core

LEMMA CoreStep ==
  ASSUME Types, Types', Core, [Next]_vars, "lag" \notin Fault
  PROVE  Core'
<1>1. CASE Begin
  BY <1>1, BeginCore
<1>2. CASE EnsureReady
  BY <1>2, AlreadyReadyCore, SpawnCore, SpawnFailsCore DEF EnsureReady
<1>3. CASE WaitResponse
  BY <1>3, SetAsideCore, RepliedCore, NotRepliedCore, WaitTimeoutCore DEF WaitResponse
<1>4. CASE HandleMessage
  BY <1>4, PromptRepliedCore, PromptEofCore, PromptUpdateCore, PromptAsksCore
     DEF HandleMessage
<1>5. CASE Answered
  BY <1>5, AnsweredCore
<1>6. CASE PermissionCancelled \/ Deadline
  BY <1>6, CutShortCore
<1>7. CASE Evict \/ Remove
  BY <1>7, RemoveCore
<1>8. ASSUME NEW p \in Proc, Agent(p) \/ Die(p) \/ Reader(p) \/ ReadBreaks(p) PROVE Core'
  <2>1. CASE Agent(p)
    BY <2>1, AgentCore
  <2>2. CASE Die(p)
    BY <2>2, DieCore
  <2>3. CASE Reader(p) \/ ReadBreaks(p)
    BY <2>3, ForeignReader, ReadCore, ReaderEndsCore DEF Reader
  <2> QED BY <1>8, <2>1, <2>2, <2>3
<1>9. CASE UNCHANGED vars
  BY <1>9, StutterCore
<1> QED BY <1>1, <1>2, <1>3, <1>4, <1>5, <1>6, <1>7, <1>8, <1>9 DEF Next

-----------------------------------------------------------------------------
(* Theorems *)

\* The invariant holds initially and in every step.
THEOREM Inductive == (Init => IInv) /\ (IInv /\ [Next]_vars => IInv')
<1>1. Init => IInv
  BY InitTypes, InitCore DEF IInv, Types
<1>2. ASSUME IInv, [Next]_vars PROVE IInv'
  <2>1. Types'
    BY <1>2, TypesStep DEF IInv
  <2>2. "lag" \notin Fault => Core'
    BY <1>2, <2>1, CoreStep DEF IInv
  <2> QED BY <2>1, <2>2 DEF IInv
<1> QED BY <1>1, <1>2

LEMMA Invariance == Spec => []IInv
<1>1. Init => IInv
  BY Inductive
<1>2. IInv /\ [Next]_vars => IInv'
  BY Inductive
<1> QED BY <1>1, <1>2, PTL DEF Spec

\* The runtime is consistent, with any number of processes and tasks: types,
\* the reader, the ids, the turns, the order of messages, what wakes the
\* worker (runtime.py, client.py).
THEOREM Consistent == Spec => []RuntimeInv
<1>1. IInv => RuntimeInv
  BY TypeParts DEF IInv, Types, Core, RuntimeInv
<1> QED BY <1>1, Invariance, PTL

\* The text of a task is its own, but for what the agent still says about
\* tasks that were cut short and for the history it replays (runtime.py
\* execute, accumulated text).
THEOREM OwnText == ASSUME "lag" \notin Fault PROVE Spec => []TextOwn
<1>1. IInv => TextOwn
  BY DEF IInv, Core, TurnInv, TextOwn
<1> QED BY <1>1, Invariance, PTL

\* A worker that waits for the messages of a prompt has a reader, or the
\* sentinel in its queue (runtime.py _read_loop).
THEOREM Woken == ASSUME "lag" \notin Fault PROVE Spec => []PromptWakes
<1>1. IInv => PromptWakes
  <2> SUFFICES ASSUME IInv, at = "prompt", proc # 0, proc \notin reading
               PROVE  \E m \in Range(inbox) : m.kind = "eof" /\ m.proc = proc
    BY DEF PromptWakes
  <2>1. PICK m \in Range(inbox) : m.kind = "eof"
    BY DEF IInv, Core, WakeInv, Wakes, InPrompt
  <2>2. m \in Coming
    BY DEF Coming
  <2>3. m.proc = proc
    BY <2>2 DEF IInv, Core, IdInv
  <2> QED BY <2>1, <2>3
<1> QED BY <1>1, Invariance, PTL

\* When no task runs, the registry can find and stop the only process.
THEOREM NothingEscapes == ASSUME "lag" \notin Fault PROVE Spec => []NoOrphan
<1>1. IInv => NoOrphan
  BY DEF IInv, Core, Types, ObjectOK, ProcessInv, NoOrphan
<1> QED BY <1>1, Invariance, PTL

\* execute() ends with the response to its own prompt, whatever responses to
\* earlier requests are still on their way or were set aside.
THEOREM OwnAnswer == Spec => AnswerOwn
<1>1. ASSUME IInv, IInv', PromptReplied, "lag" \notin Fault PROVE Head(inbox).turn = turn
  BY <1>1, PromptRepliedCore DEF IInv
<1>2. IInv /\ IInv' /\ [Next]_vars
        => [(PromptReplied /\ "lag" \notin Fault) => Head(inbox).turn = turn]_vars
  BY <1>1
<1> QED BY <1>2, Invariance, PTL DEF Spec, AnswerOwn

-----------------------------------------------------------------------------
(* The runtime implements PromptService *)

\* A permission request is shown only while the worker waits for the choice.
Quiet == at # "perm" => shownAsk = 0

LEMMA QuietStep == Quiet /\ [Next]_vars => Quiet'
<1> SUFFICES ASSUME Quiet, [Next]_vars PROVE Quiet'
  OBVIOUS
<1>1. CASE Answered \/ PermissionCancelled
  BY <1>1 DEF Answered, PermissionCancelled, Quiet
<1>2. CASE PromptAsks
  BY <1>2 DEF PromptAsks, Quiet
<1>3. CASE UNCHANGED shownAsk /\ at # "perm"
  BY <1>3 DEF Quiet
<1>4. CASE UNCHANGED <<shownAsk, at>>
  BY <1>4 DEF Quiet
<1>5. CASE Begin \/ AlreadyReady \/ Spawn \/ SpawnFails
  BY <1>3, <1>5 DEF Begin, AlreadyReady, Spawn, SpawnFails, turnVars
<1>6. CASE WaitResponse
  BY <1>3, <1>6 DEF WaitResponse, SetAside, Replied, NotReplied, WaitTimeout, Waiting,
     turnVars
<1>7. CASE PromptReplied \/ PromptEof \/ PromptUpdate \/ Deadline \/ Evict
  BY <1>3, <1>7 DEF PromptReplied, PromptEof, PromptUpdate, Deadline, Evict, turnVars
<1>8. CASE Remove
  BY <1>4, <1>8 DEF Remove, turnVars
<1>9. ASSUME NEW p \in Proc, Agent(p) \/ Die(p) \/ Reader(p) \/ ReadBreaks(p)
      PROVE  Quiet'
  BY <1>4, <1>9 DEF Agent, Die, Reader, Read, ReadEof, ReadBreaks, ReaderEnds, turnVars
<1>10. CASE UNCHANGED vars
  BY <1>4, <1>10 DEF vars, turnVars
<1> QED BY <1>1, <1>2, <1>5, <1>6, <1>7, <1>8, <1>9, <1>10
       DEF Next, EnsureReady, HandleMessage

LEMMA QuietAlways == Spec => []Quiet
<1>1. Init => Quiet
  BY DEF Init, Quiet
<1> QED BY <1>1, QuietStep, PTL DEF Spec

\* A prompt is under way.
Busy == at \notin {"idle", "evict"}

LEMMA NoNews == ~InPrompt => News = {}
BY DEF News, Unread

\* Nothing that the service knows of changes.
LEMMA Hidden ==
  ASSUME UNCHANGED <<turn, text, shownAsk, cut>>, Busy' = Busy, News' = News
  PROVE  UNCHANGED Prompts!vars
BY DEF Prompts!vars, Busy

\* A prompt that ends without its response, after a last message or none.
LEMMA CutMaps ==
  ASSUME Busy, at' \in {"idle", "evict"}, cut' = cut \cup {turn}, turn' = turn,
         shownAsk' = 0,
         text' = text \/ \E t \in {turn, 0} \cup cut : text' = text \cup {t}
  PROVE  Prompts!Cut
<1>1. ~InPrompt'
  BY DEF InPrompt
<1>2. News' = {}
  BY <1>1 DEF News, Unread
<1>3. (at \notin {"idle", "evict"})' = FALSE
  OBVIOUS
<1> QED BY <1>2, <1>3 DEF Prompts!Cut, Busy

LEMMA BeginMaps ==
  ASSUME Begin
  PROVE  Prompts!Begin
<1>1. /\ at = "idle" /\ at' = "ensure" /\ turn' = turn + 1 /\ text' = {}
      /\ UNCHANGED <<shownAsk, cut>>
  BY DEF Begin
<1>2. News = {} /\ News' = {}
  BY <1>1 DEF News, Unread, InPrompt
<1>3. (at \notin {"idle", "evict"})' = TRUE /\ at \in {"idle", "evict"}
  BY <1>1
<1> QED BY <1>1, <1>2, <1>3 DEF Prompts!Begin

\* Steps before the prompt is sent: hidden, or its end.
LEMMA EnsureMaps ==
  ASSUME EnsureReady, Quiet
  PROVE  Prompts!Next \/ UNCHANGED Prompts!vars
<1>1. CASE AlreadyReady \/ Spawn
  <2>1. /\ at = "ensure" /\ at' \in {"load", "new", "init"}
        /\ UNCHANGED <<turn, text, shownAsk, cut>>
    BY <1>1 DEF AlreadyReady, OpenSession, Spawn, turnVars
  <2>2. News = {} /\ News' = {} /\ Busy /\ Busy'
    BY <2>1 DEF News, Unread, InPrompt, Busy
  <2> QED BY <2>1, <2>2, Hidden
<1>2. CASE SpawnFails
  <2>1. /\ at = "ensure" /\ at' = "idle" /\ cut' = cut \cup {turn}
        /\ UNCHANGED <<turn, text, shownAsk>>
    BY <1>2 DEF SpawnFails, Abandon, turnVars
  <2>2. Prompts!Cut
    BY <2>1, CutMaps DEF Quiet, Busy
  <2> QED BY <2>2 DEF Prompts!Next
<1> QED BY <1>1, <1>2 DEF EnsureReady

\* The id of a request that is sent is new to every message.
LEMMA FreshPrompt ==
  ASSUME Types, IdInv, Send(Req("prompt")), Coming' \subseteq Coming
  PROVE  News' = {}
<1>1. waitId' = ids + 1 /\ ids \in Nat
  BY DEF Send, Post, Types, ObjectOK
<1>2. proc \in Proc \/ proc = 0
  BY DEF Types, ObjectOK, Proc
<1>3. Coming \subseteq Message
  BY <1>2, RangeTypes DEF Types, QueuesOK, Coming
<1>4. \A m \in Coming' : m.id # waitId'
  BY <1>1, <1>3 DEF IdInv, Message
<1> QED BY <1>4 DEF News, Unread

LEMMA WaitMaps ==
  ASSUME Types, IdInv, WaitResponse, Quiet
  PROVE  Prompts!Next \/ UNCHANGED Prompts!vars
<1>1. /\ Waiting /\ at \in {"init", "load", "new"} /\ Busy /\ ~InPrompt
      /\ UNCHANGED <<turn, text, shownAsk>>
  BY DEF WaitResponse, SetAside, Replied, NotReplied, WaitTimeout, turnVars, Waiting,
     Busy, InPrompt
<1>2. News = {} /\ shownAsk = 0
  BY <1>1, NoNews DEF Quiet
<1>3. CASE Abandon
  <2>1. Prompts!Cut
    BY <1>1, <1>2, <1>3, CutMaps DEF Abandon
  <2> QED BY <2>1 DEF Prompts!Next
<1>4. CASE cut' = cut /\ at' \in {"ensure", "init", "load", "new"}
  <2>1. News' = {} /\ Busy'
    BY <1>4 DEF News, Unread, InPrompt, Busy
  <2> QED BY <1>1, <1>2, <1>4, <2>1, Hidden
<1>5. CASE Replied /\ at' = "prompt" /\ cut' = cut /\ Send(Req("prompt"))
  <2>1. inbox # <<>> /\ Requeue(Tail(inbox)) /\ UNCHANGED <<proc, pipe>>
    BY <1>5 DEF Replied, processVars
  <2>2. Coming' \subseteq Coming
    BY <2>1, RequeueFacts DEF Coming
  <2>3. News' = {} /\ Busy'
    BY <1>5, <2>2, FreshPrompt DEF Busy
  <2> QED BY <1>1, <1>2, <1>5, <2>3, Hidden
<1>6. CASE SetAside
  BY <1>1, <1>4, <1>6 DEF SetAside
<1>7. CASE Replied
  BY <1>3, <1>4, <1>5, <1>7 DEF Replied
<1>8. CASE NotReplied
  BY <1>3, <1>4, <1>8 DEF NotReplied
<1>9. CASE WaitTimeout
  BY <1>3, <1>4, <1>9 DEF WaitTimeout
<1> QED BY <1>6, <1>7, <1>8, <1>9 DEF WaitResponse

\* Reading a message leaves all other news.
LEMMA TakeNews ==
  ASSUME Types, at = "prompt", inbox # <<>>, inbox' = Tail(inbox), InPrompt',
         UNCHANGED <<proc, pipe, stash, waitId>>
  PROVE  LET m == Head(inbox) IN
         /\ m.id # waitId => News' = News
         /\ m.id = waitId /\ m.kind \in {"chunk", "ask", "response"}
              => m.kind \in News /\ News' \in {News, News \ {m.kind}}
<1> DEFINE m == Head(inbox)
<1>1. /\ InPrompt /\ m \in Coming /\ Coming' \subseteq Coming
      /\ Coming \subseteq Coming' \cup {m}
  BY PromptTakes, EmptyFacts DEF Coming
<1> HIDE DEF m
<1>2. /\ Unread = {x \in Coming : x.id = waitId}
      /\ Unread' = {x \in Coming' : x.id = waitId}
  BY <1>1 DEF Unread
<1>3. m.id # waitId => News' = News
  <2> SUFFICES ASSUME m.id # waitId PROVE News' = News
    OBVIOUS
  <2>1. Unread' = Unread
    BY <1>1, <1>2
  <2> QED BY <2>1 DEF News
<1>4. ASSUME m.id = waitId, m.kind \in {"chunk", "ask", "response"}
      PROVE  m.kind \in News /\ News' \in {News, News \ {m.kind}}
  <2>1. m \in Unread /\ Unread' \subseteq Unread /\ Unread \subseteq Unread' \cup {m}
    BY <1>1, <1>2, <1>4
  <2>2. m.kind \in News
    BY <1>4, <2>1 DEF News
  <2>3. News' \subseteq News
    BY <2>1 DEF News
  <2>4. News \subseteq News' \cup {m.kind}
    BY <2>1 DEF News
  <2> QED BY <2>2, <2>3, <2>4
<1> QED BY <1>3, <1>4 DEF m

\* A message of another kind is no news.
LEMMA OtherKind ==
  ASSUME Types, at = "prompt", inbox # <<>>, inbox' = Tail(inbox), InPrompt',
         UNCHANGED <<proc, pipe, stash, waitId>>, Head(inbox).kind = "refusal"
  PROVE  News' = News
<1> DEFINE m == Head(inbox)
<1>1. /\ InPrompt /\ Coming' \subseteq Coming /\ Coming \subseteq Coming' \cup {m}
  BY PromptTakes, EmptyFacts DEF Coming
<1>2. /\ Unread = {x \in Coming : x.id = waitId}
      /\ Unread' = {x \in Coming' : x.id = waitId}
  BY <1>1 DEF Unread
<1> HIDE DEF m
<1>3. Unread' \subseteq Unread /\ Unread \subseteq Unread' \cup {m} /\ m.kind = "refusal"
  BY <1>1, <1>2 DEF m
<1> QED BY <1>3 DEF News

\* What is said or asked with the id of the prompt is about it, the rest about
\* prompts that were cut short, or history.
LEMMA WhoIsMeant ==
  ASSUME TurnInv, InPrompt, NEW m \in Coming, m.kind \in {"chunk", "ask"}
  PROVE  IF m.id = waitId THEN m.turn = turn ELSE m.turn \in cut \/ History(m)
BY DEF TurnInv

LEMMA UpdateMaps ==
  ASSUME Types, TurnInv, PromptUpdate, Quiet
  PROVE  Prompts!Next \/ UNCHANGED Prompts!vars
<1> DEFINE m == Head(inbox)
<1>1. /\ inbox # <<>> /\ inbox' = Tail(inbox) /\ at = "prompt"
      /\ m.kind \in {"chunk", "response", "refusal"}
      /\ ~(m.kind = "response" /\ m.id = waitId)
      /\ text' = IF m.kind = "chunk" THEN text \cup {m.turn} ELSE text
      /\ UNCHANGED <<proc, pipe, stash, waitId, turn, shownAsk>>
  BY DEF PromptUpdate, objectVars, processVars, IsReply
<1>2. \/ at' = "prompt" /\ cut' = cut /\ InPrompt'
      \/ at' = "idle" /\ cut' = cut \cup {turn}
  BY DEF PromptUpdate, LoopOrCancel, Abandon, InPrompt
<1>3. /\ InPrompt /\ m \in Coming /\ Busy /\ shownAsk = 0
  BY <1>1, PromptTakes DEF Busy, Quiet
<1>4. InPrompt' =>
        /\ m.id # waitId => News' = News
        /\ m.id = waitId /\ m.kind \in {"chunk", "ask", "response"}
             => m.kind \in News /\ News' \in {News, News \ {m.kind}}
  BY <1>1, TakeNews
<1> HIDE DEF m
<1>5. m.kind = "chunk" => IF m.id = waitId THEN m.turn = turn
                                           ELSE m.turn \in cut \cup {0}
  BY <1>3, WhoIsMeant DEF History
<1>6. CASE at' = "idle"
  <2>1. text' = text \/ \E t \in {turn, 0} \cup cut : text' = text \cup {t}
    BY <1>1, <1>5
  <2>2. Prompts!Cut
    BY <1>1, <1>2, <1>3, <1>6, <2>1, CutMaps
  <2> QED BY <2>2 DEF Prompts!Next
<1>7. CASE at' = "prompt" /\ m.kind = "chunk" /\ m.id = waitId
  <2>1. InPrompt' /\ cut' = cut /\ UNCHANGED Busy
    BY <1>1, <1>2, <1>7 DEF Busy
  <2>2. "chunk" \in News /\ News' \in {News, News \ {"chunk"}}
    BY <1>4, <1>7, <2>1
  <2>3. Prompts!Hear
    BY <1>1, <1>3, <1>5, <1>7, <2>1, <2>2 DEF Prompts!Hear, Prompts!Read, Busy
  <2> QED BY <2>3 DEF Prompts!Next
<1>8. CASE at' = "prompt" /\ m.kind = "chunk" /\ m.id # waitId
  <2>1. InPrompt' /\ cut' = cut /\ UNCHANGED Busy
    BY <1>1, <1>2, <1>8 DEF Busy
  <2>2. News' = News /\ m.turn \in cut \cup {0}
    BY <1>4, <1>5, <1>8, <2>1
  <2>3. Prompts!LateNews(m.turn)
    BY <1>1, <1>3, <1>8, <2>1, <2>2 DEF Prompts!LateNews, Busy
  <2> QED BY <2>2, <2>3 DEF Prompts!Next
<1>9. CASE at' = "prompt" /\ m.kind # "chunk"
  <2>1. InPrompt' /\ cut' = cut /\ UNCHANGED Busy /\ text' = text
    BY <1>1, <1>2, <1>9 DEF Busy
  <2>2. News' = News
    <3>1. CASE m.id # waitId
      BY <1>4, <2>1, <3>1
    <3>2. CASE m.id = waitId
      <4>1. m.kind = "refusal"
        BY <1>1, <1>9, <3>2
      <4> QED BY <1>1, <1>3, <2>1, <4>1, OtherKind DEF m
    <3> QED BY <3>1, <3>2
  <2> QED BY <1>1, <2>1, <2>2, Hidden
<1> QED BY <1>2, <1>6, <1>7, <1>8, <1>9

LEMMA AsksMaps ==
  ASSUME Types, TurnInv, PromptAsks, Quiet
  PROVE  Prompts!Next
<1> DEFINE m == Head(inbox)
<1>1. /\ inbox # <<>> /\ inbox' = Tail(inbox) /\ at = "prompt" /\ at' = "perm"
      /\ m.kind = "ask" /\ shownAsk' = m.turn
      /\ UNCHANGED <<proc, pipe, stash, waitId, turn, text, cut>>
  BY DEF PromptAsks, objectVars, processVars, clientVars
<1>2. /\ InPrompt /\ InPrompt' /\ m \in Coming /\ Busy /\ UNCHANGED Busy /\ shownAsk = 0
  BY <1>1, PromptTakes DEF Busy, Quiet, InPrompt
<1>3. /\ m.id # waitId => News' = News
      /\ m.id = waitId => "ask" \in News /\ News' \in {News, News \ {"ask"}}
  BY <1>1, <1>2, TakeNews
<1>4. IF m.id = waitId THEN m.turn = turn ELSE m.turn \in cut
  BY <1>1, <1>2, WhoIsMeant DEF History
<1> HIDE DEF m
<1>5. CASE m.id = waitId
  <2>1. Prompts!Ask
    BY <1>1, <1>2, <1>3, <1>4, <1>5 DEF Prompts!Ask, Prompts!Read, Busy
  <2> QED BY <2>1 DEF Prompts!Next
<1>6. CASE m.id # waitId
  <2>1. Prompts!LateNews(m.turn) /\ m.turn \in cut
    BY <1>1, <1>2, <1>3, <1>4, <1>6 DEF Prompts!LateNews, Busy
  <2> QED BY <2>1 DEF Prompts!Next
<1> QED BY <1>5, <1>6

\* The response is read last: nothing else about the prompt is left anywhere.
LEMMA RepliedMaps ==
  ASSUME Types, Types', Core, PromptReplied, Quiet
  PROVE  Prompts!Answer
<1>1. /\ inbox # <<>> /\ inbox' = Tail(inbox) /\ at = "prompt" /\ at' = "idle"
      /\ Head(inbox).kind = "response" /\ Head(inbox).id = waitId
      /\ UNCHANGED <<proc, pipe, stash, waitId, turn, text, shownAsk, cut>>
  BY DEF PromptReplied, objectVars, processVars, clientVars, turnVars, IsReply
<1>2. /\ InPrompt /\ Head(inbox) \in Coming
      /\ Range(inbox) = {Head(inbox)} \cup Range(inbox')
      /\ stash = <<>> /\ Range(inbox) \subseteq Coming
  BY <1>1, PromptTakes
<1>3. Final(inbox) /\ inbox \in Seq(Message)
  BY <1>2 DEF Core, OrderInv, Types, QueuesOK
<1>4. Head(inbox) \in Answers(Range(inbox))
  BY <1>1, <1>2 DEF Answers
<1>5. Silent(Range(inbox'))
  BY <1>1, <1>3, <1>4, FinalTail
<1>6. proc # 0 => Silent(Range(pipe[proc]))
  BY <1>2, <1>4 DEF Core, OrderInv
<1>7. \A m \in Coming : m.id = waitId => m = Head(inbox)
  BY <1>2, <1>5, <1>6, EmptyFacts DEF Coming, Silent
<1>8. Unread = {Head(inbox)}
  BY <1>1, <1>2, <1>7 DEF Unread
<1>9. News = {"response"}
  BY <1>1, <1>8 DEF News
<1>10. News' = {} /\ shownAsk = 0
  BY <1>1 DEF News, Unread, InPrompt, Quiet
<1>11. (at \notin {"idle", "evict"})' = FALSE /\ at \notin {"idle", "evict"}
  BY <1>1
<1> QED BY <1>1, <1>9, <1>10, <1>11 DEF Prompts!Answer

LEMMA AnsweredMaps ==
  ASSUME Answered
  PROVE  Prompts!Next \/ UNCHANGED Prompts!vars
<1>1. /\ at = "perm" /\ shownAsk' = 0 /\ Busy /\ InPrompt
      /\ UNCHANGED <<proc, pipe, inbox, stash, waitId, turn, text>>
      /\ \/ at' = "prompt" /\ cut' = cut
         \/ at' = "idle" /\ cut' = cut \cup {turn}
  BY DEF Answered, LoopOrCancel, Abandon, objectVars, processVars, Busy, InPrompt
<1>2. CASE at' = "idle"
  <2>1. Prompts!Cut
    BY <1>1, <1>2, CutMaps
  <2> QED BY <2>1 DEF Prompts!Next
<1>3. CASE at' = "prompt" /\ cut' = cut
  <2>1. InPrompt' = InPrompt /\ Busy' = Busy
    BY <1>1, <1>3 DEF InPrompt, Busy
  <2>2. News' = News
    BY <1>1, <2>1 DEF News, Unread, Coming
  <2>3. CASE shownAsk = 0
    BY <1>1, <1>3, <2>1, <2>2, <2>3, Hidden
  <2>4. CASE shownAsk # 0
    <3>1. Prompts!Settle
      BY <1>1, <1>3, <2>1, <2>2, <2>4 DEF Prompts!Settle, Busy
    <3> QED BY <3>1 DEF Prompts!Next
  <2> QED BY <2>3, <2>4
<1> QED BY <1>1, <1>2, <1>3

LEMMA CutShortMaps ==
  ASSUME PromptEof \/ PermissionCancelled \/ Deadline, Quiet
  PROVE  Prompts!Cut
<1>1. /\ at \in {"prompt", "perm"} /\ at' \in {"idle", "evict"} /\ Busy
      /\ cut' = cut \cup {turn} /\ shownAsk' = 0 /\ UNCHANGED <<turn, text>>
  BY DEF PromptEof, PermissionCancelled, Deadline, Abandon, turnVars, Quiet, Busy
<1> QED BY <1>1, CutMaps

\* A step outside the worker that leaves what is to come as it is.
LEMMA Unseen ==
  ASSUME UNCHANGED <<at, turn, text, shownAsk, cut, waitId>>, Coming' = Coming
  PROVE  UNCHANGED Prompts!vars
<1>1. Busy' = Busy /\ InPrompt' = InPrompt
  BY DEF Busy, InPrompt
<1>2. News' = News
  BY <1>1 DEF News, Unread
<1> QED BY <1>1, <1>2, Hidden

LEMMA EvictMaps ==
  ASSUME Evict
  PROVE  UNCHANGED Prompts!vars
<1>1. /\ at = "evict" /\ at' = "idle" /\ UNCHANGED <<turn, text, shownAsk, cut>>
  BY DEF Evict, turnVars
<1>2. News' = News /\ Busy' = Busy
  BY <1>1 DEF News, Unread, InPrompt, Busy
<1> QED BY <1>1, <1>2, Hidden

LEMMA RemoveMaps ==
  ASSUME Remove
  PROVE  Prompts!Lose
<1>1. /\ listed /\ UNCHANGED <<at, inbox, stash, waitId, turn, text, shownAsk, cut>>
      /\ proc' = 0
  BY DEF Remove, RegistryRemove, StopObject, clientVars, turnVars
<1>2. Coming' \subseteq Coming
  BY <1>1 DEF Coming
<1>3. News' \subseteq News
  BY <1>1, <1>2 DEF News, Unread, InPrompt
<1>4. (at \notin {"idle", "evict"})' = (at \notin {"idle", "evict"})
  BY <1>1
<1> QED BY <1>1, <1>3, <1>4 DEF Prompts!Lose

LEMMA ProcNumbers ==
  ASSUME ObjectOK, NEW p \in Proc
  PROVE  p # 0 /\ (proc = 0 \/ proc \in Proc)
<1>1. p # 0
  BY RuntimeAssumption DEF Proc
<1>2. CASE proc # 0
  <2>1. proc \in 1..spawned /\ spawned \in 0..MaxProc
    BY <1>2 DEF ObjectOK
  <2> QED BY <1>1, <2>1, RuntimeAssumption DEF Proc
<1> QED BY <1>1, <1>2

\* The agent says nothing about a prompt to which it has responded.
LEMMA AgentMaps ==
  ASSUME Types, OrderInv, NEW p \in Proc, Agent(p)
  PROVE  Prompts!Next \/ UNCHANGED Prompts!vars
<1>1. /\ UNCHANGED <<at, proc, waitId, inbox, stash, turn, text, shownAsk, cut>>
      /\ InPrompt' = InPrompt
  BY DEF Agent, objectVars, clientVars, turnVars, InPrompt
<1>2. PICK r \in duty[p], k \in {"response", "refusal", "chunk", "ask"} : Emit(p, k, r)
  BY DEF Agent, Respond, Chunk, Ask
<1> DEFINE m == [kind |-> k, id |-> r.id, turn |-> r.turn, proc |-> p]
<1>3. m.kind = k /\ m.id = r.id /\ m \in Message
  BY DEF Types, QueuesOK, Message, Request
<1>4. pipe' = [pipe EXCEPT ![p] = Append(pipe[p], m)] /\ pipe \in [Proc -> Seq(Message)]
  BY <1>2 DEF Emit, Types, QueuesOK
<1> HIDE DEF m
<1>5. p # 0 /\ (proc = 0 \/ proc \in Proc)
  BY ProcNumbers DEF Types
<1>6. CASE p # proc
  <2>1. Coming' = Coming
    BY <1>1, <1>4, <1>5, <1>6 DEF Coming
  <2> QED BY <1>1, <2>1, Unseen
<1>7. CASE p = proc
  <2>1. Range(pipe'[proc]) = Range(pipe[proc]) \cup {m}
    BY <1>3, <1>4, <1>7, AppendFacts
  <2>2. Coming' = Coming \cup {m} /\ r \in Open
    BY <1>1, <1>5, <1>7, <2>1 DEF Coming, Open
  <2>3. CASE ~(InPrompt /\ m.id = waitId /\ k \in {"chunk", "ask", "response"})
    <3>1. News' = News
      BY <1>1, <1>3, <2>2, <2>3 DEF News, Unread
    <3>2. Busy' = Busy
      BY <1>1 DEF Busy
    <3> QED BY <1>1, <3>1, <3>2, Hidden
  <2>4. CASE InPrompt /\ m.id = waitId /\ k \in {"chunk", "ask", "response"}
    <3>1. Answers(Coming) = {}
      BY <1>3, <1>5, <1>7, <2>2, <2>4 DEF OrderInv, Silent
    <3>2. "response" \notin News
      BY <3>1 DEF News, Unread, Answers
    <3>3. Unread' = Unread \cup {m}
      BY <1>1, <2>2, <2>4 DEF Unread
    <3>4. News' = News \cup {k}
      BY <1>3, <2>4, <3>3 DEF News
    <3>5. /\ at \notin {"idle", "evict"}
          /\ (at \notin {"idle", "evict"})' = (at \notin {"idle", "evict"})
      BY <1>1, <2>4 DEF InPrompt
    <3>6. Prompts!Say(k)
      BY <1>1, <3>2, <3>4, <3>5 DEF Prompts!Say
    <3> QED BY <2>4, <3>6 DEF Prompts!Next
  <2> QED BY <2>3, <2>4
<1> QED BY <1>6, <1>7

\* The reader only moves messages, and the sentinel is no news.
LEMMA ReaderMaps ==
  ASSUME Types, ReaderInv, NEW p \in Proc, Reader(p) \/ ReadBreaks(p)
  PROVE  UNCHANGED Prompts!vars
<1>1. /\ UNCHANGED <<at, proc, own, waitId, stash, turn, text, shownAsk, cut>>
      /\ p \in reading
  BY DEF Reader, Read, ReadEof, ReadBreaks, ReaderEnds, objectVars, clientVars, turnVars
<1>2. /\ proc = 0 \/ (proc \in Proc /\ proc \in own)
      /\ p # 0 /\ (p \in own => p = proc)
      /\ pipe \in [Proc -> Seq(Message)] /\ inbox \in Seq(Message)
  BY <1>1 DEF Types, ObjectOK, QueuesOK, Proc, ReaderInv
<1>3. CASE p \notin own
  <2>1. inbox' = inbox /\ (proc # 0 => pipe'[proc] = pipe[proc])
    BY <1>2, <1>3 DEF Reader, Read, ReadEof, ReadBreaks, ReaderEnds, Deliver
  <2>2. Coming' = Coming
    BY <1>1, <2>1 DEF Coming
  <2> QED BY <1>1, <2>2, Unseen
<1>4. CASE Read(p) /\ p \in own
  <2> DEFINE m == Head(pipe[proc])
  <2>1. /\ p = proc /\ proc # 0 /\ pipe[proc] # <<>> /\ inbox' = Append(inbox, m)
        /\ pipe' = [pipe EXCEPT ![proc] = Tail(pipe[proc])]
    <3>1. p = proc /\ proc # 0
      BY <1>2, <1>4
    <3> QED BY <1>4, <3>1 DEF Read, Deliver
  <2>2. /\ m \in Message /\ Range(pipe[proc]) = {m} \cup Range(Tail(pipe[proc]))
    BY <1>2, <2>1, TailFacts
  <2>3. pipe'[proc] = Tail(pipe[proc])
    BY <1>2, <2>1
  <2> HIDE DEF m
  <2>4. Range(inbox') = Range(inbox) \cup {m}
    BY <1>2, <2>1, <2>2, AppendFacts
  <2>5. Coming' = Coming
    BY <1>1, <2>1, <2>2, <2>3, <2>4 DEF Coming
  <2> QED BY <1>1, <2>5, Unseen
<1>5. CASE ReaderEnds(p) /\ p \in own
  <2> DEFINE m == [kind |-> "eof", id |-> 0, turn |-> 0, proc |-> p]
  <2>1. inbox' = Append(inbox, m) /\ pipe' = pipe
    BY <1>5 DEF ReaderEnds, Deliver
  <2>2. m \in Message /\ m.kind = "eof"
    BY DEF Message, Turn
  <2> HIDE DEF m
  <2>3. Range(inbox') = Range(inbox) \cup {m}
    BY <1>2, <2>1, <2>2, AppendFacts
  <2>4. Coming' = Coming \cup {m}
    BY <1>1, <2>1, <2>3 DEF Coming
  <2>5. News' = News /\ Busy' = Busy
    BY <1>1, <2>2, <2>4 DEF News, Unread, InPrompt, Busy
  <2> QED BY <1>1, <2>5, Hidden
<1> QED BY <1>3, <1>4, <1>5 DEF Reader, ReadEof, ReadBreaks

LEMMA PromptServiceStep ==
  ASSUME IInv, IInv', Quiet, [Next]_vars, "lag" \notin Fault
  PROVE  [Prompts!Next]_Prompts!vars
<1> USE DEF IInv
<1>1. CASE Begin
  BY <1>1, BeginMaps DEF Prompts!Next
<1>2. CASE EnsureReady
  BY <1>2, EnsureMaps
<1>3. CASE WaitResponse
  BY <1>3, WaitMaps DEF Core
<1>4. CASE PromptReplied
  BY <1>4, RepliedMaps DEF Prompts!Next
<1>5. CASE PromptUpdate
  BY <1>5, UpdateMaps DEF Core
<1>6. CASE PromptAsks
  BY <1>6, AsksMaps DEF Core
<1>7. CASE Answered
  BY <1>7, AnsweredMaps
<1>8. CASE PromptEof \/ PermissionCancelled \/ Deadline
  BY <1>8, CutShortMaps DEF Prompts!Next
<1>9. CASE Evict
  BY <1>9, EvictMaps
<1>10. CASE Remove
  BY <1>10, RemoveMaps DEF Prompts!Next
<1>11. ASSUME NEW p \in Proc, Agent(p)
       PROVE  Prompts!Next \/ UNCHANGED Prompts!vars
  BY <1>11, AgentMaps DEF Core
<1>12. ASSUME NEW p \in Proc, Die(p) PROVE UNCHANGED Prompts!vars
  <2>1. UNCHANGED <<at, turn, text, shownAsk, cut, waitId, proc, pipe, inbox, stash>>
    BY <1>12 DEF Die, objectVars, clientVars, turnVars
  <2>2. Coming' = Coming
    BY <2>1 DEF Coming
  <2> QED BY <2>1, <2>2, Unseen
<1>13. ASSUME NEW p \in Proc, Reader(p) \/ ReadBreaks(p) PROVE UNCHANGED Prompts!vars
  BY <1>13, ReaderMaps DEF Core
<1>14. CASE UNCHANGED vars
  <2>1. UNCHANGED <<at, turn, text, shownAsk, cut, waitId, proc, pipe, inbox, stash>>
    BY <1>14 DEF vars, objectVars, processVars, clientVars, turnVars
  <2>2. Coming' = Coming
    BY <2>1 DEF Coming
  <2> QED BY <2>1, <2>2, Unseen
<1> HIDE DEF IInv
<1> QED BY <1>1, <1>2, <1>3, <1>4, <1>5, <1>6, <1>7, <1>8, <1>9, <1>10, <1>11,
           <1>12, <1>13, <1>14
       DEF Next, HandleMessage

\* Worker, object, processes, reader and registry together behave like
\* PromptService: own text and permission requests only, but for prompts cut
\* short and replayed history, and the own response last (runtime.py, client.py).
THEOREM ServesPrompts == ASSUME "lag" \notin Fault PROVE Spec => KeepsTurns
<1>1. Init => Prompts!Init
  <2> SUFFICES ASSUME Init PROVE Prompts!Init
    OBVIOUS
  <2>1. /\ at = "idle" /\ turn = 0 /\ text = {} /\ shownAsk = 0 /\ cut = {}
    BY DEF Init
  <2>2. News = {} /\ (at \notin {"idle", "evict"}) = FALSE
    BY <2>1 DEF News, Unread, InPrompt
  <2> QED BY <2>1, <2>2 DEF Prompts!Init
<1>2. IInv /\ IInv' /\ Quiet /\ [Next]_vars => [Prompts!Next]_Prompts!vars
  BY PromptServiceStep
<1> QED
  BY <1>1, <1>2, Invariance, QuietAlways, PTL DEF Spec, KeepsTurns, Prompts!Spec

=============================================================================
