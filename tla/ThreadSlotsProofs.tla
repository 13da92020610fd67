------------------------- MODULE ThreadSlotsProofs -------------------------
(***************************************************************************)
(* Safety of ThreadSlots for every number of threads and every limit: the  *)
(* invariant SlotsInv is inductive, one lemma per part of it.              *)
(***************************************************************************)
EXTENDS ThreadSlots, QueueFacts, FiniteSetTheorems

-----------------------------------------------------------------------------
(* Every set of roots is finite, so its cardinality is a number that grows  *)
(* and shrinks with its elements.                                           *)

LEMMA RootSets ==
  ASSUME NEW S \in SUBSET Root
  PROVE  IsFiniteSet(S) /\ Cardinality(S) \in Nat
BY FS_Subset, FS_CardinalityType, SlotsAssumption

LEMMA Monotone ==
  ASSUME NEW T \in SUBSET Root, NEW S \in SUBSET T
  PROVE  Cardinality(S) <= Cardinality(T)
BY RootSets, FS_Subset

\* Exchanging an element for one that was outside keeps the number.
LEMMA Exchange ==
  ASSUME NEW S \in SUBSET Root, NEW x, NEW y \in Root \ S
  PROVE  Cardinality(S) <= Cardinality((S \ {x}) \cup {y})
<1>1. IsFiniteSet(S) /\ Cardinality(S) \in Nat
  BY RootSets
<1>2. /\ IsFiniteSet(S \ {x})
      /\ Cardinality(S \ {x}) \in Nat
      /\ Cardinality(S) <= Cardinality(S \ {x}) + 1
  BY <1>1, FS_RemoveElement, RootSets
<1>3. y \notin S \ {x}
  OBVIOUS
<1>4. Cardinality((S \ {x}) \cup {y}) = Cardinality(S \ {x}) + 1
  BY <1>2, <1>3, FS_AddElement
<1> QED BY <1>1, <1>2, <1>4

-----------------------------------------------------------------------------
(* The queue of a closed thread *)

\* What ThreadClosed does to the places of the roots.
LEMMA ClosedFacts ==
  ASSUME TypeOK, OnePlace, NEW r \in Root, ThreadClosed(r)
  PROVE  /\ record' = record \ {r}
         /\ known' \subseteq Root
         /\ dispatching' \subseteq Root
         /\ parked' \in Seq(Root)
         /\ IsInjective(parked')
         /\ Range(parked') \subseteq Range(parked)
         /\ \/ /\ parked = <<>>
               /\ known' = known \ {r}
               /\ UNCHANGED <<parked, dispatching>>
            \/ \E h \in Range(parked) :
                 /\ Range(parked') = Range(parked) \ {h}
                 /\ dispatching' = dispatching \cup {h}
                 /\ known' = (known \ {r}) \cup {h}
<1>1. parked \in Seq(Root) /\ IsInjective(parked)
  BY DEF TypeOK, OnePlace
<1>2. Range(parked) \subseteq Root
  BY <1>1 DEF Range
<1>3. CASE parked = <<>>
  BY <1>1, <1>3 DEF ThreadClosed, TypeOK
<1>4. CASE parked # <<>>
  <2>1. /\ Head(parked) \in Root
        /\ Tail(parked) \in Seq(Root)
        /\ Range(parked) = {Head(parked)} \cup Range(Tail(parked))
        /\ IsInjective(Tail(parked))
        /\ Head(parked) \notin Range(Tail(parked))
    BY <1>1, <1>4, TailFacts
  <2>2. /\ record' = record \ {r}
        /\ known' = (known \ {r}) \cup {Head(parked)}
        /\ dispatching' = dispatching \cup {Head(parked)}
        /\ parked' = Tail(parked)
    BY <1>4 DEF ThreadClosed
  <2>3. Head(parked) \in Range(parked)
    BY <2>1
  <2>4. Range(parked') = Range(parked) \ {Head(parked)}
    BY <2>1, <2>2
  <2> QED BY <2>1, <2>2, <2>3, <2>4 DEF TypeOK
<1> QED BY <1>3, <1>4

\* The two actions in which a thread is closed.
LEMMA ClosingSteps ==
  ASSUME NEW r \in Root, ThreadClose(r) \/ DoneCloses(r)
  PROVE  \/ StartClosing(r) /\ r \in record
         \/ /\ ThreadClosed(r)
            /\ \/ UNCHANGED closers
               \/ closers[r] > 0 /\ closers' = [closers EXCEPT ![r] = @ - 1]
            /\ UNCHANGED <<arrived, disk, sessions, told, admitted, refused,
                           restarts>>
BY DEF ThreadClose, DoneCloses

-----------------------------------------------------------------------------
(* Types *)

LEMMA TypeStep ==
  ASSUME SlotsInv, [Next]_vars PROVE TypeOK'
<1>1. TypeOK /\ OnePlace
  BY DEF SlotsInv, Placement
<1>2. CASE UNCHANGED vars
  BY <1>1, <1>2 DEF TypeOK, vars
<1>3. ASSUME NEW r \in Root, Arrive(r) PROVE TypeOK'
  BY <1>1, <1>3 DEF TypeOK, Arrive
<1>4. ASSUME NEW r \in Root, Deny(r) PROVE TypeOK'
  BY <1>1, <1>4 DEF TypeOK, Deny
<1>5. ASSUME NEW r \in Root, RunCommand(r) PROVE TypeOK'
  BY <1>1, <1>5 DEF TypeOK, RunCommand
<1>6. ASSUME NEW r \in Root, Admit(r) PROVE TypeOK'
  BY <1>1, <1>6 DEF TypeOK, Admit
<1>7. ASSUME NEW r \in Root, Park(r) PROVE TypeOK'
  <2>1. Append(parked, r) \in Seq(Root)
    BY <1>1 DEF TypeOK
  <2> QED BY <1>1, <1>7, <2>1 DEF TypeOK, Park
<1>8. ASSUME NEW r \in Root, StartClosing(r) PROVE TypeOK'
  <2>1. closers[r] + 1 \in 0..MaxClosers
    BY <1>1, <1>8, SlotsAssumption DEF TypeOK, StartClosing
  <2>2. closers' \in [Root -> 0..MaxClosers]
    BY <1>1, <1>8, <2>1 DEF TypeOK, StartClosing
  <2> QED BY <1>1, <1>8, <2>2 DEF TypeOK, StartClosing
<1>9. ASSUME NEW r \in Root, DoneCommand(r) PROVE TypeOK'
  BY <1>8, <1>9 DEF DoneCommand
<1>10. ASSUME NEW r \in Root, ThreadClose(r) \/ DoneCloses(r) PROVE TypeOK'
  <2>1. CASE StartClosing(r)
    BY <1>8, <2>1
  <2>2. CASE ThreadClosed(r) /\ ~StartClosing(r)
    <3>1. /\ \/ UNCHANGED closers
             \/ closers[r] > 0 /\ closers' = [closers EXCEPT ![r] = @ - 1]
          /\ UNCHANGED <<arrived, disk, sessions, told, admitted, refused,
                         restarts>>
      BY <1>10, <2>2, ClosingSteps
    <3>2. closers' \in [Root -> 0..MaxClosers]
      BY <1>1, <3>1, SlotsAssumption DEF TypeOK
    <3>3. /\ record' = record \ {r}
          /\ known' \subseteq Root
          /\ dispatching' \subseteq Root
          /\ parked' \in Seq(Root)
      BY <1>1, <2>2, ClosedFacts
    <3> QED BY <1>1, <3>1, <3>2, <3>3 DEF TypeOK
  <2> QED BY <1>10, <2>1, <2>2, ClosingSteps
<1>11. CASE Flush
  BY <1>1, <1>11 DEF TypeOK, Flush
<1>12. CASE Restart
  BY <1>1, <1>12, SlotsAssumption DEF TypeOK, Restart
<1> QED
  BY <1>2, <1>3, <1>4, <1>5, <1>6, <1>7, <1>9, <1>10, <1>11, <1>12
  DEF Next, Dispatched

-----------------------------------------------------------------------------
(* Places *)

LEMMA PlacementStep ==
  ASSUME SlotsInv, [Next]_vars PROVE Placement'
<1>1. TypeOK /\ Placement /\ OnePlace
  BY DEF SlotsInv, Placement
<1>2. CASE UNCHANGED vars
  BY <1>1, <1>2 DEF Placement, OnePlace, vars
<1>3. ASSUME NEW r \in Root, Arrive(r) PROVE Placement'
  BY <1>1, <1>3 DEF Placement, OnePlace, Arrive
<1>4. ASSUME NEW r \in Root, Deny(r) PROVE Placement'
  BY <1>1, <1>4 DEF Placement, OnePlace, Deny
<1>5. ASSUME NEW r \in Root, RunCommand(r) PROVE Placement'
  BY <1>1, <1>5 DEF Placement, OnePlace, RunCommand
<1>6. ASSUME NEW r \in Root, Admit(r) PROVE Placement'
  BY <1>1, <1>6 DEF Placement, OnePlace, Admit
<1>7. ASSUME NEW r \in Root, Park(r) PROVE Placement'
  <2>1. parked \in Seq(Root) /\ IsInjective(parked) /\ r \notin Range(parked)
    BY <1>1, <1>7 DEF TypeOK, OnePlace, Park
  <2>2. /\ Range(parked') = Range(parked) \cup {r}
        /\ IsInjective(parked')
    BY <1>7, <2>1, AppendFacts DEF Park
  <2> QED BY <1>1, <1>7, <2>2 DEF Placement, OnePlace, Park
<1>8. ASSUME NEW r \in Root, StartClosing(r) PROVE Placement'
  BY <1>1, <1>8 DEF Placement, OnePlace, StartClosing
<1>9. ASSUME NEW r \in Root, DoneCommand(r) PROVE Placement'
  BY <1>8, <1>9 DEF DoneCommand
<1>10. ASSUME NEW r \in Root, ThreadClose(r) \/ DoneCloses(r) PROVE Placement'
  <2>1. CASE StartClosing(r)
    BY <1>8, <2>1
  <2>2. CASE ThreadClosed(r) /\ ~StartClosing(r)
    <3>1. UNCHANGED <<arrived, disk, told, admitted>>
      BY <1>10, <2>2, ClosingSteps
    <3>2. /\ record' = record \ {r}
          /\ IsInjective(parked')
          /\ \/ UNCHANGED <<parked, dispatching>>
             \/ \E h \in Range(parked) :
                  /\ Range(parked') = Range(parked) \ {h}
                  /\ dispatching' = dispatching \cup {h}
      BY <1>1, <2>2, ClosedFacts
    <3>3. CASE UNCHANGED <<parked, dispatching>>
      BY <1>1, <3>1, <3>2, <3>3 DEF Placement, OnePlace
    <3>4. CASE \E h \in Range(parked) :
                 /\ Range(parked') = Range(parked) \ {h}
                 /\ dispatching' = dispatching \cup {h}
      BY <1>1, <3>1, <3>2, <3>4 DEF Placement, OnePlace
    <3> QED BY <3>2, <3>3, <3>4
  <2> QED BY <1>10, <2>1, <2>2, ClosingSteps
<1>11. CASE Flush
  BY <1>1, <1>11 DEF Placement, OnePlace, Flush
<1>12. CASE Restart
  BY <1>1, <1>12, EmptyFacts DEF Placement, OnePlace, Restart
<1> QED
  BY <1>2, <1>3, <1>4, <1>5, <1>6, <1>7, <1>9, <1>10, <1>11, <1>12
  DEF Next, Dispatched

-----------------------------------------------------------------------------
(* The limit *)

LEMMA BoundStep ==
  ASSUME SlotsInv, [Next]_vars PROVE SlotsBounded'
<1>1. /\ TypeOK /\ OnePlace /\ SlotsBounded
      /\ record \in SUBSET Root /\ disk \in SUBSET Root
  BY DEF SlotsInv, Placement, TypeOK
<1>2. CASE UNCHANGED <<record, disk>>
  BY <1>1, <1>2 DEF SlotsBounded
<1>3. ASSUME NEW r \in Root, Admit(r) PROVE SlotsBounded'
  <2>1. IsFiniteSet(record) /\ Cardinality(record) \in Nat
    BY <1>1, RootSets
  <2>2. Cardinality(record \cup {r}) <= Cardinality(record) + 1
    BY <2>1, FS_AddElement
  <2>3. Cardinality(record \cup {r}) \in Nat
    BY <1>1, RootSets
  <2> QED BY <1>1, <1>3, <2>1, <2>2, <2>3, SlotsAssumption
          DEF SlotsBounded, Admit, SlotFree
<1>4. ASSUME NEW r \in Root, ThreadClosed(r), UNCHANGED disk
      PROVE  SlotsBounded'
  <2>1. Cardinality(record \ {r}) <= Cardinality(record)
    BY <1>1, Monotone
  <2>2. Cardinality(record \ {r}) \in Nat /\ Cardinality(record) \in Nat
    BY <1>1, RootSets
  <2> QED BY <1>1, <1>4, <2>1, <2>2, SlotsAssumption
          DEF SlotsBounded, ThreadClosed
<1>5. CASE Flush
  BY <1>1, <1>5 DEF SlotsBounded, Flush
<1>6. CASE Restart
  BY <1>1, <1>6 DEF SlotsBounded, Restart
<1>7. ASSUME NEW r \in Root, StartClosing(r) PROVE SlotsBounded'
  BY <1>2, <1>7 DEF StartClosing
<1>8. ASSUME NEW r \in Root, ThreadClose(r) \/ DoneCloses(r)
      PROVE  SlotsBounded'
  BY <1>4, <1>7, <1>8, ClosingSteps
<1>9. ASSUME NEW r \in Root, Arrive(r) \/ Deny(r) \/ RunCommand(r) \/ Park(r)
      PROVE  SlotsBounded'
  BY <1>2, <1>9 DEF Arrive, Deny, RunCommand, Park
<1>10. CASE UNCHANGED vars
  BY <1>2, <1>10 DEF vars
<1> QED
  BY <1>3, <1>5, <1>6, <1>7, <1>8, <1>9, <1>10
  DEF Next, Dispatched, DoneCommand

-----------------------------------------------------------------------------
(* The line moves *)

\* While the line is not empty, active and called roots fill the slots.  An
\* admitted root was called or is a new element; a parked one found the slots
\* full; a closed thread is replaced by the head of the line.
LEMMA LineStep ==
  ASSUME SlotsInv, [Next]_vars PROVE NoIdleSlot'
<1>1. /\ TypeOK /\ Placement /\ OnePlace /\ NoIdleSlot
      /\ record \in SUBSET Root /\ Called \in SUBSET Root
  BY DEF SlotsInv, Placement, TypeOK, Called
<1>2. TypeOK' /\ record' \cup Called' \in SUBSET Root
  BY TypeStep DEF TypeOK, Called
<1>3. /\ Cardinality(record) \in Nat
      /\ Cardinality(record \cup Called) \in Nat
      /\ Cardinality(record' \cup Called') \in Nat
  BY <1>1, <1>2, RootSets
<1> SUFFICES ASSUME "revoke" \notin Fault, parked' # <<>>
             PROVE  Cardinality(record' \cup Called') >= Limit
  BY DEF NoIdleSlot
\* It is enough that the line was not empty and the set did not shrink.
<1>4. ASSUME parked # <<>>,
             Cardinality(record \cup Called)
               <= Cardinality(record' \cup Called')
      PROVE  Cardinality(record' \cup Called') >= Limit
  BY <1>1, <1>3, <1>4, SlotsAssumption DEF NoIdleSlot
<1>5. ASSUME parked # <<>>, record \cup Called \subseteq record' \cup Called'
      PROVE  Cardinality(record' \cup Called') >= Limit
  BY <1>2, <1>4, <1>5, Monotone
<1>6. CASE UNCHANGED vars
  BY <1>5, <1>6 DEF vars, Called
<1>7. ASSUME NEW r \in Root, Arrive(r)
      PROVE  Cardinality(record' \cup Called') >= Limit
  BY <1>5, <1>7 DEF Arrive, Called
<1>8. ASSUME NEW r \in Root, Deny(r)
      PROVE  Cardinality(record' \cup Called') >= Limit
  BY <1>5, <1>8 DEF Deny, Called
<1>9. ASSUME NEW r \in Root, RunCommand(r)
      PROVE  Cardinality(record' \cup Called') >= Limit
  <2>1. r \notin told
    BY <1>1, <1>9 DEF Placement, RunCommand
  <2> QED BY <1>5, <1>9, <2>1 DEF RunCommand, Called
<1>10. ASSUME NEW r \in Root, Admit(r)
       PROVE  Cardinality(record' \cup Called') >= Limit
  BY <1>5, <1>10 DEF Admit, Called
<1>11. ASSUME NEW r \in Root, Park(r)
       PROVE  Cardinality(record' \cup Called') >= Limit
  <2>1. Cardinality(record) >= Limit /\ record' = record
    BY <1>3, <1>11, SlotsAssumption DEF Park, SlotFree
  <2>2. Cardinality(record) <= Cardinality(record' \cup Called')
    BY <1>2, <2>1, Monotone
  <2> QED BY <1>3, <2>1, <2>2, SlotsAssumption
<1>12. ASSUME NEW r \in Root, StartClosing(r)
       PROVE  Cardinality(record' \cup Called') >= Limit
  BY <1>5, <1>12 DEF StartClosing, Called
<1>13. ASSUME NEW r \in Root, ThreadClosed(r), UNCHANGED told
       PROVE  Cardinality(record' \cup Called') >= Limit
  <2>1. parked # <<>> /\ record' = record \ {r}
    BY <1>13 DEF ThreadClosed
  <2>2. PICK h \in Range(parked) : dispatching' = dispatching \cup {h}
    BY <1>1, <1>13, <2>1, ClosedFacts
  <2>3. /\ h \in Root \ (record \cup Called)
        /\ h \in told
    BY <1>1, <2>2 DEF Placement, OnePlace, Called, TypeOK, Range
  <2>4. ((record \cup Called) \ {r}) \cup {h} \subseteq record' \cup Called'
    BY <1>13, <2>1, <2>2, <2>3 DEF Called
  <2>5. Cardinality(record \cup Called)
          <= Cardinality(((record \cup Called) \ {r}) \cup {h})
    BY <1>1, <2>3, Exchange
  <2>6. Cardinality(((record \cup Called) \ {r}) \cup {h})
          <= Cardinality(record' \cup Called')
    BY <1>2, <2>4, Monotone
  <2>7. Cardinality(((record \cup Called) \ {r}) \cup {h}) \in Nat
    BY <1>1, <2>3, RootSets
  <2> QED BY <1>3, <1>4, <2>1, <2>5, <2>6, <2>7
<1>14. ASSUME NEW r \in Root, ThreadClose(r) \/ DoneCloses(r)
       PROVE  Cardinality(record' \cup Called') >= Limit
  BY <1>12, <1>13, <1>14, ClosingSteps
<1>15. CASE Flush
  BY <1>5, <1>15 DEF Flush, Called
<1>16. CASE Restart
  BY <1>16 DEF Restart
<1> QED
  BY <1>6, <1>7, <1>8, <1>9, <1>10, <1>11, <1>12, <1>14, <1>15, <1>16
  DEF Next, Dispatched, DoneCommand

-----------------------------------------------------------------------------
(* Replies *)

LEMMA RoutingStep ==
  ASSUME SlotsInv, [Next]_vars PROVE Routing'
<1>1. TypeOK /\ Placement /\ OnePlace /\ Routing
  BY DEF SlotsInv, Placement
<1>2. CASE UNCHANGED vars
  BY <1>1, <1>2 DEF Routing, RepliesRouted, vars
<1>3. ASSUME NEW r \in Root, Arrive(r) PROVE Routing'
  BY <1>1, <1>3 DEF Routing, RepliesRouted, Placement, Arrive
<1>4. ASSUME NEW r \in Root, Deny(r) PROVE Routing'
  BY <1>1, <1>4 DEF Routing, RepliesRouted, Placement, OnePlace, Deny
<1>5. ASSUME NEW r \in Root, RunCommand(r) PROVE Routing'
  BY <1>1, <1>5 DEF Routing, RepliesRouted, RunCommand
<1>6. ASSUME NEW r \in Root, Admit(r) PROVE Routing'
  BY <1>1, <1>6 DEF Routing, RepliesRouted, Placement, Admit
<1>7. ASSUME NEW r \in Root, Park(r) PROVE Routing'
  <2>1. parked \in Seq(Root)
    BY <1>1 DEF TypeOK
  <2>2. Range(parked') = Range(parked) \cup {r}
    BY <1>7, <2>1, AppendFacts DEF Park
  <2> QED BY <1>1, <1>7, <2>2
          DEF Routing, RepliesRouted, Placement, OnePlace, Park
<1>8. ASSUME NEW r \in Root, StartClosing(r), r \in arrived,
             "early" \notin Fault => r \notin dispatching \cup Range(parked)
      PROVE  Routing'
  <2>1. \A u \in Root : u # r => closers'[u] = closers[u]
    BY <1>1, <1>8 DEF TypeOK, StartClosing
  <2> QED BY <1>1, <1>8, <2>1 DEF Routing, RepliesRouted, StartClosing, TypeOK, Range
<1>9. ASSUME NEW r \in Root, DoneCommand(r) PROVE Routing'
  <2>1. r \in arrived /\ r \in known /\ StartClosing(r)
    BY <1>1, <1>9 DEF DoneCommand, Routing
  <2>2. r \notin Range(parked)
    BY <1>1, <2>1 DEF Routing, RepliesRouted, Placement, OnePlace
  <2> QED BY <1>8, <1>9, <2>1, <2>2 DEF DoneCommand
<1>10. ASSUME NEW r \in Root, ThreadClose(r) \/ DoneCloses(r) PROVE Routing'
  <2>1. CASE StartClosing(r) /\ r \in record
    BY <1>1, <1>8, <2>1 DEF Placement, OnePlace
  <2>2. CASE /\ ThreadClosed(r)
             /\ \/ UNCHANGED closers
                \/ closers[r] > 0 /\ closers' = [closers EXCEPT ![r] = @ - 1]
             /\ UNCHANGED <<arrived, admitted, refused>>
             /\ r \in record \/ closers[r] > 0
    <3>1. \A u \in Root : closers[u] = 0 => closers'[u] = 0
      BY <1>1, <2>2 DEF TypeOK
    <3>2. "early" \notin Fault => r \notin dispatching \cup Range(parked)
      BY <1>1, <2>2 DEF Routing, Placement, OnePlace, TypeOK
    <3>3. /\ record' = record \ {r}
          /\ \/ /\ known' = known \ {r}
                /\ UNCHANGED <<parked, dispatching>>
             \/ \E h \in Range(parked) :
                  /\ Range(parked') = Range(parked) \ {h}
                  /\ dispatching' = dispatching \cup {h}
                  /\ known' = (known \ {r}) \cup {h}
      BY <1>1, <2>2, ClosedFacts
    <3>4. CASE known' = known \ {r} /\ UNCHANGED <<parked, dispatching>>
      BY <1>1, <2>2, <3>1, <3>2, <3>3, <3>4
      DEF Routing, RepliesRouted, Placement, TypeOK, Range
    <3>5. ASSUME NEW h \in Range(parked),
                 Range(parked') = Range(parked) \ {h},
                 dispatching' = dispatching \cup {h},
                 known' = (known \ {r}) \cup {h}
          PROVE  Routing'
      <4>1. h \in Root /\ h \in arrived
        BY <1>1 DEF Placement, TypeOK, Range
      <4>2. RepliesRouted'
        BY <1>1, <2>2, <3>2, <3>3, <3>5 DEF Routing, RepliesRouted
      <4>3. /\ known' \cup refused' \subseteq arrived'
            /\ refused' \cap (admitted' \cup dispatching' \cup Range(parked'))
                 = {}
        BY <1>1, <2>2, <3>5, <4>1 DEF Routing
      <4>4. \A u \in Root \ arrived' : closers'[u] = 0
        BY <1>1, <2>2, <3>1 DEF Routing
      <4>5. ASSUME "early" \notin Fault
            PROVE  /\ dispatching' \subseteq known'
                   /\ \A u \in dispatching' \cup Range(parked') :
                        closers'[u] = 0
        <5>1. /\ dispatching \subseteq known \ {r}
              /\ \A u \in dispatching \cup Range(parked) :
                   u \in Root /\ closers[u] = 0
          BY <1>1, <3>2, <4>5 DEF Routing, TypeOK, Range
        <5> QED BY <3>1, <3>5, <5>1
      <4> QED BY <4>2, <4>3, <4>4, <4>5 DEF Routing
    <3> QED BY <3>3, <3>4, <3>5
  <2>3. ThreadClose(r) => StartClosing(r) \/ r \in record
    BY DEF ThreadClose
  <2>4. DoneCloses(r) => closers[r] > 0
    BY DEF DoneCloses
  <2> QED BY <1>10, <2>1, <2>2, <2>3, <2>4, ClosingSteps DEF ThreadClose
<1>11. CASE Flush
  BY <1>1, <1>11 DEF Routing, RepliesRouted, Flush
<1>12. CASE Restart
  BY <1>1, <1>12, EmptyFacts DEF Routing, RepliesRouted, Placement, Restart
<1> QED
  BY <1>2, <1>3, <1>4, <1>5, <1>6, <1>7, <1>9, <1>10, <1>11, <1>12
  DEF Next, Dispatched

-----------------------------------------------------------------------------
(* Theorems *)

\* The four parts of the invariant hold together from the start of the bot on,
\* whatever dispatches, closes, flushes and restarts do (dispatcher.py 324-488).
THEOREM SlotsInductive == Spec => []SlotsInv
<1>1. Init => SlotsInv
  <2> SUFFICES ASSUME Init PROVE SlotsInv
    OBVIOUS
  <2>1. TypeOK
    BY SlotsAssumption DEF Init, TypeOK
  <2>2. Placement
    BY EmptyFacts DEF Init, Placement, OnePlace
  <2>3. SlotsBounded
    BY FS_EmptySet, SlotsAssumption DEF Init, SlotsBounded
  <2>4. NoIdleSlot
    BY DEF Init, NoIdleSlot
  <2>5. Routing
    BY EmptyFacts DEF Init, Routing, RepliesRouted
  <2> QED BY <2>1, <2>2, <2>3, <2>4, <2>5 DEF SlotsInv
<1>2. SlotsInv /\ [Next]_vars => SlotsInv'
  BY TypeStep, PlacementStep, BoundStep, LineStep, RoutingStep DEF SlotsInv
<1> QED BY <1>1, <1>2, PTL DEF Spec

\* A chat never has more active threads than the limit allows, in memory or in
\* the state file (dispatcher.py 330-368, state_store.py 149-174).
THEOREM LimitKept == Spec => []SlotsBounded
<1>1. SlotsInv => SlotsBounded
  BY DEF SlotsInv
<1> QED BY <1>1, SlotsInductive, PTL

\* As long as no parked sender loses its role, nobody waits in front of a free
\* slot (dispatcher.py 474-488).
THEOREM LineMoves == Spec => []NoIdleSlot
<1>1. SlotsInv => NoIdleSlot
  BY DEF SlotsInv
<1> QED BY <1>1, SlotsInductive, PTL

\* A root is dispatched, parked once or active, never two of them, although
\* double closes dispatch roots again and again (dispatcher.py 332-368, 474-488).
THEOREM PlacesExclusive == Spec => []OnePlace
<1>1. SlotsInv => OnePlace
  BY DEF SlotsInv, Placement
<1> QED BY <1>1, SlotsInductive, PTL

\* The handler accepts the replies of active threads and ignores those of
\* parked and closed ones (handler.py 119-134, 386-404).
THEOREM RepliesFollowSlots == Spec => []RepliesRouted
<1>1. SlotsInv => RepliesRouted
  BY DEF SlotsInv, Routing
<1> QED BY <1>1, SlotsInductive, PTL
=============================================================================
