----------------------------- MODULE AclProofs -----------------------------
(***************************************************************************)
(* Proofs about Acl for any set of people, requests and values of          *)
(* admin_users.                                                            *)
(***************************************************************************)
EXTENDS Acl, TLAPS

\* The role that get_role returns is a role the person has had.
RolesHeld ==
  \A u \in User :
    /\ u \in admins => "admin" \in held[u]
    /\ users[u] # NoRow => users[u].role \in held[u]

\* A handler past its check has the right to go on, by a role its actor has
\* had: the application it decides exists and its reviewer may decide it, the
\* row it adds may be added.
Entitled ==
  \A r \in Request :
    /\ req[r].at \in {"read", "mark", "grant"} => req[r].seen \in held[req[r].who]
    /\ req[r].at \in {"mark", "grant"} =>
         app[req[r].app].status # "none" /\ CanReview(req[r].seen, app[req[r].app].want)
    /\ req[r].at = "put" => \E h \in held[req[r].who] : CanAdd(h, req[r].want)

\* A request that has not inserted its row has none.
Fresh ==
  \A r \in Request :
    req[r].at \in {"new", "check", "insert"} => app[r].status = "none"

IInv ==
  /\ TypeOK
  /\ Fresh
  /\ OnePending
  /\ Delegated
  /\ GrantOnce
  /\ ApprovalTakesEffect
  /\ RolesHeld
  /\ Entitled

-----------------------------------------------------------------------------
\* What a handler's await says of its locals.
LEMMA Handlers ==
  ASSUME TypeOK, NEW r \in Request
  PROVE  /\ req[r].at \in {"check", "insert"} => req[r] \in Applying
         /\ req[r].at \in {"read", "mark", "grant"} => req[r] \in Reviewing
         /\ req[r].at = "put" => req[r] \in Adding
         /\ req[r].at \in {"target", "delete"} => req[r] \in Removing
<1>1. req[r] \in {New, Done} \cup Applying \cup Reviewing \cup Adding \cup Removing
  BY DEF TypeOK
<1>2. QED
  BY <1>1 DEF New, Done, Applying, Reviewing, Adding, Removing

\* MoveOn, Finish and Start write one entry of req.
LEMMA OneHandler ==
  ASSUME TypeOK, NEW r \in Request
  PROVE  /\ \A x : (req' = [req EXCEPT ![r] = x]) =>
               req'[r] = x /\ \A s \in Request : s # r => req'[s] = req[s]
         /\ \A x : (req' = [req EXCEPT ![r].at = x]) =>
               /\ req'[r] = [req[r] EXCEPT !.at = x]
               /\ \A s \in Request : s # r => req'[s] = req[s]
  BY DEF TypeOK

\* A row that is there says who wrote it and which role it gives.
LEMMA Rows ==
  ASSUME TypeOK
  PROVE  /\ \A u \in User : users[u] # NoRow => users[u] \in Row /\ users[u].role \in DbRole
         /\ \A i \in Request : app[i].status # "none" => app[i] \in Application
         /\ \A i \in Request : app[i].status \in Decision \cup {"pending", "none"}
  BY DEF TypeOK, Row, NoRow, Application, NoApplication, Decision

\* The types hold at the start.
LEMMA TypeInit == Init => TypeOK
  BY AclAssumption
     DEF Init, TypeOK, NoRow, NoApplication, New, Role

\* Every step keeps the types; a grant needs an application that exists.
LEMMA TypeStep == TypeOK /\ GrantOnce /\ [Next]_vars => TypeOK'
<1> SUFFICES ASSUME TypeOK, GrantOnce, [Next]_vars PROVE TypeOK'
  OBVIOUS
<1> USE DEF New, Done, Applying, Reviewing, Adding, Removing
<1>1. ASSUME NEW r \in Request, Arrive(r) PROVE TypeOK'
  <2> USE DEF Start
  <2>1. ASSUME NEW u \in User, NEW w \in DbRole, Apply(r, u, w) PROVE TypeOK'
    BY <2>1 DEF Apply, TypeOK
  <2>2. ASSUME NEW u \in User, NEW i \in Request, NEW d \in Decision, Review(r, u, i, d)
        PROVE  TypeOK'
    <3>1. GetRole(u) \in Role
      BY <2>2, Rows DEF Review, Authorized, GetRole, Role, NoRow
    <3>2. QED
      BY <2>2, <3>1 DEF Review, TypeOK
  <2>3. ASSUME NEW u \in User, NEW v \in User, NEW w \in DbRole, Add(r, u, v, w)
        PROVE  TypeOK'
    BY <2>3 DEF Add, TypeOK
  <2>4. ASSUME NEW u \in User, NEW v \in User, Remove(r, u, v) PROVE TypeOK'
    <3>1. GetRole(u) \in Role
      BY <2>4, Rows DEF Remove, Authorized, GetRole, Role, NoRow
    <3>2. QED
      BY <2>4, <3>1 DEF Remove, TypeOK
  <2>5. QED
    BY <1>1, <2>1, <2>2, <2>3, <2>4 DEF Arrive
<1>2. ASSUME NEW r \in Request, CheckPending(r) PROVE TypeOK'
  BY <1>2, Handlers DEF CheckPending, Finish, MoveOn, TypeOK
<1>3. ASSUME NEW r \in Request, Insert(r) PROVE TypeOK'
  <2>1. req[r] \in Applying
    BY <1>3, Handlers DEF Insert
  <2>2. [status |-> "pending", who |-> req[r].who, want |-> req[r].want] \in Application
    BY <2>1 DEF Application
  <2>3. QED
    BY <1>3, <2>2 DEF Insert, Finish, TypeOK
<1>4. ASSUME NEW r \in Request, ReadApplication(r) PROVE TypeOK'
  BY <1>4, Handlers DEF ReadApplication, Finish, MoveOn, TypeOK
<1>5. ASSUME NEW r \in Request, Mark(r) PROVE TypeOK'
  <2>1. req[r] \in Reviewing
    BY <1>5, Handlers DEF Mark
  <2>2. req' \in [Request -> {New, Done} \cup Applying \cup Reviewing \cup Adding \cup Removing]
    BY <1>5, <2>1 DEF Mark, Finish, MoveOn, TypeOK
  <2>3. app' \in [Request -> Application \cup {NoApplication}]
    <3>1. CASE IsPending(req[r].app)
      BY <1>5, <2>1, <3>1, Rows DEF Mark, TypeOK, IsPending, Application
    <3>2. CASE ~IsPending(req[r].app)
      BY <1>5, <3>2 DEF Mark, TypeOK
    <3>3. QED
      BY <3>1, <3>2
  <2>4. QED
    BY <1>5, <2>2, <2>3 DEF Mark, TypeOK
<1>6. ASSUME NEW v \in User, NEW w \in DbRole, NEW by \in User, AddUser(v, w, by)
      PROVE  /\ users' \in [User -> Row \cup {NoRow}]
             /\ held' \in [User -> SUBSET Role]
  BY <1>6 DEF AddUser, TypeOK, Row, Role
<1>7. ASSUME NEW r \in Request, Grant(r) PROVE TypeOK'
  <2>1. req[r] \in Reviewing
    BY <1>7, Handlers DEF Grant
  <2>2. app[req[r].app] \in Application
    BY <1>7, <2>1, Rows DEF Grant, GrantOnce
  <2>3. users' \in [User -> Row \cup {NoRow}] /\ held' \in [User -> SUBSET Role]
    BY <1>6, <1>7, <2>1, <2>2 DEF Grant, Application
  <2>4. QED
    BY <1>7, <2>3 DEF Grant, Finish, TypeOK
<1>8. ASSUME NEW r \in Request, Put(r) PROVE TypeOK'
  <2>1. req[r] \in Adding
    BY <1>8, Handlers DEF Put
  <2>2. users' \in [User -> Row \cup {NoRow}] /\ held' \in [User -> SUBSET Role]
    BY <1>6, <1>8, <2>1 DEF Put
  <2>3. QED
    BY <1>8, <2>2 DEF Put, Finish, TypeOK
<1>9. ASSUME NEW r \in Request, ReadTarget(r) PROVE TypeOK'
  BY <1>9, Handlers DEF ReadTarget, Finish, MoveOn, TypeOK
<1>10. ASSUME NEW r \in Request, DeleteUser(r) PROVE TypeOK'
  BY <1>10 DEF DeleteUser, Finish, TypeOK
<1>11. ASSUME NEW list \in AdminLists, Reload(list) PROVE TypeOK'
  BY <1>11 DEF Reload, TypeOK, Role
<1>12. ASSUME Crash PROVE TypeOK'
  <2>1. \A r \in Request : req[r].at = "grant" => req[r].app \in Request
    BY Handlers
  <2>2. half' \subseteq Request
    BY <1>12, <2>1 DEF Crash, TypeOK
  <2>3. QED
    BY <1>12, <2>2 DEF Crash, TypeOK
<1>13. ASSUME NEW r \in Request, StatementFails(r) PROVE TypeOK'
  <2>1. req[r].at = "grant" => req[r].app \in Request
    BY <1>13, Handlers
  <2>2. half' \subseteq Request
    BY <1>13, <2>1 DEF StatementFails, TypeOK
  <2>3. QED
    BY <1>13, <2>2 DEF StatementFails, Finish, TypeOK
<1>14. CASE UNCHANGED vars
  BY <1>14 DEF vars, TypeOK
<1>15. QED
  BY <1>1, <1>2, <1>3, <1>4, <1>5, <1>7, <1>8, <1>9, <1>10, <1>11, <1>12, <1>13,
     <1>14 DEF Next, Step

-----------------------------------------------------------------------------
(* What a step may change, said once for the invariants below.             *)

\* The status of an application moves from none to pending to a decision,
\* and nothing else of it moves.
LEMMA Applications ==
  ASSUME TypeOK, [Next]_vars, NEW i \in Request
  PROVE  \/ app'[i] = app[i]
         \/ /\ Insert(i)
            /\ ~HasPending(req[i].who)
            /\ app' = [app EXCEPT ![i] = [status |-> "pending", who |-> req[i].who,
                                          want |-> req[i].want]]
         \/ \E r \in Request :
              /\ Mark(r) /\ req[r].app = i /\ IsPending(i)
              /\ app' = [app EXCEPT ![i].status = req[r].verdict]
<1>1. ASSUME NEW r \in Request, Insert(r)
      PROVE  \/ app'[i] = app[i]
             \/ /\ r = i
                /\ ~HasPending(req[r].who)
                /\ app' = [app EXCEPT ![r] = [status |-> "pending", who |-> req[r].who,
                                              want |-> req[r].want]]
  BY <1>1 DEF Insert, TypeOK
<1>2. ASSUME NEW r \in Request, Mark(r)
      PROVE  \/ app'[i] = app[i]
             \/ /\ req[r].app = i /\ IsPending(i)
                /\ app' = [app EXCEPT ![i].status = req[r].verdict]
  BY <1>2 DEF Mark, TypeOK
<1>3. ASSUME NEW r \in Request,
             Arrive(r) \/ CheckPending(r) \/ ReadApplication(r) \/ Grant(r) \/ Put(r)
               \/ ReadTarget(r) \/ DeleteUser(r) \/ StatementFails(r)
      PROVE  app' = app
  BY <1>3 DEF Arrive, Apply, Review, Add, Remove, Start, CheckPending, ReadApplication, Grant,
              Put, ReadTarget, DeleteUser, StatementFails
<1>4. CASE (\E list \in AdminLists : Reload(list)) \/ Crash \/ UNCHANGED vars
  BY <1>4 DEF Reload, Crash, vars
<1>5. QED
  BY <1>1, <1>2, <1>3, <1>4 DEF Next, Step

\* Roles that have been held are not forgotten.
LEMMA HeldGrows ==
  ASSUME TypeOK, [Next]_vars, NEW u \in User
  PROVE  held[u] \subseteq held'[u]
<1>1. ASSUME NEW r \in Request, Grant(r) \/ Put(r) PROVE held[u] \subseteq held'[u]
  BY <1>1 DEF Grant, Put, AddUser, TypeOK
<1>2. ASSUME NEW list \in AdminLists, Reload(list) PROVE held[u] \subseteq held'[u]
  BY <1>2 DEF Reload, TypeOK
<1>3. ASSUME NEW r \in Request,
             Arrive(r) \/ CheckPending(r) \/ Insert(r) \/ ReadApplication(r) \/ Mark(r)
               \/ ReadTarget(r) \/ DeleteUser(r) \/ StatementFails(r)
      PROVE  held' = held
  BY <1>3 DEF Arrive, Apply, Review, Add, Remove, Start, CheckPending, Insert, ReadApplication,
              Mark, ReadTarget, DeleteUser, StatementFails
<1>4. CASE Crash \/ UNCHANGED vars
  BY <1>4 DEF Crash, vars
<1>5. QED
  BY <1>1, <1>2, <1>3, <1>4 DEF Next, Step

\* A handler stays, ends, starts, or passes one of its four checks.
LEMMA Moves ==
  ASSUME TypeOK, [Next]_vars, NEW s \in Request
  PROVE  \/ req'[s] = req[s]
         \/ req'[s] = Done
         \/ req[s] = New /\ Arrive(s)
         \/ CheckPending(s) /\ req'[s] = [req[s] EXCEPT !.at = "insert"]
         \/ /\ ReadApplication(s) /\ req'[s] = [req[s] EXCEPT !.at = "mark"]
            /\ IsPending(req[s].app) /\ CanReview(req[s].seen, app[req[s].app].want)
         \/ /\ Mark(s) /\ req'[s] = [req[s] EXCEPT !.at = "grant"]
            /\ IsPending(req[s].app) /\ req[s].verdict = "approved"
            /\ app' = [app EXCEPT ![req[s].app].status = req[s].verdict]
         \/ ReadTarget(s) /\ req'[s] = [req[s] EXCEPT !.at = "delete"]
<1>1. ASSUME NEW r \in Request, r # s, Arrive(r) \/ Step(r) PROVE req'[s] = req[s]
  BY <1>1 DEF TypeOK, Arrive, Apply, Review, Add, Remove, Start, Step, CheckPending, Insert,
              ReadApplication, Mark, Grant, Put, ReadTarget, DeleteUser, StatementFails,
              Finish, MoveOn
<1>2. CASE Arrive(s)
  BY <1>2 DEF Arrive, Apply, Review, Add, Remove, Start
<1>3. CASE CheckPending(s)
  BY <1>3 DEF CheckPending, Finish, MoveOn, TypeOK
<1>4. CASE ReadApplication(s)
  BY <1>4 DEF ReadApplication, Finish, MoveOn, TypeOK
<1>5. CASE Mark(s)
  BY <1>5 DEF Mark, Finish, MoveOn, TypeOK
<1>6. CASE ReadTarget(s)
  BY <1>6 DEF ReadTarget, Finish, MoveOn, TypeOK
<1>7. CASE Insert(s) \/ Grant(s) \/ Put(s) \/ DeleteUser(s) \/ StatementFails(s)
  BY <1>7 DEF Insert, Grant, Put, DeleteUser, StatementFails, Finish, TypeOK
<1>8. CASE Crash
  BY <1>8 DEF Crash, TypeOK
<1>9. CASE (\E list \in AdminLists : Reload(list)) \/ UNCHANGED vars
  BY <1>9 DEF Reload, vars
<1>10. QED
  BY <1>1, <1>2, <1>3, <1>4, <1>5, <1>6, <1>7, <1>8, <1>9 DEF Next, Step

\* A handler that starts waits at one of four first awaits.
LEMMA Arrivals ==
  ASSUME TypeOK, NEW s \in Request, Arrive(s)
  PROVE  /\ UNCHANGED <<admins, users, app, held, half>>
         /\ \/ req'[s].at \in {"check", "target"}
            \/ /\ req'[s].at = "read"
               /\ Authorized(req'[s].who) /\ req'[s].seen = GetRole(req'[s].who)
               /\ req'[s].who \in User
            \/ /\ req'[s].at = "put"
               /\ CanAdd(GetRole(req'[s].who), req'[s].want)
               /\ req'[s].who \in User
  BY DEF TypeOK, Arrive, Apply, Review, Add, Remove, Start

-----------------------------------------------------------------------------
(* The conjuncts of the invariant.                                         *)

\* A request inserts its row once.
LEMMA FreshStep ==
  ASSUME TypeOK, Fresh, [Next]_vars
  PROVE  Fresh'
<1> SUFFICES ASSUME NEW r \in Request, req'[r].at \in {"new", "check", "insert"}
             PROVE  app'[r].status = "none"
  BY DEF Fresh
<1>1. req[r].at \in {"new", "check", "insert"} /\ ~Insert(r)
  <2>1. ~Insert(r)
    BY DEF Insert, Finish, Done, TypeOK
  <2>2. req'[r] # Done
    BY DEF Done
  <2>3. ReadApplication(r) => req'[r] # [req[r] EXCEPT !.at = "mark"]
    BY Handlers DEF ReadApplication, Reviewing
  <2>4. Mark(r) => req'[r] # [req[r] EXCEPT !.at = "grant"]
    BY Handlers DEF Mark, Reviewing
  <2>5. ReadTarget(r) => req'[r] # [req[r] EXCEPT !.at = "delete"]
    BY Handlers DEF ReadTarget, Removing
  <2>6. req'[r] = req[r] \/ req[r] = New \/ CheckPending(r)
    BY <2>2, <2>3, <2>4, <2>5, Moves
  <2>7. QED
    BY <2>1, <2>6 DEF New, CheckPending
<1>2. app[r].status = "none"
  BY <1>1 DEF Fresh
<1>3. QED
  BY <1>1, <1>2, Applications DEF IsPending

\* The second look of create_application keeps the pending ones apart.
LEMMA OnePendingStep ==
  ASSUME TypeOK, OnePending, [Next]_vars
  PROVE  OnePending'
<1> SUFFICES ASSUME NEW i \in Request, NEW j \in Request, IsPending(i)', IsPending(j)',
                    app'[i].who = app'[j].who
             PROVE  i = j
  BY DEF OnePending
<1>1. ASSUME NEW k \in Request, IsPending(k)'
      PROVE  \/ IsPending(k) /\ app'[k] = app[k]
             \/ /\ ~HasPending(app'[k].who)
                /\ \A x \in Request : x # k => app'[x] = app[x]
  <2>1. ASSUME NEW r \in Request, Mark(r), req[r].app = k,
               app' = [app EXCEPT ![k].status = req[r].verdict]
        PROVE  FALSE
    BY <1>1, <2>1, Handlers DEF Mark, Reviewing, Decision, IsPending, TypeOK
  <2>2. QED
    BY <1>1, <2>1, Applications DEF IsPending, TypeOK
<1>2. QED
  BY <1>1 DEF OnePending, HasPending, IsPending

\* A decision stands.
LEMMA Decided ==
  ASSUME TypeOK, Fresh, [Next]_vars, NEW i \in Request, app[i].status \in Decision
  PROVE  app'[i] = app[i]
<1>1. ~Insert(i)
  BY DEF Insert, Fresh, Decision
<1>2. ~IsPending(i)
  BY DEF IsPending, Decision
<1>3. QED
  BY <1>1, <1>2, Applications

\* A handler that is about to grant was there before or has just approved.
LEMMA Granting ==
  ASSUME TypeOK, [Next]_vars, NEW r \in Request, req'[r].at = "grant"
  PROVE  \/ req'[r] = req[r]
         \/ /\ req'[r].app = req[r].app /\ IsPending(req[r].app)
            /\ req[r].app \in Request /\ app'[req[r].app].status = "approved"
            /\ req[r].at = "mark" /\ req'[r] = [req[r] EXCEPT !.at = "grant"]
            /\ \A s \in Request : s # r => req'[s] = req[s]
<1>1. req'[r] # Done /\ (req[r] = New => ~Arrive(r))
  BY Arrivals DEF Done
<1>2. ~(CheckPending(r) /\ req'[r] = [req[r] EXCEPT !.at = "insert"])
  BY Handlers DEF CheckPending, Applying
<1>3. ~(ReadApplication(r) /\ req'[r] = [req[r] EXCEPT !.at = "mark"])
  BY Handlers DEF ReadApplication, Reviewing
<1>4. ~(ReadTarget(r) /\ req'[r] = [req[r] EXCEPT !.at = "delete"])
  BY Handlers DEF ReadTarget, Removing
<1>5. ASSUME Mark(r), req'[r] = [req[r] EXCEPT !.at = "grant"], IsPending(req[r].app),
             req[r].verdict = "approved", app' = [app EXCEPT ![req[r].app].status = req[r].verdict]
      PROVE  /\ req'[r].app = req[r].app /\ req[r].app \in Request
             /\ app'[req[r].app].status = "approved" /\ req[r].at = "mark"
             /\ \A s \in Request : s # r => req'[s] = req[s]
  <2>1. req[r] \in Reviewing
    BY <1>5, Handlers DEF Mark
  <2>2. req'[r].app = req[r].app /\ req[r].app \in Request
    BY <1>5, <2>1 DEF Reviewing
  <2>3. app[req[r].app] \in Application
    BY <1>5, <2>2, Rows DEF IsPending
  <2>4. app'[req[r].app].status = "approved"
    BY <1>5, <2>2, <2>3 DEF Application, TypeOK
  <2>5. QED
    BY <1>5, <2>2, <2>4 DEF Mark, MoveOn, Finish, TypeOK
<1>6. QED
  BY <1>1, <1>2, <1>3, <1>4, <1>5, Moves

\* Only the handler whose UPDATE found the application pending grants.
LEMMA GrantOnceStep ==
  ASSUME TypeOK, Fresh, GrantOnce, [Next]_vars
  PROVE  GrantOnce'
<1>1. ASSUME NEW r \in Request, req'[r].at = "grant"
      PROVE  app'[req'[r].app].status = "approved"
  <2>1. CASE req'[r] = req[r]
    <3>1. req[r].app \in Request /\ app[req[r].app].status = "approved"
      BY <1>1, <2>1, Handlers DEF GrantOnce, Reviewing
    <3>2. QED
      BY <2>1, <3>1, Decided DEF Decision
  <2>2. QED
    BY <1>1, <2>1, Granting
<1>2. ASSUME NEW r \in Request, NEW s \in Request, r # s, req'[r].at = "grant", req'[s].at = "grant",
             req'[r].app = req'[s].app
      PROVE  FALSE
  <2>1. ASSUME NEW x \in Request, NEW y \in Request, x # y, req'[x].at = "grant",
               req'[y].at = "grant", req'[x].app = req'[y].app, req'[x] # req[x]
        PROVE  FALSE
    <3>1. IsPending(req[x].app) /\ req'[x].app = req[x].app /\ req'[y] = req[y]
      BY <2>1, Granting
    <3>2. app[req[y].app].status = "approved"
      BY <2>1, <3>1 DEF GrantOnce
    <3>3. QED
      BY <2>1, <3>1, <3>2 DEF IsPending
  <2>2. req'[r] = req[r] /\ req'[s] = req[s]
    BY <1>2, <2>1
  <2>3. QED
    BY <1>2, <2>2 DEF GrantOnce
<1>3. QED
  BY <1>1, <1>2 DEF GrantOnce

\* Whoever is resolved to a role has had it.
LEMMA RolesHeldStep ==
  ASSUME TypeOK, GrantOnce, RolesHeld, [Next]_vars
  PROVE  RolesHeld'
<1>1. ASSUME NEW v \in User, NEW w \in DbRole, NEW by \in User, AddUser(v, w, by), admins' = admins
      PROVE  RolesHeld'
  BY <1>1 DEF AddUser, RolesHeld, TypeOK, NoRow
<1>2. ASSUME NEW r \in Request, Grant(r) PROVE RolesHeld'
  <2>1. req[r] \in Reviewing
    BY <1>2, Handlers DEF Grant
  <2>2. app[req[r].app] \in Application
    BY <1>2, <2>1, Rows DEF Grant, GrantOnce, Reviewing
  <2>3. QED
    BY <1>1, <1>2, <2>1, <2>2 DEF Grant, Application, Reviewing
<1>3. ASSUME NEW r \in Request, Put(r) PROVE RolesHeld'
  <2>1. req[r] \in Adding
    BY <1>3, Handlers DEF Put
  <2>2. QED
    BY <1>1, <1>3, <2>1 DEF Put, Adding
<1>4. ASSUME NEW r \in Request, DeleteUser(r) PROVE RolesHeld'
  BY <1>4 DEF DeleteUser, RolesHeld, TypeOK, NoRow
<1>5. ASSUME NEW list \in AdminLists, Reload(list) PROVE RolesHeld'
  BY <1>5 DEF Reload, RolesHeld, TypeOK
<1>6. ASSUME NEW r \in Request,
             Arrive(r) \/ CheckPending(r) \/ Insert(r) \/ ReadApplication(r) \/ Mark(r)
               \/ ReadTarget(r) \/ StatementFails(r)
      PROVE  RolesHeld'
  BY <1>6 DEF Arrive, Apply, Review, Add, Remove, Start, CheckPending, Insert, ReadApplication,
              Mark, ReadTarget, StatementFails, RolesHeld
<1>7. CASE Crash \/ UNCHANGED vars
  BY <1>7 DEF Crash, vars, RolesHeld
<1>8. QED
  BY <1>2, <1>3, <1>4, <1>5, <1>6, <1>7 DEF Next, Step

\* Who applied and what for is never rewritten.
LEMMA Kept ==
  ASSUME TypeOK, Fresh, [Next]_vars, NEW i \in Request, app[i].status # "none"
  PROVE  /\ app'[i].status # "none"
         /\ app'[i].who = app[i].who /\ app'[i].want = app[i].want
<1>1. ~Insert(i)
  BY DEF Insert, Fresh
<1>2. ASSUME NEW r \in Request, Mark(r), req[r].app = i,
             app' = [app EXCEPT ![i].status = req[r].verdict]
      PROVE  /\ app'[i].status # "none"
             /\ app'[i].who = app[i].who /\ app'[i].want = app[i].want
  <2>1. app[i] \in Application /\ req[r].verdict \in Decision
    BY <1>2, Rows, Handlers DEF Mark, Reviewing
  <2>2. QED
    BY <1>2, <2>1 DEF Application, Decision, TypeOK
<1>3. QED
  BY <1>1, <1>2, Applications

\* A right that was there when the handler asked was held.
LEMMA EntitledStep ==
  ASSUME TypeOK, Fresh, GrantOnce, RolesHeld, Entitled, [Next]_vars
  PROVE  Entitled'
<1> DEFINE Right(x) ==
      /\ x.at \in {"read", "mark", "grant"} => x.seen \in held'[x.who]
      /\ x.at \in {"mark", "grant"} =>
           app'[x.app].status # "none" /\ CanReview(x.seen, app'[x.app].want)
      /\ x.at = "put" => \E h \in held'[x.who] : CanAdd(h, x.want)
<1> SUFFICES ASSUME NEW r \in Request PROVE Right(req'[r])
  BY DEF Entitled
<1>1. CASE req'[r] = req[r]
  <2>1. ASSUME req[r].at \in {"read", "mark", "grant"} PROVE req[r].seen \in held'[req[r].who]
    BY <2>1, Handlers, HeldGrows DEF Entitled, Reviewing
  <2>2. ASSUME req[r].at \in {"mark", "grant"}
        PROVE  app'[req[r].app].status # "none" /\ CanReview(req[r].seen, app'[req[r].app].want)
    BY <2>2, Handlers, Kept DEF Entitled, Reviewing
  <2>3. ASSUME req[r].at = "put" PROVE \E h \in held'[req[r].who] : CanAdd(h, req[r].want)
    BY <2>3, Handlers, HeldGrows DEF Entitled, Adding
  <2>4. QED
    BY <1>1, <2>1, <2>2, <2>3
<1>2. CASE req'[r] = Done
  BY <1>2 DEF Done
<1>3. CASE Arrive(r)
  <2>1. \A u \in User : Authorized(u) => GetRole(u) \in held[u]
    BY Rows DEF Authorized, GetRole, RolesHeld, TypeOK, NoRow
  <2>2. \A u \in User : \A w : CanAdd(GetRole(u), w) => Authorized(u)
    BY DEF CanAdd, Authorized
  <2>3. CASE req'[r].at \in {"check", "target"}
    BY <2>3
  <2>4. CASE req'[r].at = "read"
    BY <1>3, <2>1, <2>4, Arrivals
  <2>5. CASE req'[r].at = "put"
    BY <1>3, <2>1, <2>2, <2>5, Arrivals
  <2>6. QED
    BY <1>3, <2>3, <2>4, <2>5, Arrivals
<1>4. CASE CheckPending(r) /\ req'[r] = [req[r] EXCEPT !.at = "insert"]
  BY <1>4, Handlers DEF CheckPending, Applying
<1>5. CASE /\ ReadApplication(r) /\ req'[r] = [req[r] EXCEPT !.at = "mark"]
           /\ IsPending(req[r].app) /\ CanReview(req[r].seen, app[req[r].app].want)
  <2>1. req[r] \in Reviewing
    BY <1>5, Handlers DEF ReadApplication
  <2>2. req'[r].seen = req[r].seen /\ req'[r].who = req[r].who /\ req'[r].app = req[r].app
        /\ req'[r].at = "mark"
    BY <1>5, <2>1 DEF Reviewing
  <2>3. req[r].seen \in held[req[r].who]
    BY <1>5 DEF ReadApplication, Entitled
  <2>4. QED
    BY <1>5, <2>2, <2>3 DEF ReadApplication, IsPending
<1>6. CASE /\ Mark(r) /\ req'[r] = [req[r] EXCEPT !.at = "grant"]
           /\ IsPending(req[r].app)
  <2>1. req[r] \in Reviewing
    BY <1>6, Handlers DEF Mark
  <2>2. req'[r].seen = req[r].seen /\ req'[r].who = req[r].who /\ req'[r].app = req[r].app
        /\ req'[r].at = "grant"
    BY <1>6, <2>1 DEF Reviewing
  <2>3. req[r].seen \in held[req[r].who] /\ CanReview(req[r].seen, app[req[r].app].want)
    BY <1>6 DEF Mark, Entitled
  <2>4. app'[req[r].app].status # "none" /\ app'[req[r].app].want = app[req[r].app].want
    BY <1>6, <2>1, Kept DEF IsPending, Reviewing
  <2>5. QED
    BY <1>6, <2>2, <2>3, <2>4 DEF Mark
<1>7. CASE ReadTarget(r) /\ req'[r] = [req[r] EXCEPT !.at = "delete"]
  BY <1>7, Handlers DEF ReadTarget, Removing
<1>8. QED
  <2> HIDE DEF Right
  <2>1. QED
    BY <1>1, <1>2, <1>3, <1>4, <1>5, <1>6, <1>7, Moves

\* Each row is written on the word of somebody who had the right.
LEMMA DelegatedStep ==
  ASSUME TypeOK, GrantOnce, Entitled, Delegated, [Next]_vars
  PROVE  Delegated'
<1>1. ASSUME NEW v \in User, NEW w \in DbRole, NEW by \in User, AddUser(v, w, by),
             \E h \in held[by] : CanAdd(h, w)
      PROVE  Delegated'
  <2> SUFFICES ASSUME NEW u \in User, users'[u] # NoRow
               PROVE  \E h \in held'[users'[u].by] : CanAdd(h, users'[u].role)
    BY DEF Delegated
  <2>1. CASE u = v
    BY <1>1, <2>1, HeldGrows DEF AddUser, TypeOK
  <2>2. CASE u # v
    <3>1. users'[u] = users[u] /\ users[u].by \in User
      BY <1>1, <2>2, Rows DEF AddUser, TypeOK, Row
    <3>2. QED
      BY <3>1, HeldGrows DEF Delegated
  <2>3. QED
    BY <2>1, <2>2
<1>2. ASSUME NEW r \in Request, Grant(r) PROVE Delegated'
  <2>1. req[r] \in Reviewing
    BY <1>2, Handlers DEF Grant
  <2>2. app[req[r].app] \in Application
    BY <1>2, <2>1, Rows DEF Grant, GrantOnce, Reviewing
  <2>3. req[r].seen \in held[req[r].who] /\ CanReview(req[r].seen, app[req[r].app].want)
    BY <1>2 DEF Grant, Entitled
  <2>4. CanAdd(req[r].seen, app[req[r].app].want)
    BY <2>2, <2>3 DEF CanReview, CanAdd, Application
  <2>5. QED
    BY <1>1, <1>2, <2>1, <2>2, <2>3, <2>4 DEF Grant, Application, Reviewing
<1>3. ASSUME NEW r \in Request, Put(r) PROVE Delegated'
  <2>1. req[r] \in Adding
    BY <1>3, Handlers DEF Put
  <2>2. \E h \in held[req[r].who] : CanAdd(h, req[r].want)
    BY <1>3 DEF Put, Entitled
  <2>3. QED
    BY <1>1, <1>3, <2>1, <2>2 DEF Put, Adding
<1>4. ASSUME \A u \in User : users'[u] = users[u] \/ users'[u] = NoRow PROVE Delegated'
  <2> SUFFICES ASSUME NEW u \in User, users'[u] # NoRow
               PROVE  \E h \in held'[users'[u].by] : CanAdd(h, users'[u].role)
    BY DEF Delegated
  <2>1. users'[u] = users[u] /\ users[u].by \in User
    BY <1>4, Rows DEF Row
  <2>2. QED
    BY <2>1, HeldGrows DEF Delegated
<1>5. ASSUME NEW r \in Request, DeleteUser(r) PROVE Delegated'
  BY <1>4, <1>5 DEF DeleteUser, TypeOK
<1>6. ASSUME NEW r \in Request,
             Arrive(r) \/ CheckPending(r) \/ Insert(r) \/ ReadApplication(r) \/ Mark(r)
               \/ ReadTarget(r) \/ StatementFails(r)
      PROVE  users' = users
  BY <1>6 DEF Arrive, Apply, Review, Add, Remove, Start, CheckPending, Insert, ReadApplication,
              Mark, ReadTarget, StatementFails
<1>7. CASE (\E list \in AdminLists : Reload(list)) \/ Crash \/ UNCHANGED vars
  BY <1>4, <1>7 DEF Reload, Crash, vars
<1>8. QED
  BY <1>2, <1>3, <1>4, <1>5, <1>6, <1>7 DEF Next, Step

\* A handler leaves the await before its second write by the write, because it
\* fails, or by a crash.
LEMMA GrantEnds ==
  ASSUME TypeOK, GrantOnce, [Next]_vars, NEW r \in Request, req[r].at = "grant"
  PROVE  \/ req'[r] = req[r]
         \/ app[req[r].app].want \in held'[app[req[r].app].who]
         \/ req[r].app \in half'
<1>1. CASE Grant(r)
  <2>1. app[req[r].app] \in Application
    BY <1>1, Handlers, Rows DEF Grant, GrantOnce, Reviewing
  <2>2. QED
    BY <1>1, <2>1 DEF Grant, AddUser, Application, TypeOK
<1>2. ASSUME NEW s \in Request, s # r, Arrive(s) \/ Step(s) PROVE req'[r] = req[r]
  BY <1>2 DEF TypeOK, Arrive, Apply, Review, Add, Remove, Start, Step, CheckPending, Insert,
              ReadApplication, Mark, Grant, Put, ReadTarget, DeleteUser, StatementFails,
              Finish, MoveOn
<1>3. ~Arrive(r)
  BY DEF Arrive, Apply, Review, Add, Remove, Start, New
<1>4. Step(r) => Grant(r) \/ StatementFails(r)
  BY DEF Step, CheckPending, Insert, ReadApplication, Mark, Put, ReadTarget, DeleteUser
<1>5. CASE Crash \/ StatementFails(r)
  BY <1>5 DEF Crash, StatementFails
<1>6. CASE (\E list \in AdminLists : Reload(list)) \/ UNCHANGED vars
  BY <1>6 DEF Reload, vars
<1>7. QED
  BY <1>1, <1>2, <1>3, <1>4, <1>5, <1>6 DEF Next

\* The two writes of approve are both done, or one is still to come, or a crash
\* or a failure came between them.
LEMMA ApprovalStep ==
  ASSUME TypeOK, Fresh, GrantOnce, ApprovalTakesEffect, [Next]_vars
  PROVE  ApprovalTakesEffect'
<1> SUFFICES ASSUME NEW i \in Request, app'[i].status = "approved"
             PROVE  \/ app'[i].want \in held'[app'[i].who]
                    \/ \E r \in Request : req'[r].at = "grant" /\ req'[r].app = i
                    \/ i \in half'
  BY DEF ApprovalTakesEffect
<1>1. half \subseteq half'
  BY DEF Next, Arrive, Apply, Review, Add, Remove, Start, Step, CheckPending, Insert,
         ReadApplication, Mark, Grant, Put, ReadTarget, DeleteUser, StatementFails, Reload, Crash,
         vars
<1>2. CASE app[i].status = "approved"
  <2>1. app'[i] = app[i]
    BY <1>2, Decided DEF Decision
  <2>2. CASE app[i].want \in held[app[i].who]
    <3>1. app[i].who \in User
      BY <1>2, Rows DEF Application
    <3>2. QED
      BY <2>1, <2>2, <3>1, HeldGrows
  <2>3. CASE \E r \in Request : req[r].at = "grant" /\ req[r].app = i
    BY <2>1, <2>3, GrantEnds
  <2>4. CASE i \in half
    BY <1>1, <2>4
  <2>5. QED
    BY <1>2, <2>2, <2>3, <2>4 DEF ApprovalTakesEffect
<1>3. CASE app[i].status # "approved"
  <2>1. ~(app'[i] = app[i])
    BY <1>3
  <2>2. ASSUME Insert(i), app' = [app EXCEPT ![i] = [status |-> "pending", who |-> req[i].who,
                                                     want |-> req[i].want]]
        PROVE  FALSE
    BY <2>2 DEF TypeOK
  <2>3. ASSUME NEW r \in Request, Mark(r), req[r].app = i, IsPending(i),
               app' = [app EXCEPT ![i].status = req[r].verdict]
        PROVE  req'[r].at = "grant" /\ req'[r].app = i
    <3>1. req[r] \in Reviewing /\ app[i] \in Application
      BY <2>3, Handlers, Rows DEF Mark, IsPending
    <3>2. req[r].verdict = "approved"
      BY <2>3, <3>1 DEF Application, TypeOK
    <3>3. QED
      BY <2>3, <3>1, <3>2 DEF Mark, MoveOn, Reviewing, TypeOK
  <2>4. QED
    BY <2>1, <2>2, <2>3, Applications
<1>4. QED
  BY <1>2, <1>3

-----------------------------------------------------------------------------
\* IInv holds at the start.
LEMMA InitIInv == Init => IInv
<1> SUFFICES ASSUME Init PROVE IInv
  OBVIOUS
<1>1. TypeOK
  BY TypeInit
<1>2. Fresh /\ OnePending /\ GrantOnce /\ ApprovalTakesEffect /\ Entitled
  BY DEF Init, Fresh, OnePending, IsPending, GrantOnce, ApprovalTakesEffect, Entitled, New,
         NoApplication
<1>3. Delegated /\ RolesHeld
  BY DEF Init, Delegated, RolesHeld
<1>4. QED
  BY <1>1, <1>2, <1>3 DEF IInv

\* Every step keeps IInv.
LEMMA StepIInv == IInv /\ [Next]_vars => IInv'
  BY TypeStep, FreshStep, OnePendingStep, DelegatedStep, GrantOnceStep, ApprovalStep, RolesHeldStep,
     EntitledStep
  DEF IInv

\* The inductive invariant: the parts of IInv hold together in every
\* reachable state, for any people, requests and admin lists.
THEOREM Inductive == Spec => []IInv
  BY InitIInv, StepIInv, PTL DEF Spec

\* Every variable keeps its type (the tables of acl/db.py, the locals of the
\* handlers of dispatcher.py and commands.py).
THEOREM TypeCorrect == Spec => []TypeOK
<1>1. IInv => TypeOK
  BY DEF IInv
<1>2. QED
  BY <1>1, Inductive, PTL

\* Nobody has two applications pending (AclDb.create_application).
THEOREM NoSecondPending == Spec => []OnePending
<1>1. IInv => OnePending
  BY DEF IInv
<1>2. QED
  BY <1>1, Inductive, PTL

\* Every row of acl_users was written on the word of a person who had the
\* right at some time (AclManager.can_add, can_review).
THEOREM RightsAreDelegated == Spec => []Delegated
<1>1. IInv => Delegated
  BY DEF IInv
<1>2. QED
  BY <1>1, Inductive, PTL

\* At most one handler carries an approval out (AclManager.approve).
THEOREM OneGrant == Spec => []GrantOnce
<1>1. IInv => GrantOnce
  BY DEF IInv
<1>2. QED
  BY <1>1, Inductive, PTL

\* An approved application gave its role, or will, or a crash or a failing
\* add_user cut it off
\* (AclManager.approve).
THEOREM ApprovalCarriedOut == Spec => []ApprovalTakesEffect
<1>1. IInv => ApprovalTakesEffect
  BY DEF IInv
<1>2. QED
  BY <1>1, Inductive, PTL

\* Decisions are never changed (AclDb.update_application_status).
THEOREM DecisionsStand == Spec => DecidedOnce
<1>1. IInv /\ [Next]_vars => [\A i \in Request : app[i].status \in Decision => app'[i] = app[i]]_vars
  BY Decided DEF IInv
<1>2. QED
  BY <1>1, Inductive, PTL DEF Spec, DecidedOnce

-----------------------------------------------------------------------------
(* Acl implements AccessService: the handlers that are past their checks   *)
(* are the orders.                                                         *)

OrdersGiven == [r \in Request |-> Asked(req[r])]

\* /acl remove waits for the row with a role that its actor has had.
Removers ==
  \A r \in Request : req[r].at = "target" => req[r].seen \in held[req[r].who]

LEMMA RemoversStep ==
  ASSUME TypeOK, RolesHeld, Removers, [Next]_vars
  PROVE  Removers'
<1> SUFFICES ASSUME NEW r \in Request, req'[r].at = "target"
             PROVE  req'[r].seen \in held'[req'[r].who]
  BY DEF Removers
<1>1. req'[r] # Done
  BY DEF Done
<1>2. CASE req'[r] = req[r]
  BY <1>2, Handlers, HeldGrows DEF Removers, Removing
<1>3. CASE Arrive(r)
  <2>1. PICK u \in User, v \in User : Remove(r, u, v)
    BY <1>3 DEF TypeOK, Arrive, Apply, Review, Add, Start
  <2>2. /\ req'[r].seen = GetRole(u) /\ req'[r].who = u /\ held' = held
        /\ Authorized(u)
    BY <2>1 DEF Remove, Start, TypeOK
  <2>3. GetRole(u) \in held[u]
    BY <2>2, Rows DEF Authorized, GetRole, RolesHeld, TypeOK, NoRow
  <2> QED BY <2>2, <2>3
<1>4. ~(CheckPending(r) /\ req'[r] = [req[r] EXCEPT !.at = "insert"])
  BY Handlers DEF CheckPending, Applying
<1>5. ~(ReadApplication(r) /\ req'[r] = [req[r] EXCEPT !.at = "mark"])
  BY Handlers DEF ReadApplication, Reviewing
<1>6. ~(Mark(r) /\ req'[r] = [req[r] EXCEPT !.at = "grant"])
  BY Handlers DEF Mark, Reviewing
<1>7. ~(ReadTarget(r) /\ req'[r] = [req[r] EXCEPT !.at = "delete"])
  BY Handlers DEF ReadTarget, Removing
<1> QED BY <1>1, <1>2, <1>3, <1>4, <1>5, <1>6, <1>7, Moves

LEMMA RemoversAlways == Spec => []Removers
<1>1. Init => Removers
  BY DEF Init, Removers, New
<1>2. IInv /\ Removers /\ [Next]_vars => Removers'
  BY RemoversStep DEF IInv
<1> QED BY <1>1, <1>2, Inductive, PTL DEF Spec

\* What a handler has ordered, by its await.
LEMMA NothingOrdered ==
  ASSUME NEW h, h.at \notin {"mark", "grant", "put", "delete"}
  PROVE  Asked(h) = <<>>
  BY Zenon DEF Asked

LEMMA DecisionOrdered ==
  ASSUME NEW h, NEW by, NEW i, NEW d, h.at = "mark", h.who = by, h.app = i, h.verdict = d
  PROVE  Asked(h) = <<by, "decide", i, d>>
  BY Zenon DEF Asked

LEMMA GrantOrdered ==
  ASSUME NEW h, NEW by, NEW i, NEW d, h.at = "grant", h.who = by, h.app = i, h.verdict = d
  PROVE  Asked(h) = <<by, "grant", i, d>>
  BY Zenon DEF Asked

LEMMA AdditionOrdered ==
  ASSUME NEW h, NEW by, NEW v, NEW w, h.at = "put", h.who = by, h.on = v, h.want = w
  PROVE  Asked(h) = <<by, "add", v, w>>
  BY Zenon DEF Asked

LEMMA RemovalOrdered ==
  ASSUME NEW h, NEW by, NEW v, h.at = "delete", h.who = by, h.on = v
  PROVE  Asked(h) = <<by, "remove", v, "row">>
  BY Zenon DEF Asked

LEMMA DoneOrders == Asked(Done) = <<>>
  BY NothingOrdered DEF Done

\* One handler moves on.
LEMMA OneOrder ==
  ASSUME TypeOK, NEW r \in Request, NEW x, req' = [req EXCEPT ![r] = x]
  PROVE  /\ OrdersGiven' = [OrdersGiven EXCEPT ![r] = Asked(x)]
         /\ OrdersGiven[r] = Asked(req[r])
<1>1. \A s \in Request : req'[s] = IF s = r THEN x ELSE req[s]
  BY DEF TypeOK
<1>2. \A s \in Request : Asked(req'[s]) = IF s = r THEN Asked(x) ELSE Asked(req[s])
  BY <1>1
<1>3. OrdersGiven' = [s \in Request |-> IF s = r THEN Asked(x) ELSE Asked(req[s])]
  BY <1>2 DEF OrdersGiven
<1> QED BY <1>3 DEF OrdersGiven

LEMMA NoNewOrder ==
  ASSUME TypeOK, NEW r \in Request, NEW x, req' = [req EXCEPT ![r] = x],
         Asked(x) = Asked(req[r])
  PROVE  OrdersGiven' = OrdersGiven
<1>1. OrdersGiven' = [OrdersGiven EXCEPT ![r] = Asked(x)] /\ OrdersGiven[r] = Asked(x)
  BY OneOrder
<1> QED BY <1>1 DEF OrdersGiven

\* A handler ends.
LEMMA OrderDone ==
  ASSUME TypeOK, NEW r \in Request, Finish(r)
  PROVE  /\ OrdersGiven' = [OrdersGiven EXCEPT ![r] = <<>>]
         /\ OrdersGiven[r] = Asked(req[r])
<1> QED BY DoneOrders, OneOrder DEF Finish

\* The rights of the two modules are the same.
LEMMA Rights ==
  ASSUME NEW h, NEW w \in DbRole
  PROVE  /\ CanReview(h, w) <=> w \in Access!Over(h)
         /\ CanAdd(h, w) <=> w \in Access!Over(h)
         /\ CanRemove(h, w) <=> w \in Access!Over(h)
  BY DEF CanReview, CanAdd, CanRemove, Access!Over, DbRole

\* Steps that nobody sees.
LEMMA NobodySees ==
  ASSUME OrdersGiven' = OrdersGiven, UNCHANGED <<admins, users, app, held>>
  PROVE  UNCHANGED Access!vars
  BY DEF Access!vars, OrdersGiven

LEMMA ArriveMaps ==
  ASSUME TypeOK, NEW r \in Request, Arrive(r)
  PROVE  Access!Command(r) \/ UNCHANGED Access!vars
<1>1. UNCHANGED <<admins, users, app, held>> /\ req[r] = New
  BY DEF Arrive, Apply, Review, Add, Remove, Start
<1>2. Asked(req[r]) = <<>>
  BY <1>1, NothingOrdered DEF New
<1>3. ASSUME NEW x, req' = [req EXCEPT ![r] = x],
             x.at \notin {"mark", "grant", "put", "delete"}
      PROVE  UNCHANGED Access!vars
  <2>1. Asked(x) = Asked(req[r])
    BY <1>2, <1>3, NothingOrdered
  <2> QED BY <1>1, <1>3, <2>1, NoNewOrder, NobodySees
<1>4. ASSUME NEW u \in User, NEW w \in DbRole, Apply(r, u, w) PROVE UNCHANGED Access!vars
  BY <1>3, <1>4 DEF Apply, Start
<1>5. ASSUME NEW u \in User, NEW i \in Request, NEW d \in Decision, Review(r, u, i, d)
      PROVE  UNCHANGED Access!vars
  BY <1>3, <1>5 DEF Review, Start
<1>6. ASSUME NEW u \in User, NEW v \in User, Remove(r, u, v) PROVE UNCHANGED Access!vars
  BY <1>3, <1>6 DEF Remove, Start
<1>7. ASSUME NEW u \in User, NEW v \in User, NEW w \in DbRole, Add(r, u, v, w)
      PROVE  Access!Command(r)
  <2> DEFINE x == [at |-> "put", who |-> u, on |-> v, want |-> w]
  <2>1. req' = [req EXCEPT ![r] = x] /\ CanAdd(GetRole(u), w)
    BY <1>7 DEF Add, Start
  <2>2. Asked(x) = <<u, "add", v, w>>
    BY AdditionOrdered
  <2> HIDE DEF x
  <2>3. /\ OrdersGiven' = [OrdersGiven EXCEPT ![r] = <<u, "add", v, w>>]
        /\ OrdersGiven[r] = <<>>
    <3>1. /\ OrdersGiven' = [OrdersGiven EXCEPT ![r] = Asked(x)]
          /\ OrdersGiven[r] = Asked(req[r])
      BY <1>2, <2>1, <2>2, OneOrder
    <3> QED BY <3>1, <1>2, <2>1, <2>2
  <2>4. Access!Mighty(u, w)
    BY <2>1, Rights DEF GetRole, Access!Mighty
  <2>5. Access!OrderAddition(r, u, v, w)
    BY <1>1, <2>3, <2>4 DEF Access!OrderAddition, Access!Order, Access!NoOrder, OrdersGiven
  <2> QED BY <2>5 DEF Access!Command, DbRole
<1> QED BY <1>4, <1>5, <1>6, <1>7 DEF Arrive

LEMMA CheckMaps ==
  ASSUME TypeOK, NEW r \in Request, CheckPending(r)
  PROVE  UNCHANGED Access!vars
<1>1. req[r] \in Applying /\ Asked(req[r]) = <<>>
  BY Handlers, NothingOrdered DEF CheckPending
<1>2. CASE Finish(r)
  <2>1. Asked(Done) = <<>>
    BY DoneOrders
  <2> QED BY <1>1, <1>2, <2>1, NoNewOrder, NobodySees DEF Finish, CheckPending
<1>3. CASE MoveOn(r, "insert")
  <2> DEFINE x == [req[r] EXCEPT !.at = "insert"]
  <2>1. x.at = "insert"
    BY <1>1 DEF Applying
  <2>2. Asked(x) = <<>>
    BY <2>1, NothingOrdered
  <2>3. req' = [req EXCEPT ![r] = x]
    BY <1>3 DEF MoveOn
  <2> HIDE DEF x
  <2> QED BY <1>1, <2>2, <2>3, NoNewOrder, NobodySees DEF CheckPending
<1> QED BY <1>2, <1>3 DEF CheckPending

LEMMA InsertMaps ==
  ASSUME TypeOK, Fresh, NEW r \in Request, Insert(r)
  PROVE  Access!Next \/ UNCHANGED Access!vars
<1>1. /\ req[r] \in Applying /\ Asked(req[r]) = <<>>
      /\ app[r].status = "none"
  BY Handlers, NothingOrdered DEF Insert, Fresh
<1>2. OrdersGiven' = OrdersGiven
  <2>1. Asked(Done) = <<>>
    BY DoneOrders
  <2> QED BY <1>1, <2>1, NoNewOrder DEF Finish, Insert
<1>3. CASE HasPending(req[r].who)
  BY <1>2, <1>3, NobodySees DEF Insert
<1>4. CASE ~HasPending(req[r].who)
  <2>1. app[r] = NoApplication
    BY <1>1 DEF TypeOK, Application, Decision
  <2>2. /\ app' = [app EXCEPT ![r] = [status |-> "pending", who |-> req[r].who,
                                      want |-> req[r].want]]
        /\ UNCHANGED <<admins, users, held>>
    BY <1>4 DEF Insert
  <2>3. \A j \in Request : app[j].status = "pending" => app[j].who # req[r].who
    BY <1>4 DEF HasPending, IsPending
  <2>4. Access!File(r, req[r].who, req[r].want)
    BY <1>2, <2>1, <2>2, <2>3
    DEF Access!File, Access!NoApplication, NoApplication, OrdersGiven
  <2>5. req[r].who \in User /\ req[r].want \in {"owner", "collaborator"}
    BY <1>1 DEF Applying, DbRole
  <2> QED BY <2>4, <2>5 DEF Access!Next
<1> QED BY <1>3, <1>4

LEMMA ReadMaps ==
  ASSUME TypeOK, Entitled, NEW r \in Request, ReadApplication(r)
  PROVE  Access!Decision(r) \/ UNCHANGED Access!vars
<1> DEFINE i == req[r].app
           by == req[r].who
           d == req[r].verdict
<1>1. /\ req[r] \in Reviewing /\ Asked(req[r]) = <<>>
      /\ req[r].seen \in held[by]
      /\ i \in Request /\ by \in User /\ d \in Decision
  BY Handlers, NothingOrdered DEF ReadApplication, Entitled, Reviewing
<1>2. UNCHANGED <<admins, users, app, held>>
  BY DEF ReadApplication
<1>3. CASE ~(IsPending(i) /\ CanReview(req[r].seen, app[i].want))
  <2>1. Asked(Done) = <<>>
    BY DoneOrders
  <2>2. Finish(r)
    BY <1>3 DEF ReadApplication
  <2> QED BY <1>1, <1>2, <2>1, <2>2, NoNewOrder, NobodySees DEF Finish
<1>4. CASE IsPending(i) /\ CanReview(req[r].seen, app[i].want)
  <2> DEFINE x == [req[r] EXCEPT !.at = "mark"]
  <2>1. x.at = "mark" /\ x.who = by /\ x.app = i /\ x.verdict = d
    BY <1>1 DEF Reviewing
  <2>2. req' = [req EXCEPT ![r] = x]
    BY <1>4 DEF ReadApplication, MoveOn
  <2> HIDE DEF x
  <2>3. Asked(x) = <<by, "decide", i, d>>
    BY <2>1, DecisionOrdered
  <2>4. /\ OrdersGiven' = [OrdersGiven EXCEPT ![r] = <<by, "decide", i, d>>]
        /\ OrdersGiven[r] = <<>>
    <3>1. /\ OrdersGiven' = [OrdersGiven EXCEPT ![r] = Asked(x)]
          /\ OrdersGiven[r] = Asked(req[r])
      BY <1>1, <2>2, <2>3, OneOrder
    <3> QED BY <3>1, <1>1, <2>2, <2>3
  <2>5. app[i].want \in DbRole
    BY <1>1, <1>4, Rows DEF IsPending, Application
  <2>6. Access!OnceMighty(by, app[i].want)
    BY <1>1, <1>4, <2>5, Rights DEF Access!OnceMighty
  <2> HIDE DEF i, by, d
  <2>7. Access!OrderDecision(r, by, i, d)
    BY <1>2, <1>4, <2>4, <2>6
    DEF Access!OrderDecision, Access!Order, Access!NoOrder, OrdersGiven, IsPending
  <2> QED BY <1>1, <2>7 DEF Access!Decision, Decision
<1> QED BY <1>3, <1>4

LEMMA MarkMaps ==
  ASSUME TypeOK, NEW r \in Request, Mark(r)
  PROVE  Access!Decision(r)
<1> DEFINE i == req[r].app
           by == req[r].who
           d == req[r].verdict
<1>1. /\ req[r] \in Reviewing /\ Asked(req[r]) = <<by, "decide", i, d>>
      /\ i \in Request /\ by \in User /\ d \in Decision
  BY Handlers, DecisionOrdered DEF Mark, Reviewing
<1>2. UNCHANGED <<admins, users, held>>
  BY DEF Mark
<1>3. CASE ~IsPending(i)
  <2>1. Finish(r) /\ app' = app
    BY <1>3 DEF Mark
  <2>2. /\ OrdersGiven' = [OrdersGiven EXCEPT ![r] = <<>>]
        /\ OrdersGiven[r] = <<by, "decide", i, d>>
    BY <1>1, <2>1, OrderDone
  <2> HIDE DEF i, by, d
  <2>3. Access!TooLate(r, by, i, d)
    BY <1>2, <1>3, <2>1, <2>2
    DEF Access!TooLate, Access!Execute, Access!NoOrder, OrdersGiven, IsPending
  <2> QED BY <1>1, <2>3 DEF Access!Decision, Decision
<1>4. CASE IsPending(i) /\ d = "rejected"
  <2>1. Finish(r) /\ app' = [app EXCEPT ![i].status = "rejected"]
    BY <1>4 DEF Mark
  <2>2. /\ OrdersGiven' = [OrdersGiven EXCEPT ![r] = <<>>]
        /\ OrdersGiven[r] = <<by, "decide", i, "rejected">>
    BY <1>1, <1>4, <2>1, OrderDone
  <2> HIDE DEF i, by, d
  <2>3. Access!Reject(r, by, i)
    BY <1>2, <1>4, <2>1, <2>2
    DEF Access!Reject, Access!Execute, Access!NoOrder, OrdersGiven, IsPending
  <2> QED BY <1>1, <2>3 DEF Access!Decision
<1>5. CASE IsPending(i) /\ d = "approved"
  <2> DEFINE x == [req[r] EXCEPT !.at = "grant"]
  <2>1. x.at = "grant" /\ x.who = by /\ x.app = i /\ x.verdict = d
    BY <1>1 DEF Reviewing
  <2>2. req' = [req EXCEPT ![r] = x] /\ app' = [app EXCEPT ![i].status = "approved"]
    BY <1>5 DEF Mark, MoveOn
  <2> HIDE DEF x
  <2>3. Asked(x) = <<by, "grant", i, "approved">>
    BY <1>5, <2>1, GrantOrdered
  <2>4. /\ OrdersGiven' = [OrdersGiven EXCEPT ![r] = <<by, "grant", i, "approved">>]
        /\ OrdersGiven[r] = <<by, "decide", i, "approved">>
    <3>1. /\ OrdersGiven' = [OrdersGiven EXCEPT ![r] = Asked(x)]
          /\ OrdersGiven[r] = Asked(req[r])
      BY <1>1, <1>5, <2>2, <2>3, OneOrder
    <3> QED BY <3>1, <1>1, <1>5, <2>2, <2>3
  <2> HIDE DEF i, by, d
  <2>5. app[i].status = "pending" /\ app' = [app EXCEPT ![i].status = "approved"]
    BY <1>5, <2>2 DEF IsPending
  <2>6. Access!Approve(r, by, i)
    BY <1>2, <2>4, <2>5 DEF Access!Approve, OrdersGiven
  <2> QED BY <1>1, <2>6 DEF Access!Decision
<1> QED BY <1>1, <1>3, <1>4, <1>5 DEF Decision

LEMMA GrantMaps ==
  ASSUME TypeOK, NEW r \in Request, req[r].verdict = "approved", Grant(r)
  PROVE  Access!Decision(r)
<1> DEFINE i == req[r].app
           by == req[r].who
<1>1. /\ req[r] \in Reviewing /\ Asked(req[r]) = <<by, "grant", i, "approved">>
      /\ i \in Request /\ by \in User
  BY Handlers, GrantOrdered DEF Grant, Reviewing
<1>2. /\ OrdersGiven' = [OrdersGiven EXCEPT ![r] = <<>>]
      /\ OrdersGiven[r] = <<by, "grant", i, "approved">>
  BY <1>1, OrderDone DEF Grant
<1>3. AddUser(app[i].who, app[i].want, by) /\ UNCHANGED <<admins, app>>
  BY DEF Grant
<1> HIDE DEF i, by
<1>4. Access!CarryOut(r, by, i)
  BY <1>2, <1>3
  DEF Access!CarryOut, Access!Execute, Access!NoOrder, Access!Give, AddUser, OrdersGiven
<1> QED BY <1>1, <1>4 DEF Access!Decision

LEMMA PutMaps ==
  ASSUME TypeOK, NEW r \in Request, Put(r)
  PROVE  Access!Command(r)
<1> DEFINE by == req[r].who
           v == req[r].on
           w == req[r].want
<1>1. /\ req[r] \in Adding /\ Asked(req[r]) = <<by, "add", v, w>>
      /\ by \in User /\ v \in User /\ w \in {"owner", "collaborator"}
  BY Handlers, AdditionOrdered DEF Put, Adding, DbRole
<1>2. /\ OrdersGiven' = [OrdersGiven EXCEPT ![r] = <<>>]
      /\ OrdersGiven[r] = <<by, "add", v, w>>
  BY <1>1, OrderDone DEF Put
<1>3. AddUser(v, w, by) /\ UNCHANGED <<admins, app>>
  BY DEF Put
<1> HIDE DEF by, v, w
<1>4. Access!Add(r, by, v, w)
  BY <1>2, <1>3
  DEF Access!Add, Access!Execute, Access!NoOrder, Access!Give, AddUser, OrdersGiven
<1> QED BY <1>1, <1>4 DEF Access!Command

LEMMA TargetMaps ==
  ASSUME TypeOK, Removers, NEW r \in Request, ReadTarget(r)
  PROVE  Access!Command(r) \/ UNCHANGED Access!vars
<1> DEFINE by == req[r].who
           v == req[r].on
           ok == users[v] # NoRow /\ v \notin admins /\ CanRemove(req[r].seen, users[v].role)
<1>1. /\ req[r] \in Removing /\ Asked(req[r]) = <<>>
      /\ req[r].seen \in held[by]
      /\ by \in User /\ v \in User
  BY Handlers, NothingOrdered DEF ReadTarget, Removers, Removing
<1>2. UNCHANGED <<admins, users, app, held>>
  BY DEF ReadTarget
<1>3. CASE ~ok
  <2>1. Asked(Done) = <<>>
    BY DoneOrders
  <2>2. Finish(r)
    BY <1>3 DEF ReadTarget
  <2> QED BY <1>1, <1>2, <2>1, <2>2, NoNewOrder, NobodySees DEF Finish
<1>4. CASE ok
  <2> DEFINE x == [req[r] EXCEPT !.at = "delete"]
  <2>1. x.at = "delete" /\ x.who = by /\ x.on = v
    BY <1>1 DEF Removing
  <2>2. req' = [req EXCEPT ![r] = x]
    BY <1>4 DEF ReadTarget, MoveOn
  <2> HIDE DEF x
  <2>3. Asked(x) = <<by, "remove", v, "row">>
    BY <2>1, RemovalOrdered
  <2>4. /\ OrdersGiven' = [OrdersGiven EXCEPT ![r] = <<by, "remove", v, "row">>]
        /\ OrdersGiven[r] = <<>>
    <3>1. /\ OrdersGiven' = [OrdersGiven EXCEPT ![r] = Asked(x)]
          /\ OrdersGiven[r] = Asked(req[r])
      BY <1>1, <2>2, <2>3, OneOrder
    <3> QED BY <3>1, <1>1, <2>2, <2>3
  <2>5. users[v].role \in DbRole
    BY <1>1, <1>4, Rows
  <2>6. Access!OnceMighty(by, users[v].role)
    BY <1>1, <1>4, <2>5, Rights DEF Access!OnceMighty
  <2>7. v \notin admins
    BY <1>4
  <2> HIDE DEF by, v, ok
  <2>8. Access!OrderRemoval(r, by, v)
    BY <1>2, <2>4, <2>6, <2>7
    DEF Access!OrderRemoval, Access!Order, Access!NoOrder, OrdersGiven
  <2> QED BY <1>1, <2>8 DEF Access!Command
<1> QED BY <1>3, <1>4

LEMMA DeleteMaps ==
  ASSUME TypeOK, NEW r \in Request, DeleteUser(r)
  PROVE  Access!Command(r)
<1> DEFINE by == req[r].who
           v == req[r].on
<1>1. /\ req[r] \in Removing /\ Asked(req[r]) = <<by, "remove", v, "row">>
      /\ by \in User /\ v \in User
  BY Handlers, RemovalOrdered DEF DeleteUser, Removing
<1>2. /\ OrdersGiven' = [OrdersGiven EXCEPT ![r] = <<>>]
      /\ OrdersGiven[r] = <<by, "remove", v, "row">>
  BY <1>1, OrderDone DEF DeleteUser
<1>3. /\ users' = IF v \in admins THEN users ELSE [users EXCEPT ![v] = NoRow]
      /\ UNCHANGED <<admins, app, held>>
  BY DEF DeleteUser
<1> HIDE DEF by, v
<1>4. CASE v \in admins
  <2>1. Access!Spare(r, by, v)
    BY <1>2, <1>3, <1>4 DEF Access!Spare, Access!Execute, Access!NoOrder, OrdersGiven
  <2> QED BY <1>1, <2>1 DEF Access!Command
<1>5. CASE v \notin admins
  <2>1. Access!Remove(r, by, v)
    BY <1>2, <1>3, <1>5
    DEF Access!Remove, Access!Execute, Access!NoOrder, Access!NoRow, NoRow, OrdersGiven
  <2> QED BY <1>1, <2>1 DEF Access!Command
<1> QED BY <1>4, <1>5

LEMMA CrashMaps ==
  ASSUME TypeOK, Crash
  PROVE  Access!Crash
<1>1. \A r \in Request : req'[r] \in {New, Done}
  BY DEF Crash
<1>2. Asked(New) = <<>> /\ Asked(Done) = <<>>
  BY NothingOrdered, DoneOrders DEF New
<1>3. \A r \in Request : Asked(req'[r]) = <<>>
  BY <1>1, <1>2
<1>4. OrdersGiven' = [r \in Request |-> <<>>]
  BY <1>3 DEF OrdersGiven
<1> QED BY <1>4 DEF Crash, Access!Crash, Access!NoOrder, OrdersGiven

LEMMA FailureMaps ==
  ASSUME TypeOK, NEW r \in Request, StatementFails(r)
  PROVE  Access!Lapse(r) \/ UNCHANGED Access!vars
<1>1. /\ OrdersGiven' = [OrdersGiven EXCEPT ![r] = <<>>]
      /\ UNCHANGED <<admins, users, app, held>>
  BY OrderDone DEF StatementFails
<1>2. CASE OrdersGiven[r] = <<>>
  <2>1. OrdersGiven' = OrdersGiven
    BY <1>1, <1>2 DEF OrdersGiven
  <2> QED BY <1>1, <2>1, NobodySees
<1>3. CASE OrdersGiven[r] # <<>>
  BY <1>1, <1>3 DEF Access!Lapse, Access!NoOrder, OrdersGiven
<1> QED BY <1>2, <1>3

\* A handler that carries out an approval is one that approved.
Approvers == \A r \in Request : req[r].at = "grant" => req[r].verdict = "approved"

LEMMA ApproversStep ==
  ASSUME TypeOK, Approvers, [Next]_vars
  PROVE  Approvers'
<1> SUFFICES ASSUME NEW r \in Request, req'[r].at = "grant"
             PROVE  req'[r].verdict = "approved"
  BY DEF Approvers
<1>1. CASE req'[r] = req[r]
  BY <1>1 DEF Approvers
<1>2. CASE Mark(r) /\ req'[r] = [req[r] EXCEPT !.at = "grant"] /\ req[r].verdict = "approved"
  BY <1>2, Handlers DEF Mark, Reviewing
<1>3. req'[r] # Done /\ (req[r] = New => ~Arrive(r))
  BY Arrivals DEF Done
<1>4. ~(CheckPending(r) /\ req'[r] = [req[r] EXCEPT !.at = "insert"])
  BY Handlers DEF CheckPending, Applying
<1>5. ~(ReadApplication(r) /\ req'[r] = [req[r] EXCEPT !.at = "mark"])
  BY Handlers DEF ReadApplication, Reviewing
<1>6. ~(ReadTarget(r) /\ req'[r] = [req[r] EXCEPT !.at = "delete"])
  BY Handlers DEF ReadTarget, Removing
<1> QED BY <1>1, <1>2, <1>3, <1>4, <1>5, <1>6, Moves

LEMMA ApproversAlways == Spec => []Approvers
<1>1. Init => Approvers
  BY DEF Init, Approvers, New
<1>2. IInv /\ Approvers /\ [Next]_vars => Approvers'
  BY ApproversStep DEF IInv
<1> QED BY <1>1, <1>2, Inductive, PTL DEF Spec

LEMMA AccessStep ==
  ASSUME IInv, Removers, Approvers, [Next]_vars
  PROVE  [Access!Next]_Access!vars
<1>0. TypeOK /\ Fresh /\ Entitled
  BY DEF IInv
<1>1. ASSUME NEW r \in Request, Access!Command(r) \/ Access!Decision(r) PROVE Access!Next
  BY <1>1 DEF Access!Next
<1>2. ASSUME NEW r \in Request, Arrive(r) PROVE Access!Next \/ UNCHANGED Access!vars
  BY <1>0, <1>1, <1>2, ArriveMaps
<1>3. ASSUME NEW r \in Request, Step(r) PROVE Access!Next \/ UNCHANGED Access!vars
  <2>1. CASE CheckPending(r)
    BY <1>0, <2>1, CheckMaps
  <2>2. CASE Insert(r)
    BY <1>0, <2>2, InsertMaps
  <2>3. CASE ReadApplication(r)
    BY <1>0, <1>1, <2>3, ReadMaps
  <2>4. CASE Mark(r)
    BY <1>0, <1>1, <2>4, MarkMaps
  <2>5. CASE Grant(r)
    <3>1. req[r].verdict = "approved"
      BY <2>5 DEF Grant, Approvers
    <3> QED BY <1>0, <1>1, <2>5, <3>1, GrantMaps
  <2>6. CASE Put(r)
    BY <1>0, <1>1, <2>6, PutMaps
  <2>7. CASE ReadTarget(r)
    BY <1>0, <1>1, <2>7, TargetMaps
  <2>8. CASE DeleteUser(r)
    BY <1>0, <1>1, <2>8, DeleteMaps
  <2>9. CASE StatementFails(r)
    BY <1>0, <2>9, FailureMaps DEF Access!Next
  <2> QED BY <1>3, <2>1, <2>2, <2>3, <2>4, <2>5, <2>6, <2>7, <2>8, <2>9 DEF Step
<1>4. ASSUME NEW list \in AdminLists, Reload(list) PROVE Access!Next
  <2>1. OrdersGiven' = OrdersGiven
    BY <1>4 DEF Reload, OrdersGiven
  <2>2. Access!Appoint(list)
    BY <1>4, <2>1 DEF Reload, Access!Appoint, OrdersGiven
  <2> QED BY <2>2 DEF Access!Next
<1>5. CASE Crash
  BY <1>0, <1>5, CrashMaps DEF Access!Next
<1>6. CASE UNCHANGED vars
  <2>1. OrdersGiven' = OrdersGiven
    BY <1>6 DEF vars, OrdersGiven
  <2> QED BY <1>6, <2>1, NobodySees DEF vars
<1> QED BY <1>2, <1>3, <1>4, <1>5, <1>6 DEF Next

\* Every decision, addition and removal executes an order that was given by a
\* person with the right to it, once; nothing else changes an application or
\* a row of acl_users (AclManager and the handlers that call it).
THEOREM OrdersAreFollowed == Spec => FollowsOrders
<1>1. Init => Access!Init
  <2> SUFFICES ASSUME Init PROVE Access!Init
    OBVIOUS
  <2>1. Asked(New) = <<>>
    BY NothingOrdered DEF New
  <2>2. OrdersGiven = [r \in Request |-> <<>>]
    BY <2>1 DEF Init, OrdersGiven
  <2> QED BY <2>2 DEF Init, Access!Init, Access!NoRow, Access!NoApplication, Access!NoOrder,
                  NoRow, NoApplication, OrdersGiven
<1>2. IInv /\ Removers /\ Approvers /\ [Next]_vars => [Access!Next]_Access!vars
  BY AccessStep
<1> QED BY <1>1, <1>2, Inductive, RemoversAlways, ApproversAlways, PTL
        DEF Spec, FollowsOrders, Access!Spec

=============================================================================
