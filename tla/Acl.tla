-------------------------------- MODULE Acl --------------------------------
(***************************************************************************)
(* Access control: the tables acl_users and acl_applications, the admins   *)
(* named in the settings, and the handlers that change them -- the apply   *)
(* and review buttons of the cards and the /acl commands.                  *)
(*                                                                         *)
(* Every handler is a coroutine that awaits each statement of the          *)
(* database; a statement is atomic (AclDb._lock), a handler is not: it     *)
(* acts on a role, an application or a row that another handler, a reload  *)
(* of the settings or a restart has changed since.                         *)
(***************************************************************************)
EXTENDS Naturals

CONSTANTS
  User,        \* open_ids
  Request,     \* bound: clicks and commands that change something
  AdminLists   \* values of admin_users that the settings file takes

ASSUME AclAssumption == AdminLists \subseteq SUBSET User

VARIABLES
  admins,    \* AclManager._admin_users
  users,     \* acl_users: role and added_by
  app,       \* acl_applications, named by the request that inserted the row
  req,       \* the handler of each request: its await and its locals
  held,      \* history: roles that get_role has had for a user
  half       \* history: applications approved by a handler that a crash or a
             \* failing statement cut off before it added the user

vars == <<admins, users, app, req, held, half>>

DbRole == {"owner", "collaborator"}
Role == DbRole \cup {"admin"}
Decision == {"approved", "rejected"}

NoRow == [role |-> "none"]
Row == [role : DbRole, by : User]

NoApplication == [status |-> "none"]
Application == [status : Decision \cup {"pending"}, who : User, want : DbRole]

New == [at |-> "new"]
Done == [at |-> "done"]
Applying == [at : {"check", "insert"}, who : User, want : DbRole]
Reviewing == [at : {"read", "mark", "grant"}, who : User, seen : Role,
              app : Request, verdict : Decision]
Adding == [at : {"put"}, who : User, on : User, want : DbRole]
Removing == [at : {"target", "delete"}, who : User, seen : Role, on : User]

TypeOK ==
  /\ admins \in AdminLists
  /\ users \in [User -> Row \cup {NoRow}]
  /\ app \in [Request -> Application \cup {NoApplication}]
  /\ req \in [Request -> {New, Done} \cup Applying \cup Reviewing \cup Adding \cup Removing]
  /\ held \in [User -> SUBSET Role]
  /\ half \subseteq Request

Init ==
  /\ admins \in AdminLists
  /\ users = [u \in User |-> NoRow]
  /\ app = [r \in Request |-> NoApplication]
  /\ req = [r \in Request |-> New]
  /\ held = [u \in User |-> IF u \in admins THEN {"admin"} ELSE {}]
  /\ half = {}

-----------------------------------------------------------------------------
(* AclManager: roles and who may do what. *)

GetRole(u) == IF u \in admins THEN "admin" ELSE users[u].role

Authorized(u) == GetRole(u) # "none"

\* A reviewer of any kind decides any application.
CanReviewAny(actor, wanted) == actor \in {"admin", "owner"}

CanReview(actor, wanted) ==
  \/ actor = "admin"
  \/ actor = "owner" /\ wanted = "collaborator"

CanAdd(actor, target) ==
  \/ actor = "admin" /\ target \in DbRole
  \/ actor = "owner" /\ target = "collaborator"

\* An owner removes other owners too.
CanRemoveAny(actor, target) == actor \in {"admin", "owner"}

CanRemove(actor, target) ==
  \/ actor = "admin"
  \/ actor = "owner" /\ target = "collaborator"

IsPending(i) == app[i].status = "pending"

HasPending(u) == \E i \in Request : IsPending(i) /\ app[i].who = u

-----------------------------------------------------------------------------
(* The handlers.  Each starts with get_role of the person who clicked or   *)
(* typed; one that this turns away changes nothing and is left out.        *)

Start(r, handler) ==
  /\ req[r] = New
  /\ req' = [req EXCEPT ![r] = handler]
  /\ UNCHANGED <<admins, users, app, held, half>>

\* The apply button of the access-denied card, clicked by its recipient.
Apply(r, u, w) ==
  /\ ~Authorized(u)
  /\ Start(r, [at |-> "check", who |-> u, want |-> w])

\* A review card or /acl approve and /acl reject.
Review(r, u, i, d) ==
  /\ Authorized(u)
  /\ Start(r, [at |-> "read", who |-> u, seen |-> GetRole(u), app |-> i, verdict |-> d])

\* /acl add
Add(r, u, v, w) ==
  /\ CanAdd(GetRole(u), w)
  /\ Start(r, [at |-> "put", who |-> u, on |-> v, want |-> w])

\* /acl remove
Remove(r, u, v) ==
  /\ Authorized(u)
  /\ v \notin admins
  /\ Start(r, [at |-> "target", who |-> u, seen |-> GetRole(u), on |-> v])

MoveOn(r, stage) == req' = [req EXCEPT ![r].at = stage]

Finish(r) == req' = [req EXCEPT ![r] = Done]

\* AclManager.create_application looks for a pending one first.
CheckPending(r) ==
  /\ req[r].at = "check"
  /\ IF HasPending(req[r].who) THEN Finish(r) ELSE MoveOn(r, "insert")
  /\ UNCHANGED <<admins, users, app, held, half>>

\* The row is inserted on the word of the first look.
InsertUnchecked(r) ==
  /\ req[r].at = "insert"
  /\ app' = [app EXCEPT ![r] = [status |-> "pending", who |-> req[r].who, want |-> req[r].want]]
  /\ Finish(r)
  /\ UNCHANGED <<admins, users, held, half>>

\* AclDb.create_application looks again under the lock.
Insert(r) ==
  /\ req[r].at = "insert"
  /\ app' = IF HasPending(req[r].who) THEN app
            ELSE [app EXCEPT ![r] = [status |-> "pending", who |-> req[r].who, want |-> req[r].want]]
  /\ Finish(r)
  /\ UNCHANGED <<admins, users, held, half>>

\* The application must be pending and the role read at the start must allow
\* the decision.
ReadApplication(r) ==
  /\ req[r].at = "read"
  /\ LET i == req[r].app
     IN IF IsPending(i) /\ CanReview(req[r].seen, app[i].want)
        THEN MoveOn(r, "mark") ELSE Finish(r)
  /\ UNCHANGED <<admins, users, app, held, half>>

\* UPDATE without the condition.
MarkAnyStatus(r) ==
  /\ req[r].at = "mark"
  /\ LET i == req[r].app
     IN /\ app' = [app EXCEPT ![i].status = req[r].verdict]
        /\ IF req[r].verdict = "approved" THEN MoveOn(r, "grant") ELSE Finish(r)
  /\ UNCHANGED <<admins, users, held, half>>

\* UPDATE ... WHERE status = 'pending'
Mark(r) ==
  /\ req[r].at = "mark"
  /\ LET i == req[r].app
     IN IF IsPending(i)
        THEN /\ app' = [app EXCEPT ![i].status = req[r].verdict]
             /\ IF req[r].verdict = "approved" THEN MoveOn(r, "grant") ELSE Finish(r)
        ELSE Finish(r) /\ UNCHANGED app
  /\ UNCHANGED <<admins, users, held, half>>

\* INSERT OR IGNORE: a row that is there stays as it is.
AddUserOnce(v, w, by) ==
  IF users[v] = NoRow
  THEN /\ users' = [users EXCEPT ![v] = [role |-> w, by |-> by]]
       /\ held' = [held EXCEPT ![v] = @ \cup {w}]
  ELSE UNCHANGED <<users, held>>

\* INSERT OR REPLACE INTO acl_users
AddUser(v, w, by) ==
  /\ users' = [users EXCEPT ![v] = [role |-> w, by |-> by]]
  /\ held' = [held EXCEPT ![v] = @ \cup {w}]

\* The second write of AclManager.approve.
Grant(r) ==
  /\ req[r].at = "grant"
  /\ AddUser(app[req[r].app].who, app[req[r].app].want, req[r].who)
  /\ Finish(r)
  /\ UNCHANGED <<admins, app, half>>

Put(r) ==
  /\ req[r].at = "put"
  /\ AddUser(req[r].on, req[r].want, req[r].who)
  /\ Finish(r)
  /\ UNCHANGED <<admins, app, half>>

ReadTarget(r) ==
  /\ req[r].at = "target"
  /\ LET v == req[r].on
     IN IF users[v] # NoRow /\ v \notin admins /\ CanRemove(req[r].seen, users[v].role)
        THEN MoveOn(r, "delete") ELSE Finish(r)
  /\ UNCHANGED <<admins, users, app, held, half>>

\* AclManager.remove_user asks for admins once more, not for the role.
DeleteUser(r) ==
  /\ req[r].at = "delete"
  /\ users' = IF req[r].on \in admins THEN users ELSE [users EXCEPT ![req[r].on] = NoRow]
  /\ Finish(r)
  /\ UNCHANGED <<admins, app, held, half>>

-----------------------------------------------------------------------------
(* The rest of the process. *)

\* SIGHUP: AclManager.reload_admin_users.
Reload(list) ==
  /\ admins' = list
  /\ held' = [u \in User |-> IF u \in list THEN held[u] \cup {"admin"} ELSE held[u]]
  /\ UNCHANGED <<users, app, req, half>>

\* The process dies with its handlers; the tables stay.
Crash ==
  /\ req' = [r \in Request |-> IF req[r] = New THEN New ELSE Done]
  /\ half' = half \cup {req[r].app : r \in {x \in Request : req[x].at = "grant"}}
  /\ UNCHANGED <<admins, users, app, held>>

\* The statement raises (database locked, disk full): nothing is written and
\* the handler ends.
StatementFails(r) ==
  /\ req[r] \notin {New, Done}
  /\ half' = IF req[r].at = "grant" THEN half \cup {req[r].app} ELSE half
  /\ Finish(r)
  /\ UNCHANGED <<admins, users, app, held>>

Step(r) ==
  \/ CheckPending(r)
  \/ Insert(r)
  \/ ReadApplication(r)
  \/ Mark(r)
  \/ Grant(r)
  \/ Put(r)
  \/ ReadTarget(r)
  \/ DeleteUser(r)
  \/ StatementFails(r)

Arrive(r) ==
  \E u \in User :
    \/ \E w \in DbRole : Apply(r, u, w)
    \/ \E i \in Request, d \in Decision : Review(r, u, i, d)
    \/ \E v \in User, w \in DbRole : Add(r, u, v, w)
    \/ \E v \in User : Remove(r, u, v)

Next ==
  \/ \E r \in Request : Arrive(r) \/ Step(r)
  \/ \E list \in AdminLists : Reload(list)
  \/ Crash

Spec == Init /\ [][Next]_vars

-----------------------------------------------------------------------------
(* Properties *)

\* Nobody has two applications pending, however many apply buttons were
\* clicked and whichever handlers passed the first look together
\* (AclDb.create_application).
OnePending ==
  \A i, j \in Request : IsPending(i) /\ IsPending(j) /\ app[i].who = app[j].who => i = j

\* Every row of acl_users was put there by a person who at some time had the
\* right to put it there: a chain of additions and approvals never makes an
\* owner without an admin, nor a collaborator without an admin or an owner,
\* although the right is checked on a role that may have been revoked before
\* the row is written (can_add, can_review).
Delegated ==
  \A u \in User : users[u] # NoRow => \E h \in held[users[u].by] : CanAdd(h, users[u].role)

\* An approved application is being carried out by at most one handler, and a
\* handler only carries out what it has itself approved
\* (AclManager.approve after update_application_status).
GrantOnce ==
  \A r, s \in Request :
    /\ req[r].at = "grant" => app[req[r].app].status = "approved"
    /\ req[r].at = "grant" /\ req[s].at = "grant" /\ req[r].app = req[s].app => r = s

\* Two reviewers cannot both decide: a decision is never changed, and what
\* was asked for stays what was asked for (update_application_status).
DecidedOnce ==
  [][\A i \in Request : app[i].status \in Decision => app'[i] = app[i]]_vars

\* An approval takes effect: whatever row is there, the applicant has had the
\* role that was asked for, or the handler is between the two writes of
\* AclManager.approve, or a crash or a failing add_user cut it off there: then
\* the application can neither be approved again nor is it carried out, and the
\* applicant must apply once more.
ApprovalTakesEffect ==
  \A i \in Request :
    app[i].status = "approved" =>
      \/ app[i].want \in held[app[i].who]
      \/ \E r \in Request : req[r].at = "grant" /\ req[r].app = i
      \/ i \in half

\* Without handlers and what they looked at too early, there are orders:
\* every decision, addition and removal was ordered by a person who had the
\* right, a removal over the row that was there when it was ordered, and is
\* executed once at most, later, whatever has changed since; nothing else
\* changes an application or a row (AclManager, AclDb and their callers).
Asked(h) ==
  CASE h.at = "mark" -> <<h.who, "decide", h.app, h.verdict>>
    [] h.at = "grant" -> <<h.who, "grant", h.app, h.verdict>>
    [] h.at = "put" -> <<h.who, "add", h.on, h.want>>
    [] h.at = "delete" -> <<h.who, "remove", h.on, "row">>
    [] OTHER -> <<>>
Access == INSTANCE AccessService WITH orders <- [r \in Request |-> Asked(req[r])]
FollowsOrders == Access!Spec
=============================================================================
