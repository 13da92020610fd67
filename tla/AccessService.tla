--------------------------- MODULE AccessService ---------------------------
(***************************************************************************)
(* What access control promises, without handlers, clicks and looks: a     *)
(* person who has the right gives an order -- to decide an application, to *)
(* add somebody, to remove somebody -- and the order is executed once,     *)
(* some time later, when the tables and the rights may be others, or       *)
(* lapses.  Applications are filed one per person, decided once, and       *)
(* carried out by the one who approved them, unless that lapses.           *)
(***************************************************************************)
EXTENDS Naturals

CONSTANTS User, Request, AdminLists

VARIABLES
  admins,  \* admins by the settings
  users,   \* the rows: role and who gave it
  app,     \* applications
  orders,  \* of each request: <<by, act, subject, what>>, or none
  held     \* roles each person has had

vars == <<admins, users, app, orders, held>>

NoRow == [role |-> "none"]
NoApplication == [status |-> "none"]
NoOrder == <<>>

Init ==
  /\ admins \in AdminLists
  /\ users = [u \in User |-> NoRow]
  /\ app = [i \in Request |-> NoApplication]
  /\ orders = [r \in Request |-> NoOrder]
  /\ held = [u \in User |-> IF u \in admins THEN {"admin"} ELSE {}]

\* Admins dispose of both roles, owners of one.
Over(role) ==
  {w \in {"owner", "collaborator"} : role = "admin" \/ (role = "owner" /\ w = "collaborator")}

Mighty(by, w) == w \in Over(IF by \in admins THEN "admin" ELSE users[by].role)
OnceMighty(by, w) == \E h \in held[by] : w \in Over(h)

Order(r, o) ==
  /\ orders[r] = NoOrder
  /\ orders' = [orders EXCEPT ![r] = o]
  /\ UNCHANGED <<admins, users, app, held>>

\* The role was read before the application or the row was.
OrderDecision(r, by, i, d) ==
  /\ app[i].status = "pending" /\ OnceMighty(by, app[i].want)
  /\ Order(r, <<by, "decide", i, d>>)
OrderAddition(r, by, v, w) ==
  /\ Mighty(by, w)
  /\ Order(r, <<by, "add", v, w>>)
OrderRemoval(r, by, v) ==
  /\ v \notin admins /\ OnceMighty(by, users[v].role)
  /\ Order(r, <<by, "remove", v, "row">>)

Execute(r, o) ==
  /\ orders[r] = o
  /\ orders' = [orders EXCEPT ![r] = NoOrder]

\* Another decision came first; the person has become an admin.
TooLate(r, by, i, d) ==
  /\ Execute(r, <<by, "decide", i, d>>)
  /\ app[i].status # "pending"
  /\ UNCHANGED <<admins, users, app, held>>
Spare(r, by, v) ==
  /\ Execute(r, <<by, "remove", v, "row">>)
  /\ v \in admins
  /\ UNCHANGED <<admins, users, app, held>>

File(i, u, w) ==
  /\ app[i] = NoApplication
  /\ \A j \in Request : app[j].status = "pending" => app[j].who # u
  /\ app' = [app EXCEPT ![i] = [status |-> "pending", who |-> u, want |-> w]]
  /\ UNCHANGED <<admins, users, orders, held>>

Reject(r, by, i) ==
  /\ Execute(r, <<by, "decide", i, "rejected">>)
  /\ app[i].status = "pending"
  /\ app' = [app EXCEPT ![i].status = "rejected"]
  /\ UNCHANGED <<admins, users, held>>

\* The one who approves carries it out, later.
Approve(r, by, i) ==
  /\ orders[r] = <<by, "decide", i, "approved">>
  /\ orders' = [orders EXCEPT ![r] = <<by, "grant", i, "approved">>]
  /\ app[i].status = "pending"
  /\ app' = [app EXCEPT ![i].status = "approved"]
  /\ UNCHANGED <<admins, users, held>>

Give(v, w, by) ==
  /\ users' = [users EXCEPT ![v] = [role |-> w, by |-> by]]
  /\ held' = [held EXCEPT ![v] = @ \cup {w}]
  /\ UNCHANGED <<admins, app>>

CarryOut(r, by, i) ==
  /\ Execute(r, <<by, "grant", i, "approved">>)
  /\ Give(app[i].who, app[i].want, by)

Add(r, by, v, w) ==
  /\ Execute(r, <<by, "add", v, w>>)
  /\ Give(v, w, by)

\* Whatever row is there by now.
Remove(r, by, v) ==
  /\ Execute(r, <<by, "remove", v, "row">>)
  /\ v \notin admins
  /\ users' = [users EXCEPT ![v] = NoRow]
  /\ UNCHANGED <<admins, app, held>>

\* The settings name other admins.
Appoint(list) ==
  /\ admins' = list
  /\ held' = [u \in User |-> IF u \in list THEN held[u] \cup {"admin"} ELSE held[u]]
  /\ UNCHANGED <<users, app, orders>>

\* The database refuses, and nobody tries again.
Lapse(r) ==
  /\ orders[r] # NoOrder
  /\ orders' = [orders EXCEPT ![r] = NoOrder]
  /\ UNCHANGED <<admins, users, app, held>>

\* What was not executed yet never will be.
Crash ==
  /\ orders' = [r \in Request |-> NoOrder]
  /\ UNCHANGED <<admins, users, app, held>>

Decision(r) ==
  \E by \in User, i \in Request :
    \/ \E d \in {"approved", "rejected"} : OrderDecision(r, by, i, d) \/ TooLate(r, by, i, d)
    \/ Reject(r, by, i) \/ Approve(r, by, i) \/ CarryOut(r, by, i)

Command(r) ==
  \E by \in User, v \in User :
    \/ OrderRemoval(r, by, v) \/ Remove(r, by, v) \/ Spare(r, by, v)
    \/ \E w \in {"owner", "collaborator"} : OrderAddition(r, by, v, w) \/ Add(r, by, v, w)

Next ==
  \/ \E r \in Request : Decision(r) \/ Command(r) \/ Lapse(r)
  \/ \E i \in Request, u \in User, w \in {"owner", "collaborator"} : File(i, u, w)
  \/ \E list \in AdminLists : Appoint(list)
  \/ Crash

Spec == Init /\ [][Next]_vars
=============================================================================
