---------------------------- MODULE AdminUsersPage ----------------------------
(***************************************************************************)
(* The users: listing them, changing their role, deactivating and          *)
(* activating them, from the page of one administrator and by the requests *)
(* of another.  An update reads its user, counts the other administrators  *)
(* and commits, in three steps of the server that those of another request *)
(* may come between.                                                       *)
(***************************************************************************)
EXTENDS Page, FiniteSets

CONSTANTS
    User,
    Me          \* the administrator at the page

Role == {"admin", "vendedor"}
UserRow == [role : Role, is_active : BOOLEAN]

\* A change sets one column.
Change == [role : Role] \cup [is_active : BOOLEAN]

IsActiveAdmin(row) == row.role = "admin" /\ row.is_active
ActiveAdmins == {u \in User : IsActiveAdmin(db.user[u])}

\* payload.f if payload.f is not None else user.f
Updated(row, change) == [f \in DOMAIN row |-> IF f \in DOMAIN change THEN change[f] ELSE row[f]]

Updating == Doing("update") \cup Doing("elsewhere")

TypeOK ==
    /\ db.user \in [User -> UserRow] /\ db.raced \in BOOLEAN
    /\ ui.status \in {"loading", "ready", "error"} /\ (ui.status = "loading" => Doing("load") # {})
    /\ IF ui.status = "ready" THEN ui.users \in [User -> UserRow] ELSE ui.users = None

Init ==
    /\ \E users \in [User -> UserRow] :
         IsActiveAdmin(users[Me]) /\ db = [user |-> users, raced |-> FALSE]
    /\ ui = [status |-> "loading", users |-> None]
    /\ calls = << Call("load", None, None) >>
    /\ behind = FALSE

-----------------------------------------------------------------------------
(* The page.                                                               *)

LoadReturned(i) ==
    /\ Returned(i, "load")
    /\ ui' = [ui EXCEPT !.users = calls[i].data, !.status = "ready"]
    /\ calls' = Ended(i, << >>)
    /\ behind' = calls[i].old
    /\ UNCHANGED db

LoadThrew(i) ==
    /\ Threw(i, "load")
    /\ ui' = [ui EXCEPT !.users = None, !.status = "error"]
    /\ calls' = Ended(i, << >>)
    /\ UNCHANGED << db, behind >>

PutUser(u, change) ==
    /\ ui.status = "ready"
    /\ Start(<< Call("update", [of |-> u, by |-> Me, change |-> change], None) >>)
    /\ UNCHANGED << ui, db, behind >>

HandleRoleChange(u) ==
    ui.status = "ready" /\ \E role \in Role \ {ui.users[u].role} : PutUser(u, [role |-> role])
HandleToggleActive(u) ==
    ui.status = "ready" /\ PutUser(u, [is_active |-> ~ui.users[u].is_active])

UpdateReturned(i) ==
    /\ Returned(i, "update")
    /\ ui' = [ui EXCEPT !.users = None, !.status = "loading"]
    /\ calls' = Ended(i, << Call("load", None, None) >>)
    /\ UNCHANGED << db, behind >>

\* The row says so, and the list stays as it is.
UpdateThrew(i) ==
    /\ Threw(i, "update")
    /\ ThrowUnheard(i) /\ UNCHANGED << ui, db >>

-----------------------------------------------------------------------------
(* The server.                                                             *)

ServeList(i) ==
    /\ Asked(i, "load")
    /\ calls' = IF IsActiveAdmin(db.user[Me]) THEN Reply(i, db.user) ELSE Refusal(i)
    /\ UNCHANGED << ui, db, behind >>

\* Bound: one request of the other administrators at a time.
RequestElsewhere(a, u, change) ==
    /\ Doing("elsewhere") = {} /\ ~behind
    /\ Start(<< Call("elsewhere", [of |-> u, by |-> a, change |-> change], None) >>)
    /\ UNCHANGED << ui, db, behind >>

HeardElsewhere(i) ==
    /\ i \in Doing("elsewhere") /\ calls[i].state \in {"ok", "error"}
    /\ calls' = RemoveAt(calls, i)
    /\ UNCHANGED << ui, db, behind >>

\* require_admin, and the row as the session will go on seeing it.
LoadUser(i) ==
    /\ i \in Updating /\ calls[i].state = "sent"
    /\ calls' = IF IsActiveAdmin(db.user[calls[i].arg.by])
                THEN [calls EXCEPT ![i].state = "loaded", ![i].data = db.user[calls[i].arg.of]]
                ELSE Refusal(i)
    /\ UNCHANGED << ui, db, behind >>

\* Mutant: the user is counted among the others.
CountAdmins(u) == Cardinality(ActiveAdmins)

CountOtherActiveAdmins(u) == Cardinality(ActiveAdmins \ {u})

AssertWontRemoveLastAdmin(i) ==
    LET u == calls[i].arg.of   row == calls[i].data IN
    /\ i \in Updating /\ calls[i].state = "loaded"
    /\ calls' = IF /\ IsActiveAdmin(row) /\ ~IsActiveAdmin(Updated(row, calls[i].arg.change))
                   /\ CountOtherActiveAdmins(u) = 0
                THEN Refusal(i)
                ELSE [calls EXCEPT ![i].state = "counted"]
    /\ UNCHANGED << ui, db, behind >>

\* A column is written if it differs from the row that was read.
\* raced (history): another update has read and not committed, or did when this one read.
UpdateUser(i) ==
    LET u == calls[i].arg.of   read == calls[i].data
        to == Updated(read, calls[i].arg.change)
        others == {j \in Updating \ {i} : calls[j].state \in {"loaded", "counted"}}
    IN  /\ i \in Updating /\ calls[i].state = "counted"
        /\ db' = [user |-> [db.user EXCEPT ![u] =
                     [f \in DOMAIN @ |-> IF to[f] # read[f] THEN to[f] ELSE @[f]]],
                  raced |-> db.raced \/ others # {}]
        /\ LET done == [calls EXCEPT ![i].state = "ok", ![i].data = None] IN
           IF calls[i].op = "update" \/ to = read
           THEN calls' = done /\ UNCHANGED behind
           ELSE calls' = Outdated(done, Answered) /\ behind' = TRUE
        /\ UNCHANGED ui

Next ==
    \/ \E u \in User :
         \/ HandleRoleChange(u) \/ HandleToggleActive(u)
         \/ \E a \in User \ {Me}, change \in Change : RequestElsewhere(a, u, change)
    \/ \E i \in DOMAIN calls :
         \/ LoadReturned(i) \/ LoadThrew(i) \/ UpdateReturned(i) \/ UpdateThrew(i)
         \/ HeardElsewhere(i)
         \/ ServeList(i) \/ LoadUser(i) \/ AssertWontRemoveLastAdmin(i) \/ UpdateUser(i)

ShowsStored == Quiet /\ ~behind => ui.users = db.user

\* Updates that do not overlap never leave the shop without an administrator.
SomeAdminLeft == ActiveAdmins # {} \/ db.raced

\* The inductive invariant: while no updates have overlapped, one that goes on has read
\* what is stored, and if it takes an administrator away it has counted another.
LoadCall ==
    [op : {"load"}, arg : {None}, then : {None}, state : {"sent", "ok", "error"},
     data : {None} \cup [User -> UserRow], old : BOOLEAN]
UpdateCall ==
    [op : {"update", "elsewhere"}, arg : [of : User, by : User, change : Change], then : {None},
     state : {"sent", "loaded", "counted", "ok", "error"}, data : {None} \cup UserRow, old : BOOLEAN]

TakesAdminAway(row, change) == IsActiveAdmin(row) /\ ~IsActiveAdmin(Updated(row, change))

LoadOK(c) == c.state = "ok" => c.data \in [User -> UserRow]
UpdateOK(c) ==
    c.state \in {"loaded", "counted"} =>
        /\ c.data \in UserRow
        /\ ~db.raced => c.data = db.user[c.arg.of]
        /\ ~db.raced /\ c.state = "counted" /\ TakesAdminAway(c.data, c.arg.change) =>
             ActiveAdmins \ {c.arg.of} # {}

CallOK(c) == IF c.op = "load" THEN LoadOK(c) ELSE UpdateOK(c)

IInv ==
    /\ TypeOK /\ SomeAdminLeft
    /\ ui \in [status : {"loading", "ready", "error"}, users : {None} \cup [User -> UserRow]]
    /\ db \in [user : [User -> UserRow], raced : BOOLEAN]
    /\ calls \in Seq(LoadCall \cup UpdateCall)
    /\ \A i \in DOMAIN calls : CallOK(calls[i])

\* The inductive invariant of the list, as that of the products.
ListIInv ==
    Unheard({"update"}) = {} =>
        /\ \A j \in Latest(Doing("load")) :
             calls[j].state = "ok" /\ ~calls[j].old => calls[j].data = db.user
        /\ Doing("load") = {} /\ ui.status = "ready" /\ ~behind => ui.users = db.user
===============================================================================
