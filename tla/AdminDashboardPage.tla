-------------------------- MODULE AdminDashboardPage --------------------------
(* The list of products: loading it with or without the deleted ones, deleting *)
(* and restoring a product, and what the list and its cards show.              *)
EXTENDS Page, FiniteSets

CONSTANTS
    Product,
    Stock,      \* the quantities a product may have
    LowStock    \* LOW_STOCK_THRESHOLD

Row == [active : BOOLEAN, stock : Stock]
Lists == UNION {[D -> Row] : D \in SUBSET Product}
NoProducts == [p \in {} |-> None]

\* The server's list.
Listed(includeInactive) == [p \in {x \in Product : includeInactive \/ db[x].active} |-> db[p]]

Low(row) == row.stock > 0 /\ row.stock <= LowStock
Out(row) == row.stock <= 0

Visible(stockFilter) ==
    {p \in DOMAIN ui.products :
        /\ stockFilter = "bajo" => Low(ui.products[p])
        /\ stockFilter = "agotado" => Out(ui.products[p])}

\* stats: deleted products are not counted.
StatLowStock == Cardinality({p \in DOMAIN ui.products : ui.products[p].active /\ Low(ui.products[p])})
StatOutOfStock == Cardinality({p \in DOMAIN ui.products : ui.products[p].active /\ Out(ui.products[p])})

\* The rows are there to be clicked.
Rows == IF ui.status = "ready" /\ ui.target = None THEN DOMAIN ui.products ELSE {}

TypeOK ==
    /\ db \in [Product -> Row]
    /\ ui.status \in {"loading", "ready", "error"}
    /\ ui.products \in Lists
    /\ ui.includeInactive \in BOOLEAN /\ ui.submitting \in BOOLEAN
    /\ ui.target \in Product \cup {None}
    /\ ui.status = "loading" => Doing("load") # {}
    /\ ui.submitting = (Doing("delete") # {}) /\ \A i, j \in Doing("delete") : i = j

Init ==
    /\ db \in [Product -> Row]
    /\ ui = [status |-> "loading", products |-> NoProducts, includeInactive |-> FALSE,
             target |-> None, submitting |-> FALSE, notice |-> None]
    /\ calls = << Call("load", FALSE, None) >>
    /\ behind = FALSE

-----------------------------------------------------------------------------
SetIncludeInactive ==
    LET inc == ~ui.includeInactive IN
    /\ ui.target = None
    /\ Start(<< Call("load", inc, None) >>)
    /\ ui' = [ui EXCEPT !.includeInactive = inc, !.status = "loading", !.products = NoProducts]
    /\ UNCHANGED << db, behind >>

LoadReturned(i) ==
    /\ Returned(i, "load")
    /\ ui' = [ui EXCEPT !.products = calls[i].data, !.status = "ready"]
    /\ calls' = Ended(i, << >>)
    /\ behind' = (calls[i].old \/ calls[i].arg # ui.includeInactive)
    /\ UNCHANGED db

LoadThrew(i) ==
    /\ Threw(i, "load")
    /\ ui' = [ui EXCEPT !.status = "error", !.products = NoProducts]
    /\ calls' = Ended(i, << >>)
    /\ UNCHANGED << db, behind >>

Eliminar(p) ==
    /\ p \in Rows /\ ui.products[p].active
    /\ ui' = Opened(p) /\ UNCHANGED << db, calls, behind >>

\* Mutant: a product is deleted as often as the button is pressed.
ConfirmAgain == Submit("delete", ui.target, ui.includeInactive)

HandleConfirm == ~ui.submitting /\ Submit("delete", ui.target, ui.includeInactive)

\* Closes whatever dialog is open, and loads what was listed when it was confirmed.
DeleteReturned(i) ==
    /\ Returned(i, "delete")
    /\ ui' = [ui EXCEPT !.target = None, !.submitting = FALSE, !.notice = None,
                        !.status = "loading", !.products = NoProducts]
    /\ calls' = Ended(i, << Call("load", calls[i].then, None) >>)
    /\ UNCHANGED << db, behind >>

DeleteThrew(i) ==
    /\ Threw(i, "delete")
    /\ ui' = Noticed(i, "error")
    /\ ThrowUnheard(i) /\ UNCHANGED db

HandleRestore(p) ==
    /\ p \in Rows /\ ~ui.products[p].active
    /\ Start(<< Call("restore", p, ui.includeInactive) >>)
    /\ UNCHANGED << ui, db, behind >>

\* Mutant: a restored product is not listed again.
RestoreReturnedUnloaded(i) ==
    /\ Returned(i, "restore")
    /\ calls' = Ended(i, << >>)
    /\ UNCHANGED << ui, db, behind >>

RestoreReturned(i) ==
    /\ Returned(i, "restore")
    /\ ui' = [ui EXCEPT !.status = "loading", !.products = NoProducts]
    /\ calls' = Ended(i, << Call("load", calls[i].then, None) >>)
    /\ UNCHANGED << db, behind >>

\* Nobody catches it: the list stays as it is.
RestoreThrew(i) == Threw(i, "restore") /\ ThrowUnheard(i) /\ UNCHANGED << ui, db >>

-----------------------------------------------------------------------------
ServeList(i) ==
    /\ Asked(i, "load")
    /\ calls' = Reply(i, Listed(calls[i].arg)) /\ UNCHANGED << ui, db, behind >>

ServeActive(i, op) ==
    /\ Asked(i, op)
    /\ db' = [db EXCEPT ![calls[i].arg].active = (op = "restore")]
    /\ calls' = Reply(i, None) /\ UNCHANGED << ui, behind >>

\* Another active product has its barcode.
RefuseRestore(i) ==
    /\ Asked(i, "restore")
    /\ calls' = Refusal(i) /\ UNCHANGED << ui, db, behind >>

OtherAdmin(p) ==
    /\ db' = [db EXCEPT ![p].active = ~@]
    /\ RowsChangeBehind /\ UNCHANGED ui

Next ==
    \/ SetIncludeInactive \/ HandleConfirm \/ CloseDialog("delete")
    \/ \E p \in Product : Eliminar(p) \/ HandleRestore(p) \/ OtherAdmin(p)
    \/ \E i \in DOMAIN calls :
         \/ LoadReturned(i) \/ LoadThrew(i) \/ DeleteReturned(i) \/ DeleteThrew(i)
         \/ RestoreReturned(i) \/ RestoreThrew(i)
         \/ ServeList(i) \/ ServeActive(i, "delete") \/ ServeActive(i, "restore") \/ RefuseRestore(i)

\* The list is what the server lists, and without deleted products a card counts the
\* rows that its click would leave.
ShowsStored ==
    Quiet /\ ~behind =>
        /\ ui.products = Listed(ui.includeInactive)
        /\ ~ui.includeInactive => /\ StatLowStock = Cardinality(Visible("bajo"))
                                  /\ StatOutOfStock = Cardinality(Visible("agotado"))

\* The inductive invariant: a deletion that was not overtaken is of the row of the dialog.
LoadCall ==
    [op : {"load"}, arg : BOOLEAN, then : {None}, state : {"sent", "ok"}, data : {None} \cup Lists,
     old : BOOLEAN]
ActiveCall ==
    [op : {"delete", "restore"}, arg : Product, then : BOOLEAN, state : {"sent", "ok", "error"},
     data : {None}, old : BOOLEAN]
Notice == [what : {"error"}, of : Product, late : BOOLEAN]

CallOK(c) ==
    /\ c.op = "load" /\ c.state = "ok" => c.data \in Lists
    /\ c.op = "delete" /\ ~c.old => ui.target # None /\ c.arg = ui.target

IInv ==
    /\ TypeOK /\ NoticeIsOfTarget
    /\ ui \in [status : {"loading", "ready", "error"}, products : Lists, includeInactive : BOOLEAN,
               target : Product \cup {None}, submitting : BOOLEAN, notice : {None} \cup Notice]
    /\ calls \in Seq(LoadCall \cup ActiveCall)
    /\ \A i \in DOMAIN calls : CallOK(calls[i])

\* The inductive invariant of the list: unless a change waits to be heard of, the last load,
\* if it is answered and was not overtaken, has the rows that are stored; and if there is no
\* load the page shows them.
ListIInv ==
    Unheard({"delete", "restore"}) = {} =>
        /\ \A j \in Latest(Doing("load")) :
             calls[j].state = "ok" /\ ~calls[j].old => calls[j].data = Listed(calls[j].arg)
        /\ Doing("load") = {} /\ ui.status = "ready" /\ ~behind => ui.products = Listed(ui.includeInactive)
===============================================================================
