-------------------------- MODULE SaleTransactions --------------------------
(***************************************************************************)
(* The sale engine of the backend (services/sales.py) over PostgreSQL in   *)
(* READ COMMITTED: POST /sales, POST /sales/{id}/void, and the admin's     *)
(* edits of a product's stock and is_active.                               *)
(*                                                                         *)
(* Every request runs in one database transaction.  What it has written    *)
(* and not committed is visible to nobody else, and a row it has written   *)
(* stays locked until it commits or rolls back.  The row locks of the      *)
(* model are those of products (taken by UPDATE) and of the one row of     *)
(* document_series (taken by SELECT ... FOR UPDATE).                       *)
(***************************************************************************)
EXTENDS SaleData, FiniteSetsExt

CONSTANTS
    Admin,          \* administrators with the product form open
    StockEntered,   \* values an administrator may type in the stock field
    Serie,          \* the row of document_series
    None            \* owner of a row nobody has locked

ASSUME StockEnteredAssumption == StockEntered \subseteq Nat
ASSUME LockAssumption == Serie \notin Product /\ None \notin Request

Resource == Product \cup {Serie}

VARIABLES
    stock,              \* committed products.stock
    active,             \* committed products.is_active
    ultimo_correlativo, \* committed document_series.ultimo_correlativo
    sale,               \* committed sales with their sale_items
    movements,          \* committed inventory_movements: sum of delta by motivo and product
    pendingStock,       \* newest version of products.stock, committed or not
    lock,               \* transaction that holds each row lock
    pc, lines, key, target, idx, correlativo, answer,   \* one handler per request
    edit                \* one product form per administrator

database == << stock, active, ultimo_correlativo, sale, movements >>
rows     == << pendingStock, lock >>
handler  == << pc, lines, key, target, idx, correlativo, answer >>
vars     == << database, rows, handler, edit >>

-----------------------------------------------------------------------------
Exists(q) == sale[q].estado # "inexistente"

\* _find_by_idempotency_key
SalesWithKey(k) == {q \in Request : k # NoKey /\ Exists(q) /\ sale[q].key = k}

\* The row the next statement of r must lock: that of the line it is at, or the
\* series row once a sale has decremented every line.  An UPDATE whose WHERE clause
\* the committed row fails matches nothing, and locks nothing.
Line(r) == lines[r][idx[r]]
MoreLines(r) == idx[r] <= Len(lines[r])
InStock(r) == active[Line(r).product] /\ stock[Line(r).product] >= Line(r).cantidad
NeedsRow(r) ==
    \/ pc[r] = "decrement" /\ (MoreLines(r) => InStock(r))
    \/ pc[r] = "restore" /\ MoreLines(r)
RowNeeded(r) == IF MoreLines(r) THEN Line(r).product ELSE Serie

Grantable(x, r) == lock[x] \in {None, r}
Waiting(r) == NeedsRow(r) /\ ~Grantable(RowNeeded(r), r)

InFlight(r) == pc[r] \notin {"idle", "done"}

NoEdit == [step |-> "none"]

Init ==
    /\ stock = InitialStock
    /\ active = [p \in Product |-> TRUE]
    /\ ultimo_correlativo = 0
    /\ sale = [r \in Request |-> NoSale]
    /\ movements = [m \in Motivo |-> [p \in Product |-> 0]]
    /\ pendingStock = InitialStock
    /\ lock = [x \in Resource |-> None]
    /\ pc = [r \in Request |-> "idle"]
    /\ lines = [r \in Request |-> << >>]
    /\ key = [r \in Request |-> NoKey]
    /\ target = [r \in Request |-> r]
    /\ idx = [r \in Request |-> 1]
    /\ correlativo = [r \in Request |-> 0]
    /\ answer = [r \in Request |-> "none"]
    /\ edit = [a \in Admin |-> NoEdit]

-----------------------------------------------------------------------------
(* Ends of a transaction.                                                  *)

Goto(r, step) == pc' = [pc EXCEPT ![r] = step]

Finish(r, outcome) ==
    /\ Goto(r, "reply")
    /\ answer' = [answer EXCEPT ![r] = outcome]

\* Mutant: the series row stays locked.
ReleaseProductLocks(r) ==
    lock' = [x \in Resource |-> IF x # Serie /\ lock[x] = r THEN None ELSE lock[x]]

ReleaseLocks(r) == lock' = [x \in Resource |-> IF lock[x] = r THEN None ELSE lock[x]]

\* Mutant: the decrements of a failed sale are not undone.
RollbackKeepingStock(r, outcome) ==
    /\ Finish(r, outcome)
    /\ ReleaseLocks(r)
    /\ UNCHANGED << database, pendingStock, lines, key, target, idx, correlativo, edit >>

\* Mutant: a failed sale leaves its transaction open.
RollbackHoldingLocks(r, outcome) ==
    /\ Finish(r, outcome)
    /\ UNCHANGED << database, rows, lines, key, target, idx, correlativo, edit >>

\* await db.rollback(), or the exception that leaves get_db.
Rollback(r, outcome) ==
    /\ Finish(r, outcome)
    /\ ReleaseLocks(r)
    /\ pendingStock' = [p \in Product |-> IF lock[p] = r THEN stock[p] ELSE pendingStock[p]]
    /\ UNCHANGED << database, lines, key, target, idx, correlativo, edit >>

\* Mutant: one movement for the whole sale, that of its first line.
CommitFirstMovement(r, motivo, sign) ==
    /\ Finish(r, "ok")
    /\ ReleaseLocks(r)
    /\ stock' = [p \in Product |-> IF lock[p] = r THEN pendingStock[p] ELSE stock[p]]
    /\ movements' = [movements EXCEPT ![motivo][lines[r][1].product] = @ + sign * lines[r][1].cantidad]
    /\ UNCHANGED << active, pendingStock, lines, key, target, idx, correlativo, edit >>

\* The rows r has written become the committed ones, and the movements of its
\* lines are in the ledger.
CommitRows(r, motivo, sign) ==
    /\ Finish(r, "ok")
    /\ ReleaseLocks(r)
    /\ stock' = [p \in Product |-> IF lock[p] = r THEN pendingStock[p] ELSE stock[p]]
    /\ movements' = [movements EXCEPT ![motivo] =
                       [p \in Product |-> @[p] + sign * CantidadOf(lines[r], p)]]
    /\ UNCHANGED << active, pendingStock, lines, key, target, idx, correlativo, edit >>

-----------------------------------------------------------------------------
(* POST /sales: create_sale.                                               *)

\* The request arrives and its key names no committed sale.
PostSale(r, o, k) ==
    /\ pc[r] = "idle"
    /\ SalesWithKey(k) = {}
    /\ Goto(r, "session")
    /\ lines' = [lines EXCEPT ![r] = o]
    /\ key' = [key EXCEPT ![r] = k]
    /\ UNCHANGED << database, rows, target, idx, correlativo, answer, edit >>

\* The request arrives and its key names a sale, which is returned as it is.
PostRepeatedSale(r, o, k) ==
    /\ pc[r] = "idle"
    /\ \E q \in SalesWithKey(k) : target' = [target EXCEPT ![r] = q]
    /\ Finish(r, "ok")
    /\ lines' = [lines EXCEPT ![r] = o]
    /\ key' = [key EXCEPT ![r] = k]
    /\ UNCHANGED << database, rows, idx, correlativo, edit >>

GetOpenSession(r) ==
    /\ pc[r] = "session"
    /\ Goto(r, "resolve")
    /\ UNCHANGED << database, rows, lines, key, target, idx, correlativo, answer, edit >>

\* 400 on an empty list, 409 without an open register.
RejectSession(r) ==
    /\ pc[r] = "session"
    /\ Rollback(r, "rejected")

ResolveProduct(r) ==
    /\ pc[r] = "resolve"
    /\ MoreLines(r)
    /\ active[Line(r).product]
    /\ idx' = [idx EXCEPT ![r] = @ + 1]
    /\ UNCHANGED << database, rows, pc, lines, key, target, correlativo, answer, edit >>

ProductNotFound(r) ==
    /\ pc[r] = "resolve"
    /\ MoreLines(r)
    /\ ~active[Line(r).product]
    /\ Rollback(r, "rejected")

\* Discount, total, client data and payments are in order ...
AcceptTotals(r) ==
    /\ pc[r] = "resolve"
    /\ ~MoreLines(r)
    /\ Goto(r, "decrement")
    /\ idx' = [idx EXCEPT ![r] = 1]
    /\ UNCHANGED << database, rows, lines, key, target, correlativo, answer, edit >>

\* ... or one of them is not: 400 or 403.
RejectTotals(r) ==
    /\ pc[r] = "resolve"
    /\ ~MoreLines(r)
    /\ Rollback(r, "rejected")

\* Take the row of the current line and write its stock.
WriteLine(r, newStock) ==
    /\ pendingStock' = [pendingStock EXCEPT ![Line(r).product] = newStock]
    /\ lock' = [lock EXCEPT ![Line(r).product] = r]
    /\ idx' = [idx EXCEPT ![r] = @ + 1]
    /\ UNCHANGED << database, pc, lines, key, target, correlativo, answer, edit >>

\* Mutant: no stock >= cantidad in the WHERE clause.
DecrementAnyStock(r) ==
    /\ pc[r] = "decrement"
    /\ MoreLines(r)
    /\ Grantable(Line(r).product, r)
    /\ active[Line(r).product]
    /\ WriteLine(r, pendingStock[Line(r).product] - Line(r).cantidad)

\* Mutant: no is_active in the WHERE clause.
DecrementInactive(r) ==
    /\ pc[r] = "decrement"
    /\ MoreLines(r)
    /\ Grantable(Line(r).product, r)
    /\ pendingStock[Line(r).product] >= Line(r).cantidad
    /\ WriteLine(r, pendingStock[Line(r).product] - Line(r).cantidad)

\* UPDATE products ... WHERE is_active AND stock >= cantidad, once the row lock
\* is granted: the WHERE clause is evaluated again on the row's newest version.
DecrementStock(r) ==
    /\ pc[r] = "decrement"
    /\ MoreLines(r)
    /\ Grantable(Line(r).product, r)
    /\ active[Line(r).product]
    /\ pendingStock[Line(r).product] >= Line(r).cantidad
    /\ WriteLine(r, pendingStock[Line(r).product] - Line(r).cantidad)

\* The same statement when it matches no row: it is decided on the committed one,
\* even if a transaction that may still give units back holds it.
InsufficientStock(r) ==
    /\ pc[r] = "decrement"
    /\ MoreLines(r)
    /\ ~InStock(r)
    /\ Rollback(r, "stock_out")

\* Mutant: the number is not incremented.
RepeatCorrelativo(r) ==
    /\ pc[r] = "decrement"
    /\ ~MoreLines(r)
    /\ Grantable(Serie, r)
    /\ lock' = [lock EXCEPT ![Serie] = r]
    /\ correlativo' = [correlativo EXCEPT ![r] = ultimo_correlativo]
    /\ Goto(r, "flush")
    /\ UNCHANGED << database, pendingStock, lines, key, target, idx, answer, edit >>

\* Mutant: SELECT without FOR UPDATE.
TakeCorrelativoUnlocked(r) ==
    /\ pc[r] = "decrement"
    /\ ~MoreLines(r)
    /\ correlativo' = [correlativo EXCEPT ![r] = ultimo_correlativo + 1]
    /\ Goto(r, "flush")
    /\ UNCHANGED << database, rows, lines, key, target, idx, answer, edit >>

\* SELECT ... FOR UPDATE on the series row, whose newest version it reads.
TakeCorrelativo(r) ==
    /\ pc[r] = "decrement"
    /\ ~MoreLines(r)
    /\ Grantable(Serie, r)
    /\ lock' = [lock EXCEPT ![Serie] = r]
    /\ correlativo' = [correlativo EXCEPT ![r] = ultimo_correlativo + 1]
    /\ Goto(r, "flush")
    /\ UNCHANGED << database, pendingStock, lines, key, target, idx, answer, edit >>

\* Mutant: no unique index on idempotency_key.
FlushSaleUnchecked(r) ==
    /\ pc[r] = "flush"
    /\ Goto(r, "commit")
    /\ UNCHANGED << database, rows, lines, key, target, idx, correlativo, answer, edit >>

\* INSERT INTO sales.  Every sale holds the series row here, so the unique index
\* on idempotency_key is checked against committed sales only.
FlushSale(r) ==
    /\ pc[r] = "flush"
    /\ SalesWithKey(key[r]) = {}
    /\ Goto(r, "commit")
    /\ UNCHANGED << database, rows, lines, key, target, idx, correlativo, answer, edit >>

\* The IntegrityError of the flush is raised outside the try block: a 500.
DuplicateKey(r) ==
    /\ pc[r] = "flush"
    /\ SalesWithKey(key[r]) # {}
    /\ Rollback(r, "duplicate_key")

\* Mutant: the sale is stored without its key.
CommitSaleWithoutKey(r) ==
    /\ pc[r] = "commit"
    /\ CommitRows(r, "venta", -1)
    /\ ultimo_correlativo' = correlativo[r]
    /\ sale' = [sale EXCEPT ![r] = NewSale(correlativo[r], NoKey, lines[r])]

\* The movements are written and the transaction commits.
CommitSale(r) ==
    /\ pc[r] = "commit"
    /\ CommitRows(r, "venta", -1)
    /\ ultimo_correlativo' = correlativo[r]
    /\ \E items \in Reorderings(lines[r]) :
         sale' = [sale EXCEPT ![r] = NewSale(correlativo[r], key[r], items)]

-----------------------------------------------------------------------------
(* POST /sales/{id}/void: void_sale.                                       *)

\* The sale is read, without a lock, and is not anulada.
PostVoid(r, q) ==
    /\ pc[r] = "idle"
    /\ sale[q].estado = "completada"
    /\ Goto(r, "restore")
    /\ target' = [target EXCEPT ![r] = q]
    /\ lines' = [lines EXCEPT ![r] = sale[q].lines]
    /\ UNCHANGED << database, rows, key, idx, correlativo, answer, edit >>

\* 404 when there is no such sale, 409 when it is already anulada.
RejectVoid(r, q) ==
    /\ pc[r] = "idle"
    /\ q # r
    /\ sale[q].estado # "completada"
    /\ target' = [target EXCEPT ![r] = q]
    /\ Finish(r, "rejected")
    /\ UNCHANGED << database, rows, lines, key, idx, correlativo, edit >>

\* Mutant: every line is committed by itself.
RestoreAndCommitLine(r) ==
    /\ pc[r] = "restore"
    /\ MoreLines(r)
    /\ lock[Line(r).product] = None
    /\ stock' = [stock EXCEPT ![Line(r).product] = @ + Line(r).cantidad]
    /\ pendingStock' = [pendingStock EXCEPT ![Line(r).product] = @ + Line(r).cantidad]
    /\ idx' = [idx EXCEPT ![r] = @ + 1]
    /\ UNCHANGED << active, ultimo_correlativo, sale, movements, lock,
                    pc, lines, key, target, correlativo, answer, edit >>

\* UPDATE products SET stock = stock + cantidad, active or not.
RestoreStock(r) ==
    /\ pc[r] = "restore"
    /\ MoreLines(r)
    /\ Grantable(Line(r).product, r)
    /\ WriteLine(r, pendingStock[Line(r).product] + Line(r).cantidad)

\* Mutant: the sale stays completada.
CommitVoidUnmarked(r) ==
    /\ pc[r] = "restore"
    /\ ~MoreLines(r)
    /\ CommitRows(r, "anulacion", 1)
    /\ UNCHANGED << sale, ultimo_correlativo >>

\* The UPDATE of the sale does not look at the estado it overwrites.
CommitVoid(r) ==
    /\ pc[r] = "restore"
    /\ ~MoreLines(r)
    /\ CommitRows(r, "anulacion", 1)
    /\ sale' = [sale EXCEPT ![target[r]].estado = "anulada"]
    /\ UNCHANGED ultimo_correlativo

-----------------------------------------------------------------------------
(* Answers, deadlocks and restarts.                                        *)

\* The response leaves the server.  A sale just stored or voided is read again first:
\* if that fails, the answer to what is committed is a 500.
Committed(r) == answer[r] = "ok" /\ (target[r] = r \/ key[r] = NoKey)

Reply(r) ==
    /\ pc[r] = "reply"
    /\ Goto(r, "done")
    /\ \/ UNCHANGED answer
       \/ Committed(r) /\ answer' = [answer EXCEPT ![r] = "reread_failed"]
    /\ UNCHANGED << database, rows, lines, key, target, idx, correlativo, edit >>

\* A set of transactions each of which waits for one of them, and all are waited for.
Deadlocked(S) ==
    /\ \A q \in S : Waiting(q)
    /\ S = {lock[RowNeeded(q)] : q \in S}

\* PostgreSQL aborts one transaction of a cycle; its statement's error is a 500.
DeadlockVictim(r) ==
    /\ Waiting(r)
    /\ \E S \in SUBSET Request : r \in S /\ Deadlocked(S)
    /\ Rollback(r, "server_error")

\* The server process stops: every open transaction is rolled back, and no
\* request under way is answered.
Restart ==
    /\ \E r \in Request : InFlight(r)
    /\ pc' = [r \in Request |-> IF InFlight(r) THEN "done" ELSE pc[r]]
    /\ answer' = [r \in Request |-> IF InFlight(r) THEN "lost" ELSE answer[r]]
    /\ lock' = [x \in Resource |-> None]
    /\ pendingStock' = stock
    /\ edit' = [a \in Admin |-> IF edit[a].step = "save" THEN NoEdit ELSE edit[a]]
    /\ UNCHANGED << database, lines, key, target, idx, correlativo >>

-----------------------------------------------------------------------------
(* The administrator's product form, and delete and restore of a product.  *)

\* The form opens with the stock the server returned.
OpenProductForm(a, p) ==
    /\ edit[a].step = "none"
    /\ edit' = [edit EXCEPT ![a] = [step |-> "form", product |-> p, value |-> stock[p]]]
    /\ UNCHANGED << database, rows, handler >>

\* PUT /products/{id} carries the stock of the form, typed or left as it was,
\* and update_product loads the row as it is now.
SubmitProductForm(a) ==
    /\ edit[a].step = "form"
    /\ \E v \in StockEntered \cup {edit[a].value} :
         edit' = [edit EXCEPT ![a] = [step |-> "save", product |-> edit[a].product,
                                      value |-> v, loaded |-> stock[edit[a].product]]]
    /\ UNCHANGED << database, rows, handler >>

\* Mutant: the row lock of a sale under way is not waited for.
SaveStockUnlocked(a) ==
    /\ edit[a].step = "save"
    /\ edit[a].value # edit[a].loaded
    /\ stock' = [stock EXCEPT ![edit[a].product] = edit[a].value]
    /\ pendingStock' = [pendingStock EXCEPT ![edit[a].product] = edit[a].value]
    /\ edit' = [edit EXCEPT ![a] = NoEdit]
    /\ UNCHANGED << active, ultimo_correlativo, sale, movements, lock, handler >>

\* The flush writes the absolute stock, and only if it is not the one loaded.
SaveStock(a) ==
    /\ edit[a].step = "save"
    /\ edit[a].value # edit[a].loaded
    /\ lock[edit[a].product] = None
    /\ stock' = [stock EXCEPT ![edit[a].product] = edit[a].value]
    /\ pendingStock' = [pendingStock EXCEPT ![edit[a].product] = edit[a].value]
    /\ edit' = [edit EXCEPT ![a] = NoEdit]
    /\ UNCHANGED << active, ultimo_correlativo, sale, movements, lock, handler >>

SaveNothing(a) ==
    /\ edit[a].step = "save"
    /\ edit[a].value = edit[a].loaded
    /\ edit' = [edit EXCEPT ![a] = NoEdit]
    /\ UNCHANGED << database, rows, handler >>

\* delete_product and restore_product.
SetActive(p, value) ==
    /\ Admin # {}
    /\ active[p] # value
    /\ lock[p] = None
    /\ active' = [active EXCEPT ![p] = value]
    /\ UNCHANGED << stock, ultimo_correlativo, sale, movements, rows, handler, edit >>

-----------------------------------------------------------------------------
Arrive(r) ==
    \/ \E o \in Orders, k \in Key \cup {NoKey} : PostSale(r, o, k) \/ PostRepeatedSale(r, o, k)
    \/ \E q \in Request : PostVoid(r, q) \/ RejectVoid(r, q)

Serve(r) ==
    \/ GetOpenSession(r) \/ RejectSession(r)
    \/ ResolveProduct(r) \/ ProductNotFound(r)
    \/ AcceptTotals(r) \/ RejectTotals(r)
    \/ DecrementStock(r) \/ InsufficientStock(r)
    \/ TakeCorrelativo(r)
    \/ FlushSale(r) \/ DuplicateKey(r)
    \/ CommitSale(r)
    \/ RestoreStock(r) \/ CommitVoid(r)
    \/ DeadlockVictim(r)
    \/ Reply(r)

Administer ==
    \/ \E a \in Admin :
         \/ \E p \in Product : OpenProductForm(a, p)
         \/ SubmitProductForm(a)
         \/ SaveStock(a) \/ SaveNothing(a)
    \/ \E p \in Product, value \in BOOLEAN : SetActive(p, value)

Next ==
    \/ \E r \in Request : Arrive(r) \/ Serve(r)
    \/ Administer
    \/ Restart

\* The server runs every request it has accepted; nobody has to send one.
Fairness == \A r \in Request : WF_vars(Serve(r))

Spec == Init /\ [][Next]_vars /\ Fairness

-----------------------------------------------------------------------------
(* What the engine promises.                                               *)

Step == {"idle", "session", "resolve", "decrement", "flush", "commit", "restore", "reply", "done"}
Outcome == {"none", "ok", "rejected", "stock_out", "duplicate_key", "server_error", "reread_failed", "lost"}
Failure == {"rejected", "stock_out", "duplicate_key", "server_error"}

EditForm ==
    {NoEdit} \cup [step : {"form"}, product : Product, value : Nat]
             \cup [step : {"save"}, product : Product, value : Nat, loaded : Nat]

\* The types of the state; the sale and edit rows are checked by their fields.
TypeOK ==
    /\ stock \in [Product -> Int]
    /\ active \in [Product -> BOOLEAN]
    /\ ultimo_correlativo \in Nat
    /\ sale \in [Request -> SaleRow \cup {NoSale}]
    /\ movements \in [Motivo -> [Product -> Int]]
    /\ pendingStock \in [Product -> Int]
    /\ lock \in [Resource -> Request \cup {None}]
    /\ pc \in [Request -> Step]
    /\ lines \in [Request -> Seq(OrderLine)]
    /\ \A r \in Request : lines[r] = << >> \/ IsOrder(lines[r])
    /\ key \in [Request -> Key \cup {NoKey}]
    /\ target \in [Request -> Request]
    /\ idx \in [Request -> Nat \ {0}]
    /\ correlativo \in [Request -> Nat]
    /\ answer \in [Request -> Outcome]
    /\ edit \in [Admin -> EditForm]

\* No interleaving of sales, voids, edits and restarts oversells: neither the
\* committed stock nor what a transaction has written of it falls below zero
\* (the CHECK stock >= 0 of products never has to fire).
StockNeverNegative == \A p \in Product : stock[p] >= 0 /\ pendingStock[p] >= 0

\* The receipts of the series are numbered 1, 2, 3, ... without a gap and without
\* a duplicate, whatever was rolled back or lost (models/document_series.py).
CorrelativosConsecutive ==
    /\ \A n \in 1..ultimo_correlativo : \E q \in Request : Exists(q) /\ sale[q].correlativo = n
    /\ \A q \in Request : Exists(q) => sale[q].correlativo \in 1..ultimo_correlativo
    /\ \A q1, q2 \in Request :
         Exists(q1) /\ Exists(q2) /\ sale[q1].correlativo = sale[q2].correlativo => q1 = q2

\* However often and however concurrently a client sends one idempotency key,
\* it is charged once (models/sale.py, idempotency_key).
OneSalePerKey ==
    \A q1, q2 \in Request : Exists(q1) /\ q2 \in SalesWithKey(sale[q1].key) => q1 = q2

\* An answer tells the truth: after an error nothing of the request is stored,
\* after a success the sale it names is, under the key the client sent.  So it is
\* after the one error that can follow the commit, that of reading the sale again.
AnswersAreTrue ==
    \A r \in Request :
      /\ answer[r] \in Failure => ~Exists(r)
      /\ answer[r] \in {"ok", "reread_failed"} =>
           /\ Exists(target[r])
           /\ key[r] # NoKey => sale[target[r]].key = key[r]

\* Uncommitted stock belongs to a transaction that is still running and holds
\* the row: a rollback, a deadlock or a restart leaves neither behind.
UncommittedUnderLock ==
    /\ \A p \in Product : pendingStock[p] # stock[p] => lock[p] # None
    /\ \A x \in Resource : lock[x] # None =>
         pc[lock[x]] \in {"decrement", "flush", "commit", "restore"}

Ledger(p) == movements["venta"][p] + movements["anulacion"][p]

\* The ledger is exact about sales and voids: a step that records movements of a
\* product changes its stock by just what they say, and a step that changes stock
\* without movements is an administrator's edit, which never has any.
LedgerRecordsSales ==
    [][\A p \in Product :
         \/ stock'[p] - stock[p] = Ledger(p)' - Ledger(p)
         \/ /\ movements' = movements
            /\ \E a \in Admin : edit[a].step = "save" /\ edit[a].product = p /\ edit'[a] = NoEdit]_vars

Units(Q, p) == MapThenSumSet(LAMBDA q : CantidadOf(sale[q].lines, p), Q)
Voids == {r \in Request : lines[r] # << >> /\ target[r] # r /\ key[r] = NoKey}

\* The ledger of a product tells what is sold of it, whoever edits its stock: its
\* "venta" movements are the units of the stored sales, whatever was rolled back, and
\* its "anulacion" ones those of the anuladas, or more if two voids of one sale got
\* past the check of estado (see VoidRestoresOnce).
LedgerIsOfSales ==
    LET Anuladas == {q \in Request : sale[q].estado = "anulada"}
        OneVoidEach == \A r1, r2 \in Voids : target[r1] = target[r2] => r1 = r2 IN
    \A p \in Product :
      /\ movements["venta"][p] = -Units({q \in Request : Exists(q)}, p)
      /\ movements["anulacion"][p] >= Units(Anuladas, p)
      /\ OneVoidEach => movements["anulacion"][p] = Units(Anuladas, p)

\* A void gives back what its sale took, once.
VoidRestoresOnce ==
    \A p \in Product : movements["anulacion"][p] <= -movements["venta"][p]

\* A request whose key names a sale is answered with that sale, never with the
\* error of the unique index.
DuplicateGetsTheSale == \A r \in Request : answer[r] # "duplicate_key"

\* The transactions implement AtomicSales: their commits are its steps, and
\* nothing else they do can be seen in the database; a stock edit writes what was
\* typed in the form or what the form was opened with.
Atomic == INSTANCE AtomicSales WITH
    form <- [a \in Admin |-> IF edit[a].step = "none" THEN {}
                             ELSE {[product |-> edit[a].product, value |-> edit[a].value]}]
ImplementsAtomicSales == Atomic!Spec

\* Every request the server has accepted ends, whatever it waits for: row locks
\* are released and a cycle of waits is broken.
EveryRequestEnds == \A r \in Request : InFlight(r) ~> pc[r] = "done"
-----------------------------------------------------------------------------
(* Why it holds: the inductive invariant of SaleTransactionsProofs.        *)

Working == {"session", "resolve", "decrement", "flush", "commit", "restore"}
Holding == {"decrement", "flush", "commit", "restore"}
Numbered == {"flush", "commit"}

\* What a handler knows at each of its steps.
HandlerOK(r) ==
    /\ pc[r] \in Working => lines[r] # << >>
    /\ pc[r] \in {"idle", "session"} => idx[r] = 1
    /\ pc[r] \in Numbered => ~MoreLines(r)
    /\ pc[r] \in {"idle", "restore"} => key[r] = NoKey
    /\ pc[r] \notin {"reply", "done"} => sale[r] = NoSale /\ answer[r] = "none"
    /\ pc[r] \in {"idle"} \cup (Working \ {"restore"}) => target[r] = r
    /\ pc[r] \in Working \ {"restore"} => lines[r] \in Orders
    /\ pc[r] = "restore" => sale[target[r]] # NoSale /\ lines[r] = sale[target[r]].lines

HandlerInv == \A r \in Request : HandlerOK(r)

\* Which rows a transaction has locked, and what it has written to them.
LockInv ==
    /\ \A p \in Product : lock[p] = None => pendingStock[p] = stock[p]
    /\ \A r \in Request, x \in Resource : lock[x] = r => pc[r] \in Holding
    /\ \A r \in Request, p \in Product : lock[p] = r =>
         /\ \E j \in DOMAIN lines[r] : j < idx[r] /\ lines[r][j].product = p
         /\ pendingStock[p] = IF pc[r] = "restore" THEN stock[p] + CantidadOf(lines[r], p)
                                                  ELSE stock[p] - CantidadOf(lines[r], p)
    /\ \A r \in Request : pc[r] \in Holding =>
         \A j \in DOMAIN lines[r] : j < idx[r] => lock[lines[r][j].product] = r

\* The series row is held from its SELECT to the commit, so the number and the
\* key of the one sale that holds it are still unused.
SeriesInv ==
    /\ \A r \in Request : lock[Serie] = r <=> pc[r] \in Numbered
    /\ \A r \in Request : pc[r] \in Numbered => correlativo[r] = ultimo_correlativo + 1
    /\ \A r \in Request : pc[r] = "commit" => SalesWithKey(key[r]) = {}

\* A product a sale has decremented is not deleted before the sale ends.
ActiveInv ==
    \A r \in Request, p \in Product : lock[p] = r /\ pc[r] # "restore" => active[p]

\* The invariant that the proofs show inductive, checked here on a small instance.
IInv ==
    /\ TypeOK /\ HandlerInv /\ LockInv /\ ActiveInv /\ SeriesInv
    /\ StockNeverNegative /\ CorrelativosConsecutive /\ OneSalePerKey /\ AnswersAreTrue
=============================================================================
